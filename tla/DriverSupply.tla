---------------------------- MODULE DriverSupply ----------------------------
(***************************************************************************)
(* How drivers come to be and become available: sign-up through the        *)
(* user-service (auth.go, driver_client.go), DriverService.Register,       *)
(* UpdateProfile, UpdateAvailability, RecordLocation and                   *)
(* SearchNearbyDrivers over the drivers, vehicles and driver_status tables *)
(* and the Redis GEO index.  Every repository call is a step of its own    *)
(* and may fail; no transaction spans two of them.                         *)
(*                                                                         *)
(* Users stand for their e-mail addresses and ids; a driver's id is drawn  *)
(* anew by every INSERT.  Coordinates are left out: a search sees any      *)
(* indexed drivers, up to its limit.                                       *)
(***************************************************************************)
EXTENDS Naturals, FiniteSets

CONSTANTS
  Users, Plates, Handlers,
  Veterans,      \* users who are drivers already, without a vehicle and offline
  SearchLimit,   \* Count of the GEO search
  MaxRequests,   \* bound: requests in all
  MaxFaults,     \* bound: failing calls and lost answers
  NoUser, NoPlate

ASSUME ConstantsOK ==
  /\ IsFiniteSet(Users) /\ IsFiniteSet(Handlers) /\ Veterans \subseteq Users
  /\ NoUser \notin Users /\ NoPlate \notin Plates
  /\ SearchLimit \in Nat \ {0} /\ MaxRequests \in Nat /\ MaxFaults \in Nat

VARIABLES
  accounts,  \* users: who has a row
  owner,     \* drivers: the user of each id, NoUser where there is no row
  nextId,    \* the id the next INSERT draws
  vehicle,   \* vehicles: the plate of each driver id
  status,    \* driver_status of each driver id
  indexed,   \* driver ids in the GEO set
  req,       \* the request each handler serves
  started, faults,
  answered,  \* history: registrations answered 201, and whether with a vehicle
  away,      \* history: drivers whose last finished change was to offline
  unlocated  \* history: drivers taken out of the index with no location since

db   == <<accounts, owner, nextId, vehicle, status, indexed>>
hist == <<answered, away, unlocated>>
vars == <<db, req, started, faults, hist>>

Ids == 1 .. Cardinality(Users) + MaxRequests   \* never runs out
Registering == {"signup", "register"}

Idle == [pc |-> "idle", kind |-> "none", user |-> NoUser, id |-> 0,
         plate |-> NoPlate, lost |-> FALSE, todo |-> {}, found |-> {}, banned |-> {}]

Init ==
  /\ accounts = Veterans
  /\ owner \in [Ids -> Veterans \cup {NoUser}]
  /\ \A u \in Veterans : Cardinality({i \in Ids : owner[i] = u}) = 1
  /\ \A i \in Ids : owner[i] # NoUser <=> i <= Cardinality(Veterans)
  /\ nextId = Cardinality(Veterans) + 1
  /\ vehicle = [i \in Ids |-> NoPlate]
  /\ status = [i \in Ids |-> IF owner[i] = NoUser THEN "none" ELSE "offline"]
  /\ indexed = {}
  /\ req = [h \in Handlers |-> Idle] /\ started = 0 /\ faults = 0
  /\ answered = {} /\ away = {} /\ unlocated = {}

At(h, pc)   == req[h].pc = pc
Goto(h, pc) == req' = [req EXCEPT ![h].pc = pc]
Finish(h)   == req' = [req EXCEPT ![h] = Idle]
Exists(i)   == i \in Ids /\ owner[i] # NoUser
RowsOf(u)   == {i \in Ids : owner[i] = u}
Serving(kind, i) == \E h \in Handlers : req[h].kind = kind /\ req[h].id = i

Serve(h, r) ==
  /\ At(h, "idle") /\ started < MaxRequests
  /\ started' = started + 1
  /\ req' = [req EXCEPT ![h] = r]
  /\ UNCHANGED <<db, faults>>

-----------------------------------------------------------------------------
(* Requests arrive.  All but a sign-up and a search are for a user who is   *)
(* logged in; a location comes for a driver the trip-service looked up.     *)

StartSignup(h, u, p) ==
  Serve(h, [Idle EXCEPT !.pc = "checkEmail", !.kind = "signup", !.user = u, !.plate = p])
  /\ UNCHANGED hist

StartRegister(h, u, p) ==
  /\ u \in accounts
  /\ Serve(h, [Idle EXCEPT !.pc = "findDriver", !.kind = "register", !.user = u, !.plate = p])
  /\ UNCHANGED hist

StartUpdate(h, u, p) ==
  /\ u \in accounts
  /\ Serve(h, [Idle EXCEPT !.pc = "findMe", !.kind = "update", !.user = u, !.plate = p])
  /\ UNCHANGED hist

StartAvailability(h, u, kind) ==
  /\ u \in accounts
  /\ Serve(h, [Idle EXCEPT !.pc = "findMe", !.kind = kind, !.user = u])
  /\ UNCHANGED hist

StartLocation(h, i) ==
  /\ Exists(i)
  /\ Serve(h, [Idle EXCEPT !.pc = "insertLocation", !.kind = "locate", !.id = i])
  /\ unlocated' = unlocated \ {i}
  /\ UNCHANGED <<answered, away>>

StartSearch(h) ==
  Serve(h, [Idle EXCEPT !.pc = "nearby", !.kind = "search", !.banned = away])
  /\ UNCHANGED hist

-----------------------------------------------------------------------------
(* AuthHandler.RegisterDriver: the account, then the driver profile, over   *)
(* HTTP when the services are split.                                        *)

CheckEmail(h) ==
  /\ At(h, "checkEmail")
  /\ IF req[h].user \in accounts THEN Finish(h) ELSE Goto(h, "createUser")
  /\ UNCHANGED <<db, started, faults, hist>>

\* Mutant of CreateUser: the error of the INSERT is not looked at.
CreateUserUnchecked(h) ==
  /\ At(h, "createUser")
  /\ accounts' \in {accounts, accounts \cup {req[h].user}}
  /\ Goto(h, "findDriver")
  /\ UNCHANGED <<owner, nextId, vehicle, status, indexed, started, faults, hist>>

CreateUser(h) ==
  /\ At(h, "createUser")
  /\ IF req[h].user \in accounts THEN Finish(h) ELSE Goto(h, "findDriver")
  /\ accounts' = accounts \cup {req[h].user}
  /\ UNCHANGED <<owner, nextId, vehicle, status, indexed, started, faults, hist>>

-----------------------------------------------------------------------------
(* DriverService.Register; SaveVehicle is UpdateProfile's, too.             *)

FindDriver(h) ==
  /\ At(h, "findDriver")
  /\ IF RowsOf(req[h].user) # {} THEN Finish(h) ELSE Goto(h, "createDriver")
  /\ UNCHANGED <<db, started, faults, hist>>

CreateDriver(h) ==
  /\ At(h, "createDriver")
  /\ IF RowsOf(req[h].user) # {}
       THEN Finish(h) /\ UNCHANGED <<owner, nextId>>       \* user_id is UNIQUE
       ELSE /\ owner' = [owner EXCEPT ![nextId] = req[h].user]
            /\ nextId' = nextId + 1
            /\ req' = [req EXCEPT ![h].id = nextId,
                 ![h].pc = IF req[h].plate = NoPlate THEN "setOffline" ELSE "lookVehicle"]
  /\ UNCHANGED <<accounts, vehicle, status, indexed, started, faults, hist>>

LookVehicle(h) ==
  /\ At(h, "lookVehicle")
  /\ Goto(h, IF vehicle[req[h].id] = NoPlate THEN "insertVehicle" ELSE "updateVehicle")
  /\ UNCHANGED <<db, started, faults, hist>>

\* Mutant of VehicleFails: the error is swallowed.
VehicleIgnored(h) ==
  IF req[h].kind \in Registering THEN Goto(h, "setOffline") ELSE Finish(h)

VehicleFails(h) ==
  IF req[h].kind \in Registering THEN Goto(h, "rollback") ELSE Finish(h)

(* The INSERT needs the driver's row, a driver without a vehicle and a plate *)
(* nobody has; the UPDATE a plate no other vehicle has, and a row to re-read.*)
SaveVehicle(h) ==
  LET i      == req[h].id
      free   == \A j \in Ids \ {i} : vehicle[j] # req[h].plate
      saves  == free /\ Exists(i)
                  /\ (At(h, "insertVehicle") <=> vehicle[i] = NoPlate)
  IN  /\ req[h].pc \in {"insertVehicle", "updateVehicle"}
      /\ IF saves
           THEN /\ vehicle' = [vehicle EXCEPT ![i] = req[h].plate]
                /\ IF req[h].kind \in Registering THEN Goto(h, "setOffline") ELSE Finish(h)
           ELSE VehicleFails(h) /\ UNCHANGED vehicle
      /\ UNCHANGED <<accounts, owner, nextId, status, indexed, started, faults, hist>>

\* Mutant of Rollback: the driver's row stays.
RollbackNothing(h) ==
  /\ At(h, "rollback") /\ Finish(h)
  /\ UNCHANGED <<db, started, faults, hist>>

(* DELETE cascades to the vehicle and the status, not to Redis.             *)
Rollback(h) ==
  LET i == req[h].id
  IN  /\ At(h, "rollback") /\ Finish(h)
      /\ owner' = [owner EXCEPT ![i] = NoUser]
      /\ vehicle' = [vehicle EXCEPT ![i] = NoPlate]
      /\ status' = [status EXCEPT ![i] = "none"]
      /\ UNCHANGED <<accounts, nextId, indexed, started, faults, hist>>

SetOffline(h) ==
  /\ At(h, "setOffline")
  /\ status' = [status EXCEPT ![req[h].id] = "offline"]
  /\ Goto(h, "answer")
  /\ UNCHANGED <<accounts, owner, nextId, vehicle, indexed, started, faults, hist>>

(* 201, after a sign-up has its session; not if the user-service gave up.   *)
Answer(h) ==
  /\ At(h, "answer") /\ Finish(h)
  /\ answered' = IF req[h].lost THEN answered
       ELSE answered \cup {[id |-> req[h].id, vehicle |-> req[h].plate # NoPlate]}
  /\ UNCHANGED <<db, started, faults, away, unlocated>>

-----------------------------------------------------------------------------
(* The driver's own requests begin with FindByUserID (Me, UpdateProfile).   *)

FindMe(h) ==
  LET mine    == RowsOf(req[h].user)
      wanted  == IF req[h].kind = "online" THEN mine ELSE {}
      goes(i) == [req[h] EXCEPT !.id = i,
                    !.banned = IF req[h].kind = "offline" /\ ~Serving("online", i)
                                 THEN {i} ELSE {},
                    !.pc = IF req[h].kind = "update" THEN "updateDriver" ELSE "findById"]
  IN  /\ At(h, "findMe")
      /\ \E me \in {goes(i) : i \in mine} \cup (IF mine = {} THEN {Idle} ELSE {}) :
           req' = [g \in Handlers |-> IF g = h THEN me
                                     ELSE [req[g] EXCEPT !.banned = @ \ wanted]]
      /\ away' = away \ wanted
      /\ UNCHANGED <<db, started, faults, answered, unlocated>>

UpdateDriver(h) ==
  /\ At(h, "updateDriver")
  /\ IF Exists(req[h].id) /\ req[h].plate # NoPlate
       THEN Goto(h, "lookVehicle") ELSE Finish(h)
  /\ UNCHANGED <<db, started, faults, hist>>

FindById(h) ==
  /\ At(h, "findById")
  /\ IF Exists(req[h].id) THEN Goto(h, "setAvailability") ELSE Finish(h)
  /\ UNCHANGED <<db, started, faults, hist>>

SetAvailability(h) ==
  LET i == req[h].id
  IN  /\ At(h, "setAvailability")
      /\ IF Exists(i)
           THEN /\ status' = [status EXCEPT ![i] = req[h].kind]
                /\ IF req[h].kind = "offline" THEN Goto(h, "removeIndex") ELSE Finish(h)
           ELSE Finish(h) /\ UNCHANGED status
      /\ UNCHANGED <<accounts, owner, nextId, vehicle, indexed, started, faults, hist>>

(* Geo index Remove; the driver is told that he is offline.  That settles   *)
(* his status unless a request to be online overlapped (banned), and his    *)
(* place in the index unless a location is on its way.                      *)
Settled(h, i) ==
  /\ away' = away \cup req[h].banned
  /\ unlocated' = IF Serving("locate", i) THEN unlocated ELSE unlocated \cup {i}

\* Mutant of RemoveIndex: going offline leaves the index alone.
RemoveNothing(h) ==
  /\ At(h, "removeIndex") /\ Finish(h)
  /\ Settled(h, req[h].id)
  /\ UNCHANGED <<db, started, faults, answered>>

RemoveIndex(h) ==
  /\ At(h, "removeIndex") /\ Finish(h)
  /\ indexed' = indexed \ {req[h].id}
  /\ Settled(h, req[h].id)
  /\ UNCHANGED <<accounts, owner, nextId, vehicle, status, started, faults, answered>>

InsertLocation(h) ==
  /\ At(h, "insertLocation")
  /\ IF Exists(req[h].id) THEN Goto(h, "upsert") ELSE Finish(h)
  /\ UNCHANGED <<db, started, faults, hist>>

Upsert(h) ==
  /\ At(h, "upsert") /\ Finish(h)
  /\ indexed' = indexed \cup {req[h].id}
  /\ UNCHANGED <<accounts, owner, nextId, vehicle, status, started, faults, hist>>

-----------------------------------------------------------------------------
(* SearchNearbyDrivers: the index once, then the tables driver by driver.   *)

Nearby(h) ==
  /\ At(h, "nearby")
  /\ \E near \in {s \in SUBSET indexed : Cardinality(s) <= SearchLimit} :
       req' = [req EXCEPT ![h].todo = near, ![h].pc = "profile"]
  /\ UNCHANGED <<db, started, faults, hist>>

LoadProfile(h) ==
  /\ At(h, "profile")
  /\ IF req[h].todo = {} THEN Finish(h)
     ELSE \E i \in req[h].todo :
            req' = [req EXCEPT ![h].id = i, ![h].todo = @ \ {i},
                      ![h].pc = IF Exists(i) THEN "judge" ELSE "profile"]
  /\ UNCHANGED <<db, started, faults, hist>>

\* Mutant of IsOnline: whoever is in the index counts as online.
IsListed(i) == i \in Ids

IsOnline(i) == status[i] = "online"

Judge(h) ==
  /\ At(h, "judge")
  /\ req' = [req EXCEPT ![h].pc = "profile",
       ![h].found = IF IsOnline(req[h].id) THEN @ \cup {req[h].id} ELSE @]
  /\ UNCHANGED <<db, started, faults, hist>>

-----------------------------------------------------------------------------
(* A call fails, with no effect, or a finished answer does not arrive; the  *)
(* handler takes its error path.  The                                       *)
(* error of Register's SetAvailability is dropped, that of its rollback too.*)
(* A cancelled request fails all its calls.                                 *)
Fail(h) ==
  /\ ~At(h, "idle") /\ (faults < MaxFaults \/ req[h].lost)
  /\ faults' = IF req[h].lost THEN faults ELSE faults + 1
  /\ CASE req[h].pc \in {"lookVehicle", "insertVehicle", "updateVehicle"} -> VehicleFails(h)
       [] At(h, "setOffline") -> Goto(h, "answer")
       [] OTHER -> Finish(h)
  /\ UNCHANGED <<db, started, hist>>

(* The user-service gives up on the driver-service after 5 s, which cancels *)
(* the request there.                                                       *)
LoseAnswer(h) ==
  /\ req[h].kind = "signup" /\ ~req[h].lost /\ faults < MaxFaults
  /\ req[h].pc \notin {"checkEmail", "createUser"}
  /\ req' = [req EXCEPT ![h].lost = TRUE]
  /\ faults' = faults + 1
  /\ UNCHANGED <<db, started, hist>>

Start(h) ==
  \/ \E u \in Users, p \in Plates \cup {NoPlate} :
       StartSignup(h, u, p) \/ StartRegister(h, u, p) \/ StartUpdate(h, u, p)
  \/ \E u \in Users, kind \in {"online", "offline"} : StartAvailability(h, u, kind)
  \/ \E i \in Ids : StartLocation(h, i)
  \/ StartSearch(h)

Register(h) ==
  \/ CheckEmail(h) \/ CreateUser(h) \/ FindDriver(h) \/ CreateDriver(h)
  \/ LookVehicle(h) \/ SaveVehicle(h) \/ Rollback(h) \/ SetOffline(h) \/ Answer(h)

Presence(h) ==
  \/ FindMe(h) \/ UpdateDriver(h) \/ FindById(h) \/ SetAvailability(h) \/ RemoveIndex(h)
  \/ InsertLocation(h) \/ Upsert(h) \/ Nearby(h) \/ LoadProfile(h) \/ Judge(h)

Next == \E h \in Handlers :
          Start(h) \/ Register(h) \/ Presence(h) \/ Fail(h) \/ LoseAnswer(h)

Spec == Init /\ [][Next]_vars

-----------------------------------------------------------------------------
NeedsId ==
  {"lookVehicle", "insertVehicle", "updateVehicle", "rollback", "setOffline", "answer",
   "updateDriver", "findById", "setAvailability", "removeIndex", "insertLocation",
   "upsert", "judge"}

TypeOK ==
  /\ accounts \subseteq Users /\ nextId \in 1 .. Cardinality(Users) + MaxRequests + 1
  /\ owner \in [Ids -> Users \cup {NoUser}] /\ vehicle \in [Ids -> Plates \cup {NoPlate}]
  /\ status \in [Ids -> {"none", "offline", "online"}] /\ indexed \subseteq Ids
  /\ \A h \in Handlers :
       /\ req[h].user \in Users \cup {NoUser} /\ req[h].id \in Ids \cup {0}
       /\ req[h].pc \in NeedsId => req[h].id \in Ids
       /\ req[h].todo \subseteq Ids /\ req[h].found \subseteq Ids
  /\ away \cup unlocated \subseteq Ids

(* A driver profile always belongs to an account: no order of sign-ups,     *)
(* registrations and failing calls leaves a driver nobody can log in as.    *)
(* The services keep the two in different databases, without a foreign key. *)
DriversHaveAccounts == \A i \in Ids : Exists(i) => owner[i] \in accounts

(* A registration that was answered 201 has left a driver, and a vehicle if *)
(* it named one, and no later request or rollback takes them away.          *)
AnsweredIsWhole ==
  \A a \in answered : Exists(a.id) /\ (a.vehicle => vehicle[a.id] # NoPlate)

(* While no call has failed, a driver row is there because its registration *)
(* succeeded or is still at work: a refused vehicle leaves no orphan.       *)
NoStrayDrivers ==
  faults = 0 =>
    \A i \in Ids : Exists(i) =>
      \/ owner[i] \in Veterans
      \/ \E a \in answered : a.id = i
      \/ \E kind \in Registering : Serving(kind, i)

(* A search never offers a driver who had been told that he is offline      *)
(* before it began and has not asked to be online since, however stale the  *)
(* index is.                                                                *)
SearchHonoursOffline ==
  \A h \in Handlers : req[h].found \cap req[h].banned = {}

(* A driver who went offline stays out of the index until another location  *)
(* of his arrives.                                                          *)
OfflineLeavesIndex == unlocated \cap indexed = {}
=============================================================================
