------------------------- MODULE DriverSupplyProofs -------------------------
(***************************************************************************)
(* Proofs about DriverSupply for any numbers of users, plates, handlers,   *)
(* requests and failing calls.                                             *)
(***************************************************************************)
EXTENDS DriverSupply, FiniteSetTheorems, TLAPS

VehiclePcs == {"lookVehicle", "insertVehicle", "updateVehicle"}
BeforeRow  == {"checkEmail", "createUser", "findDriver", "createDriver"}
AfterRow   == VehiclePcs \cup {"rollback", "setOffline", "answer"}
SearchPcs  == {"nearby", "profile", "judge"}
Pcs == BeforeRow \cup AfterRow \cup SearchPcs \cup
  {"idle", "findMe", "updateDriver", "findById", "setAvailability", "removeIndex",
   "insertLocation", "upsert"}
Kinds == {"none", "signup", "register", "update", "online", "offline", "locate", "search"}

Requests == [pc : Pcs, kind : Kinds, user : Users \cup {NoUser}, id : Ids \cup {0},
             plate : Plates \cup {NoPlate}, lost : BOOLEAN, todo : SUBSET Ids,
             found : SUBSET Ids, banned : SUBSET Ids]
Answers  == [id : Ids, vehicle : BOOLEAN]

Types ==
  /\ accounts \subseteq Users
  /\ nextId \in 1 .. Cardinality(Users) + MaxRequests + 1
  /\ owner \in [Ids -> Users \cup {NoUser}]
  /\ vehicle \in [Ids -> Plates \cup {NoPlate}]
  /\ status \in [Ids -> {"none", "offline", "online"}]
  /\ indexed \subseteq Ids
  /\ req \in [Handlers -> Requests]
  /\ started \in 0 .. MaxRequests /\ faults \in Nat
  /\ answered \subseteq Answers /\ away \subseteq Ids /\ unlocated \subseteq Ids

(* Which kinds of requests get to a step.                                  *)
KindFits(q) ==
  /\ q.pc = "idle" <=> q.kind = "none"
  /\ q.pc \in BeforeRow \cup {"rollback", "setOffline", "answer"} => q.kind \in Registering
  /\ q.pc \in {"checkEmail", "createUser"} => q.kind = "signup"
  /\ q.pc \in VehiclePcs => q.kind \in Registering \cup {"update"}
  /\ q.pc \in SearchPcs <=> q.kind = "search"
  /\ q.pc = "findMe" => q.kind \in {"update", "online", "offline"}
  /\ q.pc = "updateDriver" => q.kind = "update"
  /\ q.pc \in {"findById", "setAvailability"} => q.kind \in {"online", "offline"}
  /\ q.pc = "removeIndex" => q.kind = "offline"
  /\ q.pc \in {"insertLocation", "upsert"} <=> q.kind = "locate"
  /\ q.pc \in NeedsId => q.id \in Ids

(* What a registration has established: an account first, then a row of    *)
(* its own that was not answered for yet, then the vehicle it came with.   *)
RegistrationFits(q) ==
  /\ q.lost => faults > 0
  /\ q.kind \in Registering /\ q.pc \in BeforeRow => q.id = 0 /\ q.user \in Users
  /\ q.pc \in {"findDriver", "createDriver"} => q.user \in accounts
  /\ q.kind \in Registering /\ q.pc \in AfterRow =>
       /\ q.id < nextId /\ Exists(q.id)
       /\ \A a \in answered : a.id # q.id
  /\ q.pc \in VehiclePcs => q.plate # NoPlate
  /\ q.pc \in {"setOffline", "answer"} /\ q.plate # NoPlate => vehicle[q.id] # NoPlate

(* Whom a search must not offer is not online, nor is a driver who is      *)
(* about to be told that he is offline; a location on its way is expected. *)
PresenceFits(q) ==
  /\ q.kind \notin {"search", "offline"} => q.banned = {}
  /\ q.kind # "search" => q.found = {}
  /\ q.kind = "offline" => q.banned \subseteq {q.id}
  /\ q.kind = "search" \/ q.pc = "removeIndex" => \A i \in q.banned : status[i] # "online"
  /\ q.found \cap q.banned = {}
  /\ q.kind = "locate" => q.id \notin unlocated

Fits(q) == KindFits(q) /\ RegistrationFits(q) /\ PresenceFits(q)

(* Two registrations never share a row, and whoever is held to be offline  *)
(* has no request to be online at work.                                    *)
OwnRow(g, h) ==
  req[g].kind \in Registering /\ req[h].kind \in Registering /\ req[g].id = req[h].id
    => req[g].id = 0
StaysOff(g, h) == req[g].kind = "online" => req[g].id \notin away \cup req[h].banned

Rows ==
  /\ \A i \in Ids : Exists(i) => i < nextId /\ owner[i] \in accounts
  /\ AnsweredIsWhole /\ NoStrayDrivers /\ OfflineLeavesIndex
  /\ \A i \in away : status[i] # "online"

(* Ids do not run out: every request has drawn one at most.                *)
Drawing  == {h \in Handlers : req[h].pc \in BeforeRow}
IdsLeft  == nextId + Cardinality(Drawing) <= Cardinality(Veterans) + 1 + started

IInv ==
  /\ Types /\ Rows /\ IdsLeft
  /\ \A h \in Handlers : Fits(req[h])
  /\ \A g, h \in Handlers : (g # h => OwnRow(g, h)) /\ StaysOff(g, h)

-----------------------------------------------------------------------------
(* The frame of a step in which request h becomes q.                       *)

LEMMA IdleFits == Idle \in Requests /\ (Types => Fits(Idle))
<1>1. Idle \in Requests
  BY DEF Idle, Requests, Pcs, Kinds
<1>2. ASSUME Types PROVE Fits(Idle)
  BY DEF Idle, Fits, KindFits, RegistrationFits, PresenceFits, BeforeRow, AfterRow, VehiclePcs,
     SearchPcs, Registering, NeedsId
<1> QED BY <1>1, <1>2

LEMMA BecomesQ ==
  ASSUME IInv, NEW h \in Handlers, NEW q \in Requests, req' = [req EXCEPT ![h] = q]
  PROVE  /\ \A g \in Handlers : req'[g] = IF g = h THEN q ELSE req[g]
         /\ req' \in [Handlers -> Requests]
  BY DEF IInv, Types

(* What another request has established stands, if its row, its vehicle    *)
(* and those it must not offer are let alone.                              *)
LEMMA FitsStands ==
  ASSUME NEW q \in Requests, Fits(q),
         accounts \subseteq accounts',
         nextId \in Nat, nextId' \in Nat, nextId <= nextId',
         faults \in Nat, faults' \in Nat, faults <= faults',
         q.kind \in Registering /\ q.pc \in AfterRow =>
           /\ Exists(q.id)'
           /\ vehicle[q.id] # NoPlate => vehicle'[q.id] # NoPlate
           /\ \A a \in answered' : a.id # q.id,
         \A i \in q.banned : status'[i] = "online" => status[i] = "online",
         q.kind = "locate" => q.id \notin unlocated'
  PROVE  Fits(q)'
<1>1. KindFits(q)'
  BY DEF Fits, KindFits
<1>2. RegistrationFits(q)'
  <2>1. q.id < nextId => q.id < nextId'
    <3>1. q.id \in Nat
      BY ConstantsOK DEF Requests, Ids
    <3> QED BY <3>1
  <2>2. q.pc \in {"setOffline", "answer"} => q.kind \in Registering /\ q.pc \in AfterRow
    BY DEF Fits, KindFits, AfterRow
  <2> QED BY <2>1, <2>2 DEF Fits, RegistrationFits
<1>3. PresenceFits(q)'
  BY DEF Fits, PresenceFits
<1> QED BY <1>1, <1>2, <1>3 DEF Fits

(* Nobody's row and nobody's status comes between two requests.            *)
LEMMA PairsStand ==
  ASSUME IInv, NEW h \in Handlers, NEW q \in Requests, req' = [req EXCEPT ![h] = q],
         q.kind \in Registering =>
           \/ q.id = 0
           \/ req[h].kind \in Registering /\ q.id = req[h].id
           \/ \A g \in Handlers : req[g].kind \in Registering => req[g].id # q.id,
         q.kind = "online" => q.id = 0 \/ (req[h].kind = "online" /\ q.id = req[h].id),
         \A i \in q.banned : i \in req[h].banned \cup away \/ ~Serving("online", i),
         away' \subseteq away \cup req[h].banned
  PROVE  \A g, k \in Handlers : (g # k => OwnRow(g, k)') /\ StaysOff(g, k)'
<1>1. \A g \in Handlers : req'[g] = IF g = h THEN q ELSE req[g]
  BY BecomesQ
<1>2. ASSUME NEW g \in Handlers, NEW k \in Handlers, g # k PROVE OwnRow(g, k)'
  <2>1. OwnRow(g, k) /\ OwnRow(k, g)
    BY <1>2 DEF IInv
  <2> QED BY <1>1, <1>2, <2>1 DEF OwnRow
<1>3. ASSUME NEW g \in Handlers, NEW k \in Handlers PROVE StaysOff(g, k)'
  <2>1. StaysOff(g, k) /\ StaysOff(h, k) /\ StaysOff(g, h) /\ StaysOff(h, h)
    BY DEF IInv
  <2>2. 0 \notin away \cup req[k].banned \cup req[h].banned
    BY DEF IInv, Types, Requests, Ids
  <2>3. req[g].kind = "online" => \A i \in q.banned :
                                    i \in req[h].banned \cup away \/ req[g].id # i
    BY DEF Serving
  <2>4. req[h].kind = "online" => \A i \in q.banned :
                                    i \in req[h].banned \cup away \/ req[h].id # i
    BY DEF Serving
  <2>5. q.kind = "online" => q.id \in {0, req[h].id} /\ 0 \notin q.banned
    BY DEF Requests, Ids
  <2>6. CASE g = h
    BY <1>1, <2>1, <2>2, <2>4, <2>5, <2>6 DEF StaysOff
  <2>7. CASE g # h
    BY <1>1, <2>1, <2>2, <2>3, <2>7 DEF StaysOff
  <2> QED BY <2>6, <2>7
<1> QED BY <1>2, <1>3

LEMMA DrawingIsFinite == IsFiniteSet(Drawing) /\ Cardinality(Drawing) \in Nat
<1>1. Drawing \in SUBSET Handlers
  BY DEF Drawing
<1> QED BY <1>1, ConstantsOK, FS_Subset, FS_CardinalityType

LEMMA DrawingMoves ==
  ASSUME IInv, NEW h \in Handlers, NEW q \in Requests, req' = [req EXCEPT ![h] = q]
  PROVE  /\ Cardinality(Drawing') \in Nat
         /\ Cardinality(Drawing') <= Cardinality(Drawing) + 1
         /\ q.pc \in BeforeRow /\ req[h].pc \in BeforeRow =>
              Cardinality(Drawing') = Cardinality(Drawing)
         /\ q.pc \notin BeforeRow =>
              Cardinality(Drawing') = IF req[h].pc \in BeforeRow THEN Cardinality(Drawing) - 1
                                      ELSE Cardinality(Drawing)
<1>1. \A g \in Handlers : req'[g] = IF g = h THEN q ELSE req[g]
  BY BecomesQ
<1>2. CASE q.pc \in BeforeRow
  <2>1. Drawing' = Drawing \cup {h}
    BY <1>1, <1>2 DEF Drawing
  <2>2. h \in Drawing <=> req[h].pc \in BeforeRow
    BY DEF Drawing
  <2>3. /\ IsFiniteSet(Drawing')
        /\ Cardinality(Drawing') = IF h \in Drawing THEN Cardinality(Drawing)
                                   ELSE Cardinality(Drawing) + 1
    BY <2>1, DrawingIsFinite, FS_AddElement
  <2> QED BY <1>2, <2>2, <2>3, DrawingIsFinite
<1>3. CASE q.pc \notin BeforeRow
  <2>1. Drawing' = Drawing \ {h}
    BY <1>1, <1>3 DEF Drawing
  <2>2. h \in Drawing <=> req[h].pc \in BeforeRow
    BY DEF Drawing
  <2>3. /\ IsFiniteSet(Drawing')
        /\ Cardinality(Drawing') = IF h \in Drawing THEN Cardinality(Drawing) - 1
                                   ELSE Cardinality(Drawing)
    BY <2>1, DrawingIsFinite, FS_RemoveElement
  <2>4. Cardinality(Drawing') \in Nat
    BY <2>3, FS_CardinalityType
  <2> QED BY <1>3, <2>2, <2>3, <2>4, DrawingIsFinite
<1> QED BY <1>2, <1>3

LEMMA CountsAreNats ==
  /\ Cardinality(Users) \in Nat /\ Cardinality(Veterans) \in Nat
  /\ Cardinality(Veterans) <= Cardinality(Users)
  BY ConstantsOK, FS_Subset, FS_CardinalityType

(* Drawing no further id and taking no request in leaves enough of them.   *)
LEMMA IdsStand ==
  ASSUME IInv, NEW h \in Handlers, NEW q \in Requests, req' = [req EXCEPT ![h] = q],
         q.pc \in BeforeRow => req[h].pc \in BeforeRow,
         UNCHANGED <<nextId, started>>
  PROVE  IdsLeft'
<1>1. Cardinality(Drawing') \in Nat /\ Cardinality(Drawing') <= Cardinality(Drawing)
  <2>1. Cardinality(Drawing') \in Nat
    BY DrawingMoves
  <2>2. Cardinality(Drawing') \in {Cardinality(Drawing), Cardinality(Drawing) - 1}
    BY DrawingMoves
  <2> QED BY <2>1, <2>2, DrawingIsFinite
<1>2. nextId \in Nat /\ started \in Nat
  BY CountsAreNats, ConstantsOK DEF IInv, Types
<1> QED BY <1>1, <1>2, CountsAreNats, DrawingIsFinite DEF IInv, IdsLeft

(* A registration at work is before its row or has one.                    *)
LEMMA AtWork ==
  ASSUME NEW q \in Requests, KindFits(q), q.kind \in Registering
  PROVE  q.pc \in BeforeRow \cup AfterRow
  BY DEF Requests, Pcs, KindFits, SearchPcs, Registering, VehiclePcs

(* No row is left behind by a registration that stays, takes its row away  *)
(* or was answered.                                                        *)
LEMMA NoStrayStands ==
  ASSUME IInv, NEW h \in Handlers, NEW q \in Requests, req' = [req EXCEPT ![h] = q],
         answered \subseteq answered', faults' \in Nat, faults <= faults',
         \A i \in Ids : Exists(i)' => Exists(i) /\ owner'[i] = owner[i],
         \A i \in Ids :
           faults' = 0 /\ req[h].kind \in Registering /\ req[h].id = i /\ Exists(i)' =>
             (q.kind = req[h].kind /\ q.id = i) \/ \E a \in answered' : a.id = i
  PROVE  NoStrayDrivers'
<1> SUFFICES ASSUME faults' = 0, NEW i \in Ids, Exists(i)'
             PROVE  \/ owner'[i] \in Veterans
                    \/ \E a \in answered' : a.id = i
                    \/ \E kind \in Registering : Serving(kind, i)'
  BY DEF NoStrayDrivers
<1>1. \A g \in Handlers : req'[g] = IF g = h THEN q ELSE req[g]
  BY BecomesQ
<1>2. \/ owner[i] \in Veterans
      \/ \E a \in answered : a.id = i
      \/ \E kind \in Registering : Serving(kind, i)
  BY DEF IInv, Rows, NoStrayDrivers, Types
<1>3. ASSUME NEW g \in Handlers, req[g].kind \in Registering, req[g].id = i
      PROVE  (\E a \in answered' : a.id = i) \/ \E kind \in Registering : Serving(kind, i)'
  <2>1. CASE g # h
    BY <1>1, <1>3, <2>1 DEF Serving
  <2>2. CASE g = h
    BY <1>1, <1>3, <2>2 DEF Serving
  <2> QED BY <2>1, <2>2
<1> QED BY <1>2, <1>3 DEF Serving

(* A request reads, fails or ends, and no table changes.                   *)
LEMMA MoveInv ==
  ASSUME IInv, NEW h \in Handlers, NEW q \in Requests, req' = [req EXCEPT ![h] = q],
         UNCHANGED <<db, started, hist>>, faults' \in Nat, faults <= faults',
         Fits(q)',
         q.kind \in {req[h].kind, "none"},
         q.kind \in Registering \cup {"online"} => q.id = req[h].id,
         q.banned \subseteq req[h].banned,
         q.pc \in BeforeRow => req[h].pc \in BeforeRow,
         faults' = 0 /\ req[h].kind \in Registering /\ req[h].id # 0 => q.kind = req[h].kind
  PROVE  IInv'
<1>1. UNCHANGED <<accounts, owner, nextId, vehicle, status, indexed, started, answered, away,
                  unlocated>>
  BY DEF db, hist
<1>2. /\ \A g \in Handlers : req'[g] = IF g = h THEN q ELSE req[g]
      /\ req' \in [Handlers -> Requests]
  BY BecomesQ
<1>3. Types'
  BY <1>1, <1>2 DEF IInv, Types
<1>4. ASSUME NEW g \in Handlers, g # h PROVE Fits(req[g])'
  <2>1. req[g] \in Requests /\ Fits(req[g]) /\ nextId \in Nat /\ faults \in Nat
    BY DEF IInv, Types
  <2>2. Fits(req[g]) => \A a \in answered : req[g].kind \in Registering /\ req[g].pc \in AfterRow
                          => a.id # req[g].id /\ Exists(req[g].id)
    BY DEF Fits, RegistrationFits
  <2>3. req[g].kind = "locate" => req[g].id \notin unlocated
    BY <2>1 DEF Fits, PresenceFits
  <2> DEFINE r == req[g]
  <2>4. r \in Requests /\ Fits(r) /\ req'[g] = r
    BY <1>2, <1>4, <2>1
  <2> QED BY <1>1, <1>2, <1>4, <2>1 DEF Fits, KindFits, RegistrationFits, PresenceFits, Exists
<1>5. \A g \in Handlers : Fits(req[g])'
  BY <1>2, <1>4
<1>6. Rows'
  <2>1. NoStrayDrivers'
    <3>1. \A i \in Ids : i # 0
      BY DEF Ids
    <3> QED BY <1>1, <3>1, NoStrayStands DEF Exists, Registering
  <2>2. \A i \in Ids : Exists(i)' => i < nextId' /\ owner'[i] \in accounts'
    BY <1>1 DEF IInv, Rows, Exists
  <2>3. AnsweredIsWhole' /\ OfflineLeavesIndex'
    BY <1>1 DEF IInv, Rows, AnsweredIsWhole, OfflineLeavesIndex, Exists
  <2>4. \A i \in away' : status'[i] # "online"
    BY <1>1 DEF IInv, Rows
  <2> QED BY <2>1, <2>2, <2>3, <2>4 DEF Rows
<1>7. IdsLeft'
  BY <1>1, IdsStand
<1>8. \A g, k \in Handlers : (g # k => OwnRow(g, k)') /\ StaysOff(g, k)'
  <2>1. /\ q.kind \in Registering => req[h].kind \in Registering /\ q.id = req[h].id
        /\ q.kind = "online" => req[h].kind = "online" /\ q.id = req[h].id
    BY DEF Registering
  <2>2. q.banned \subseteq req[h].banned \cup away /\ away' \subseteq away \cup req[h].banned
    BY <1>1
  <2> QED BY <2>1, <2>2, PairsStand
<1> QED BY <1>3, <1>5, <1>6, <1>7, <1>8 DEF IInv

LEMMA ReqFacts ==
  ASSUME IInv, NEW h \in Handlers
  PROVE  req[h] \in Requests /\ Fits(req[h]) /\ faults \in Nat
  BY DEF IInv, Types

LEMMA EndInv ==
  ASSUME IInv, NEW h \in Handlers, Finish(h), UNCHANGED <<db, started, hist>>,
         faults' \in Nat, faults <= faults',
         faults' = 0 => req[h].kind \notin Registering \/ req[h].id = 0
  PROVE  IInv'
<1>1. req' = [req EXCEPT ![h] = Idle]
  BY DEF Finish
<1>2. Fits(Idle)'
  BY DEF Idle, Fits, KindFits, RegistrationFits, PresenceFits, BeforeRow, AfterRow, VehiclePcs,
     SearchPcs, Registering, NeedsId
<1>3. Idle \in Requests
  BY IdleFits
<1>4. Idle.kind = "none" /\ Idle.banned = {} /\ Idle.pc \notin BeforeRow
  BY DEF Idle, BeforeRow
<1>5. "none" \notin Registering \cup {"online"}
  BY DEF Registering
<1> QED BY <1>1, <1>2, <1>3, <1>4, <1>5, MoveInv

LEMMA GotoInv ==
  ASSUME IInv, NEW h \in Handlers, NEW pc \in Pcs, Goto(h, pc),
         UNCHANGED <<db, started, hist>>, faults' \in Nat, faults <= faults',
         pc # "removeIndex",
         \A q \in Requests : q = [req[h] EXCEPT !.pc = pc] => KindFits(q),
         pc \in {"findDriver", "createDriver"} => req[h].user \in accounts,
         pc \in BeforeRow => req[h].pc \in BeforeRow,
         pc \in AfterRow => req[h].kind \notin Registering \/ req[h].pc \in AfterRow,
         pc \in VehiclePcs => req[h].plate # NoPlate,
         pc \in {"setOffline", "answer"} /\ req[h].plate # NoPlate => vehicle[req[h].id] # NoPlate
  PROVE  IInv'
<1>1. req[h] \in Requests /\ Fits(req[h]) /\ faults \in Nat
  BY ReqFacts
<1>2. PICK q \in Requests : q = [req[h] EXCEPT !.pc = pc]
  BY <1>1 DEF Requests
<1>3. /\ q.pc = pc /\ q.kind = req[h].kind /\ q.user = req[h].user /\ q.id = req[h].id
      /\ q.plate = req[h].plate /\ q.lost = req[h].lost /\ q.banned = req[h].banned
      /\ q.found = req[h].found
  BY <1>1, <1>2 DEF Requests
<1>4. req' = [req EXCEPT ![h] = q]
  BY <1>2 DEF Goto, IInv, Types
<1>5. KindFits(q)'
  BY <1>2 DEF KindFits
<1>6. UNCHANGED <<accounts, nextId, owner, vehicle, status, answered, unlocated>>
  BY DEF db, hist
<1>7. RegistrationFits(q)'
  BY <1>1, <1>3, <1>6 DEF Fits, RegistrationFits, Exists
<1>8. PresenceFits(q)'
  BY <1>1, <1>3, <1>6 DEF Fits, PresenceFits
<1>9. Fits(q)'
  BY <1>5, <1>7, <1>8 DEF Fits
<1> QED BY <1>3, <1>4, <1>9, MoveInv

-----------------------------------------------------------------------------
(* One lemma per action that leaves the tables alone.                      *)

LEMMA CheckEmailInv == ASSUME IInv, NEW h \in Handlers, CheckEmail(h) PROVE IInv'
<1>1. /\ req[h] \in Requests /\ Fits(req[h]) /\ faults \in Nat /\ req[h].pc = "checkEmail"
      /\ UNCHANGED <<db, started, faults, hist>>
  BY ReqFacts DEF CheckEmail, At
<1>2. req[h].kind = "signup" /\ req[h].id = 0
  BY <1>1 DEF Fits, KindFits, RegistrationFits, BeforeRow, Registering
<1>3. CASE Finish(h)
  BY <1>1, <1>2, <1>3, EndInv
<1>4. CASE Goto(h, "createUser")
  <2>1. \A q \in Requests : q = [req[h] EXCEPT !.pc = "createUser"] => KindFits(q)
    BY <1>1, <1>2 DEF KindFits, Requests, BeforeRow, VehiclePcs, SearchPcs, Registering, NeedsId
  <2> QED BY <1>1, <1>4, <2>1, GotoInv DEF Pcs, BeforeRow, AfterRow, VehiclePcs
<1> QED BY <1>3, <1>4 DEF CheckEmail

LEMMA FindDriverInv == ASSUME IInv, NEW h \in Handlers, FindDriver(h) PROVE IInv'
<1>1. /\ req[h] \in Requests /\ Fits(req[h]) /\ faults \in Nat /\ req[h].pc = "findDriver"
      /\ UNCHANGED <<db, started, faults, hist>>
  BY ReqFacts DEF FindDriver, At
<1>2. req[h].kind \in Registering /\ req[h].id = 0 /\ req[h].user \in accounts
  BY <1>1 DEF Fits, KindFits, RegistrationFits, BeforeRow
<1>3. CASE Finish(h)
  BY <1>1, <1>2, <1>3, EndInv
<1>4. CASE Goto(h, "createDriver")
  <2>1. \A q \in Requests : q = [req[h] EXCEPT !.pc = "createDriver"] => KindFits(q)
    BY <1>1, <1>2 DEF KindFits, Requests, BeforeRow, VehiclePcs, SearchPcs, Registering, NeedsId
  <2> QED BY <1>1, <1>2, <1>4, <2>1, GotoInv DEF Pcs, BeforeRow, AfterRow, VehiclePcs
<1> QED BY <1>3, <1>4 DEF FindDriver

LEMMA LookVehicleInv == ASSUME IInv, NEW h \in Handlers, LookVehicle(h) PROVE IInv'
<1>1. /\ req[h] \in Requests /\ Fits(req[h]) /\ faults \in Nat /\ req[h].pc = "lookVehicle"
      /\ UNCHANGED <<db, started, faults, hist>>
  BY ReqFacts DEF LookVehicle, At
<1>2. PICK pc \in {"insertVehicle", "updateVehicle"} : Goto(h, pc)
  BY DEF LookVehicle
<1>3. req[h].plate # NoPlate /\ req[h].kind \in Registering \cup {"update"} /\ req[h].id \in Ids
  BY <1>1 DEF Fits, KindFits, RegistrationFits, VehiclePcs, NeedsId
<1>4. \A q \in Requests : q = [req[h] EXCEPT !.pc = pc] => KindFits(q)
  BY <1>1, <1>3 DEF KindFits, Requests, BeforeRow, VehiclePcs, SearchPcs, Registering, NeedsId
<1> QED BY <1>1, <1>2, <1>3, <1>4, GotoInv DEF Pcs, BeforeRow, AfterRow, VehiclePcs

LEMMA UpdateDriverInv == ASSUME IInv, NEW h \in Handlers, UpdateDriver(h) PROVE IInv'
<1>1. /\ req[h] \in Requests /\ Fits(req[h]) /\ faults \in Nat /\ req[h].pc = "updateDriver"
      /\ UNCHANGED <<db, started, faults, hist>>
  BY ReqFacts DEF UpdateDriver, At
<1>2. req[h].kind = "update" /\ req[h].id \in Ids
  BY <1>1 DEF Fits, KindFits, NeedsId
<1>3. CASE Finish(h)
  BY <1>1, <1>2, <1>3, EndInv DEF Registering
<1>4. CASE Goto(h, "lookVehicle") /\ req[h].plate # NoPlate
  <2>1. \A q \in Requests : q = [req[h] EXCEPT !.pc = "lookVehicle"] => KindFits(q)
    BY <1>1, <1>2 DEF KindFits, Requests, BeforeRow, VehiclePcs, SearchPcs, Registering, NeedsId
  <2> QED BY <1>1, <1>2, <1>4, <2>1, GotoInv DEF Pcs, BeforeRow, AfterRow, VehiclePcs, Registering
<1> QED BY <1>3, <1>4 DEF UpdateDriver

LEMMA FindByIdInv == ASSUME IInv, NEW h \in Handlers, FindById(h) PROVE IInv'
<1>1. /\ req[h] \in Requests /\ Fits(req[h]) /\ faults \in Nat /\ req[h].pc = "findById"
      /\ UNCHANGED <<db, started, faults, hist>>
  BY ReqFacts DEF FindById, At
<1>2. req[h].kind \in {"online", "offline"} /\ req[h].id \in Ids
  BY <1>1 DEF Fits, KindFits, NeedsId
<1>3. CASE Finish(h)
  BY <1>1, <1>2, <1>3, EndInv DEF Registering
<1>4. CASE Goto(h, "setAvailability")
  <2>1. \A q \in Requests : q = [req[h] EXCEPT !.pc = "setAvailability"] => KindFits(q)
    BY <1>1, <1>2 DEF KindFits, Requests, BeforeRow, VehiclePcs, SearchPcs, Registering, NeedsId
  <2> QED BY <1>1, <1>2, <1>4, <2>1, GotoInv DEF Pcs, BeforeRow, AfterRow, VehiclePcs
<1> QED BY <1>3, <1>4 DEF FindById

LEMMA InsertLocationInv == ASSUME IInv, NEW h \in Handlers, InsertLocation(h) PROVE IInv'
<1>1. /\ req[h] \in Requests /\ Fits(req[h]) /\ faults \in Nat /\ req[h].pc = "insertLocation"
      /\ UNCHANGED <<db, started, faults, hist>>
  BY ReqFacts DEF InsertLocation, At
<1>2. req[h].kind = "locate" /\ req[h].id \in Ids
  BY <1>1 DEF Fits, KindFits, NeedsId
<1>3. CASE Finish(h)
  BY <1>1, <1>2, <1>3, EndInv DEF Registering
<1>4. CASE Goto(h, "upsert")
  <2>1. \A q \in Requests : q = [req[h] EXCEPT !.pc = "upsert"] => KindFits(q)
    BY <1>1, <1>2 DEF KindFits, Requests, BeforeRow, VehiclePcs, SearchPcs, Registering, NeedsId
  <2> QED BY <1>1, <1>2, <1>4, <2>1, GotoInv DEF Pcs, BeforeRow, AfterRow, VehiclePcs
<1> QED BY <1>3, <1>4 DEF InsertLocation

(* A search goes on.                                                       *)
LEMMA SearchInv ==
  ASSUME IInv, NEW h \in Handlers, req[h].kind = "search", NEW pc \in {"profile", "judge"},
         NEW id \in Ids \cup {0}, pc = "judge" => id \in Ids, NEW todo \in SUBSET Ids,
         NEW found \in SUBSET Ids,
         \A i \in found : i \in req[h].found \/ status[i] = "online",
         \E q \in Requests :
           /\ q = [req[h] EXCEPT !.pc = pc, !.id = id, !.todo = todo, !.found = found]
           /\ req' = [req EXCEPT ![h] = q],
         UNCHANGED <<db, started, faults, hist>>
  PROVE  IInv'
<1>1. req[h] \in Requests /\ Fits(req[h]) /\ faults \in Nat
  BY ReqFacts
<1>2. PICK q \in Requests :
        /\ q = [req[h] EXCEPT !.pc = pc, !.id = id, !.todo = todo, !.found = found]
        /\ req' = [req EXCEPT ![h] = q]
  OBVIOUS
<1>3. /\ q.pc = pc /\ q.kind = "search" /\ q.id = id /\ q.found = found
      /\ q.banned = req[h].banned /\ q.lost = req[h].lost
  BY <1>1, <1>2 DEF Requests
<1>4. KindFits(q)'
  BY <1>3 DEF KindFits, BeforeRow, VehiclePcs, SearchPcs, Registering, NeedsId
<1>5. RegistrationFits(q)'
  BY <1>1, <1>3 DEF Fits, RegistrationFits, BeforeRow, AfterRow, VehiclePcs, Registering
<1>6. UNCHANGED status
  BY DEF db
<1>7. PresenceFits(q)'
  BY <1>1, <1>3, <1>6 DEF Fits, PresenceFits
<1>8. Fits(q)'
  BY <1>4, <1>5, <1>7 DEF Fits
<1>9. "search" \notin Registering \cup {"online"} /\ pc \notin BeforeRow
  BY DEF Registering, BeforeRow
<1>10. req' = [req EXCEPT ![h] = q] /\ q \in Requests
  BY <1>2
<1>11. q.kind \in {req[h].kind, "none"} /\ req[h].kind \notin Registering
  BY <1>3, <1>9
<1>12. UNCHANGED <<db, started, hist>> /\ faults' \in Nat /\ faults <= faults'
  BY <1>1
<1>13. /\ q.kind \in Registering \cup {"online"} => q.id = req[h].id
       /\ q.banned \subseteq req[h].banned
       /\ q.pc \in BeforeRow => req[h].pc \in BeforeRow
  BY <1>3, <1>9
<1> QED BY <1>8, <1>10, <1>11, <1>12, <1>13, MoveInv

LEMMA NearbyInv == ASSUME IInv, NEW h \in Handlers, Nearby(h) PROVE IInv'
<1>1. /\ req[h] \in Requests /\ Fits(req[h]) /\ req[h].pc = "nearby"
      /\ UNCHANGED <<db, started, faults, hist>>
  BY ReqFacts DEF Nearby, At
<1>2. req[h].kind = "search"
  BY <1>1 DEF Fits, KindFits, SearchPcs
<1>3. PICK near \in SUBSET indexed : req' = [req EXCEPT ![h].todo = near, ![h].pc = "profile"]
  BY DEF Nearby
<1>4. near \in SUBSET Ids /\ req[h].found \in SUBSET Ids /\ req[h].id \in Ids \cup {0}
  BY <1>1 DEF IInv, Types, Requests
<1>5. PICK q : q = [req[h] EXCEPT !.pc = "profile", !.id = req[h].id, !.todo = near,
                                  !.found = req[h].found]
  OBVIOUS
<1>6. q \in Requests
  BY <1>1, <1>4, <1>5 DEF Requests, Pcs, SearchPcs
<1>7. req' = [req EXCEPT ![h] = q]
  BY <1>1, <1>3, <1>5 DEF IInv, Types, Requests
<1> QED BY <1>1, <1>2, <1>4, <1>5, <1>6, <1>7, SearchInv

LEMMA LoadProfileInv == ASSUME IInv, NEW h \in Handlers, LoadProfile(h) PROVE IInv'
<1>1. /\ req[h] \in Requests /\ Fits(req[h]) /\ req[h].pc = "profile" /\ faults \in Nat
      /\ UNCHANGED <<db, started, faults, hist>>
  BY ReqFacts DEF LoadProfile, At
<1>2. req[h].kind = "search"
  BY <1>1 DEF Fits, KindFits, SearchPcs
<1>3. CASE Finish(h)
  BY <1>1, <1>2, <1>3, EndInv DEF Registering
<1>4. ASSUME NEW i \in req[h].todo, NEW pc \in {"profile", "judge"},
             req' = [req EXCEPT ![h].id = i, ![h].todo = @ \ {i}, ![h].pc = pc]
      PROVE  IInv'
  <2>1. i \in Ids /\ req[h].todo \ {i} \in SUBSET Ids /\ req[h].found \in SUBSET Ids
    BY <1>1 DEF Requests
  <2>2. PICK q : q = [req[h] EXCEPT !.pc = pc, !.id = i, !.todo = req[h].todo \ {i},
                                    !.found = req[h].found]
    OBVIOUS
  <2>3. q \in Requests
    BY <1>1, <2>1, <2>2 DEF Requests, Pcs, SearchPcs
  <2>4. req' = [req EXCEPT ![h] = q]
    BY <1>1, <1>4, <2>2 DEF IInv, Types, Requests
  <2> QED BY <1>1, <1>2, <2>1, <2>2, <2>3, <2>4, SearchInv
<1> QED BY <1>3, <1>4 DEF LoadProfile

LEMMA JudgeInv == ASSUME IInv, NEW h \in Handlers, Judge(h) PROVE IInv'
<1>1. /\ req[h] \in Requests /\ Fits(req[h]) /\ req[h].pc = "judge"
      /\ UNCHANGED <<db, started, faults, hist>>
  BY ReqFacts DEF Judge, At
<1>2. req[h].kind = "search" /\ req[h].id \in Ids
  BY <1>1 DEF Fits, KindFits, SearchPcs, NeedsId
<1> DEFINE found == IF status[req[h].id] = "online" THEN req[h].found \cup {req[h].id}
                    ELSE req[h].found
<1>3. found \in SUBSET Ids /\ req[h].todo \in SUBSET Ids
        /\ \A i \in found : i \in req[h].found \/ status[i] = "online"
  BY <1>1, <1>2 DEF Requests
<1>4. req' = [req EXCEPT ![h].pc = "profile", ![h].found = found]
  BY DEF Judge, IsOnline
<1> HIDE DEF found
<1>5. PICK q : q = [req[h] EXCEPT !.pc = "profile", !.id = req[h].id, !.todo = req[h].todo,
                                  !.found = found]
  OBVIOUS
<1>6. q \in Requests
  BY <1>1, <1>2, <1>3, <1>5 DEF Requests, Pcs, SearchPcs
<1>7. req' = [req EXCEPT ![h] = q]
  BY <1>1, <1>4, <1>5 DEF IInv, Types, Requests
<1> QED BY <1>1, <1>2, <1>3, <1>5, <1>6, <1>7, SearchInv

-----------------------------------------------------------------------------
(* A step that changes tables: what it owes, beside its own conjuncts.     *)

LEMMA StepInv ==
  ASSUME IInv, NEW h \in Handlers, NEW q \in Requests, req' = [req EXCEPT ![h] = q],
         Types', Rows', IdsLeft', Fits(q)',
         accounts \subseteq accounts', nextId <= nextId', faults' = faults,
         \A g \in Handlers \ {h}, i \in Ids :
           req[g].kind \in Registering /\ req[g].id = i /\ Exists(i) =>
             Exists(i)' /\ (vehicle[i] # NoPlate => vehicle'[i] # NoPlate),
         \A a \in answered' \ answered : req[h].kind \in Registering /\ a.id = req[h].id,
         \A i \in Ids : status'[i] = "online" =>
           status[i] = "online" \/ \A g \in Handlers : i \notin req[g].banned,
         \A i \in unlocated' \ unlocated : ~Serving("locate", i),
         q.kind \in Registering =>
           \/ q.id = 0
           \/ req[h].kind \in Registering /\ q.id = req[h].id
           \/ \A g \in Handlers : req[g].kind \in Registering => req[g].id # q.id,
         q.kind = "online" => q.id = 0 \/ (req[h].kind = "online" /\ q.id = req[h].id),
         \A i \in q.banned : i \in req[h].banned \cup away \/ ~Serving("online", i),
         away' \subseteq away \cup req[h].banned
  PROVE  IInv'
<1>1. \A g \in Handlers : req'[g] = IF g = h THEN q ELSE req[g]
  BY BecomesQ
<1>2. ASSUME NEW g \in Handlers, g # h, NEW r \in Requests, r = req[g] PROVE Fits(r)'
  <2>1. Fits(r) /\ nextId \in Nat /\ nextId' \in Nat /\ faults \in Nat
    BY <1>2 DEF IInv, Types
  <2>2. ASSUME r.kind \in Registering, r.pc \in AfterRow
        PROVE  /\ Exists(r.id)' /\ (vehicle[r.id] # NoPlate => vehicle'[r.id] # NoPlate)
               /\ \A a \in answered' : a.id # r.id
    <3>1. r.id \in Ids /\ Exists(r.id) /\ \A a \in answered : a.id # r.id
      BY <2>1, <2>2 DEF Fits, RegistrationFits, Exists
    <3>2. req[h].kind \in Registering => req[h].id # r.id
      BY <1>2, <2>2, <3>1 DEF IInv, OwnRow, Ids
    <3> QED BY <1>2, <2>2, <3>1, <3>2
  <2>3. \A i \in r.banned : status'[i] = "online" => status[i] = "online"
    BY <1>2 DEF Requests
  <2>4. r.kind = "locate" => r.id \notin unlocated'
    BY <1>2, <2>1 DEF Fits, PresenceFits, Serving
  <2> QED BY <2>1, <2>2, <2>3, <2>4, FitsStands
<1>3. \A g \in Handlers : Fits(req[g])'
  BY <1>1, <1>2 DEF IInv, Types
<1>4. \A g, k \in Handlers : (g # k => OwnRow(g, k)') /\ StaysOff(g, k)'
  BY PairsStand
<1> QED BY <1>3, <1>4 DEF IInv

LEMMA VehicleFailsInv ==
  ASSUME IInv, NEW h \in Handlers, req[h].pc \in VehiclePcs, VehicleFails(h),
         UNCHANGED <<db, started, hist>>, faults' \in Nat, faults <= faults'
  PROVE  IInv'
<1>1. req[h] \in Requests /\ Fits(req[h]) /\ faults \in Nat
  BY ReqFacts
<1>2. /\ req[h].plate # NoPlate /\ req[h].kind \in Registering \cup {"update"}
      /\ req[h].id \in Ids /\ req[h].pc \in AfterRow
  BY <1>1 DEF Fits, KindFits, RegistrationFits, VehiclePcs, NeedsId, AfterRow
<1>3. CASE req[h].kind \in Registering
  <2>1. \A q \in Requests : q = [req[h] EXCEPT !.pc = "rollback"] => KindFits(q)
    BY <1>1, <1>2, <1>3 DEF KindFits, Requests, BeforeRow, VehiclePcs, SearchPcs, Registering,
       NeedsId
  <2>2. Goto(h, "rollback") /\ "rollback" \in Pcs
    BY <1>3 DEF VehicleFails, Pcs, AfterRow
  <2>3. "rollback" \notin BeforeRow \cup VehiclePcs
    BY DEF BeforeRow, VehiclePcs
  <2> QED BY <1>2, <2>1, <2>2, <2>3, GotoInv
<1>4. CASE req[h].kind \notin Registering
  BY <1>4, EndInv DEF VehicleFails
<1> QED BY <1>3, <1>4

LEMMA FailInv == ASSUME IInv, NEW h \in Handlers, Fail(h) PROVE IInv'
<1>1. req[h] \in Requests /\ Fits(req[h]) /\ faults \in Nat
  BY ReqFacts
<1>2. /\ UNCHANGED <<db, started, hist>> /\ faults' \in Nat /\ faults <= faults'
      /\ faults' # 0
  BY <1>1 DEF Fail, Fits, RegistrationFits
<1>3. CASE req[h].pc \in VehiclePcs
  <2>1. VehicleFails(h)
    BY <1>3 DEF Fail, VehiclePcs, At
  <2> QED BY <1>2, <1>3, <2>1, VehicleFailsInv
<1>4. CASE req[h].pc = "setOffline"
  <2>1. Goto(h, "answer")
    BY <1>4 DEF Fail, At
  <2>2. /\ req[h].kind \in Registering /\ req[h].id \in Ids /\ req[h].pc \in AfterRow
        /\ req[h].plate # NoPlate => vehicle[req[h].id] # NoPlate
    BY <1>1, <1>4 DEF Fits, KindFits, RegistrationFits, NeedsId, AfterRow
  <2>3. \A q \in Requests : q = [req[h] EXCEPT !.pc = "answer"] => KindFits(q)
    BY <1>1, <2>2 DEF KindFits, Requests, BeforeRow, VehiclePcs, SearchPcs, Registering, NeedsId
  <2>4. "answer" \in Pcs /\ "answer" \notin BeforeRow \cup VehiclePcs
    BY DEF Pcs, AfterRow, BeforeRow, VehiclePcs
  <2> QED BY <1>2, <2>1, <2>2, <2>3, <2>4, GotoInv
<1>5. CASE req[h].pc \notin VehiclePcs \cup {"setOffline"}
  <2>1. Finish(h)
    BY <1>5 DEF Fail, VehiclePcs, At
  <2> QED BY <1>2, <2>1, EndInv
<1> QED BY <1>3, <1>4, <1>5

LEMMA LoseAnswerInv == ASSUME IInv, NEW h \in Handlers, LoseAnswer(h) PROVE IInv'
<1>1. req[h] \in Requests /\ Fits(req[h]) /\ faults \in Nat
  BY ReqFacts
<1>2. /\ UNCHANGED <<db, started, hist>> /\ faults' = faults + 1
      /\ req' = [req EXCEPT ![h].lost = TRUE]
  BY DEF LoseAnswer
<1>3. PICK q \in Requests : q = [req[h] EXCEPT !.lost = TRUE]
  BY <1>1 DEF Requests
<1>4. /\ q.pc = req[h].pc /\ q.kind = req[h].kind /\ q.user = req[h].user /\ q.id = req[h].id
      /\ q.plate = req[h].plate /\ q.lost = TRUE /\ q.banned = req[h].banned
      /\ q.found = req[h].found
  BY <1>1, <1>3 DEF Requests
<1>5. req' = [req EXCEPT ![h] = q]
  BY <1>2, <1>3 DEF IInv, Types
<1>6. UNCHANGED <<accounts, nextId, owner, vehicle, status, answered, unlocated>>
  BY <1>2 DEF db, hist
<1>7. KindFits(q)'
  BY <1>1, <1>4 DEF Fits, KindFits
<1>8. RegistrationFits(q)'
  BY <1>1, <1>2, <1>4, <1>6 DEF Fits, RegistrationFits, Exists
<1>9. PresenceFits(q)'
  BY <1>1, <1>4, <1>6 DEF Fits, PresenceFits
<1>10. Fits(q)'
  BY <1>7, <1>8, <1>9 DEF Fits
<1>11. faults' \in Nat /\ faults <= faults' /\ faults' # 0
  BY <1>1, <1>2
<1> QED BY <1>2, <1>4, <1>5, <1>10, <1>11, MoveInv

-----------------------------------------------------------------------------
(* The actions that change tables.                                         *)

LEMMA CreateUserInv == ASSUME IInv, NEW h \in Handlers, CreateUser(h) PROVE IInv'
<1>1. /\ req[h] \in Requests /\ Fits(req[h]) /\ faults \in Nat /\ req[h].pc = "createUser"
      /\ accounts' = accounts \cup {req[h].user}
      /\ UNCHANGED <<owner, nextId, vehicle, status, indexed, started, faults, hist>>
  BY ReqFacts DEF CreateUser, At
<1>2. /\ req[h].kind = "signup" /\ req[h].id = 0 /\ req[h].user \in Users
      /\ req[h].banned = {} /\ req[h].found = {}
  BY <1>1 DEF Fits, KindFits, RegistrationFits, PresenceFits, BeforeRow, Registering
<1>3. CASE req[h].user \in accounts
  <2>1. Finish(h) /\ UNCHANGED <<db, started, hist>>
    BY <1>1, <1>3 DEF CreateUser, db
  <2> QED BY <1>1, <1>2, <2>1, EndInv
<1>4. CASE req[h].user \notin accounts
  <2>1. PICK q \in Requests : q = [req[h] EXCEPT !.pc = "findDriver"]
    BY <1>1 DEF Requests, Pcs, BeforeRow
  <2>2. /\ q.pc = "findDriver" /\ q.kind = "signup" /\ q.user = req[h].user /\ q.id = 0
        /\ q.lost = req[h].lost /\ q.banned = {} /\ q.found = {}
    BY <1>1, <1>2, <2>1 DEF Requests
  <2>3. req' = [req EXCEPT ![h] = q]
    BY <1>4, <2>1 DEF CreateUser, Goto, IInv, Types
  <2>4. UNCHANGED <<answered, away, unlocated>>
    BY <1>1 DEF hist
  <2>5. Types'
    BY <1>1, <1>2, <2>3, <2>4, BecomesQ DEF IInv, Types
  <2>6. Rows'
    <3>1. NoStrayDrivers'
      <4>1. \A i \in Ids : i # 0 /\ (Exists(i)' => Exists(i) /\ owner'[i] = owner[i])
        BY <1>1 DEF Exists, Ids
      <4>2. answered \subseteq answered' /\ faults' \in Nat /\ faults <= faults'
        BY <1>1, <2>4
      <4> QED BY <1>2, <2>3, <4>1, <4>2, NoStrayStands
    <3>2. \A i \in Ids : Exists(i)' => i < nextId' /\ owner'[i] \in accounts'
      BY <1>1 DEF IInv, Rows, Exists
    <3>3. AnsweredIsWhole' /\ OfflineLeavesIndex' /\ \A i \in away' : status'[i] # "online"
      BY <1>1, <2>4 DEF IInv, Rows, AnsweredIsWhole, OfflineLeavesIndex, Exists
    <3> QED BY <3>1, <3>2, <3>3 DEF Rows
  <2>7. IdsLeft'
    BY <1>1, <2>2, <2>3, IdsStand DEF BeforeRow
  <2>8. Fits(q)'
    <3>1. KindFits(q)'
      BY <2>2 DEF KindFits, BeforeRow, AfterRow, VehiclePcs, SearchPcs, Registering, NeedsId
    <3>2. RegistrationFits(q)'
      BY <1>1, <1>2, <2>2 DEF Fits, RegistrationFits, BeforeRow, AfterRow, VehiclePcs
    <3>3. PresenceFits(q)'
      BY <2>2 DEF PresenceFits
    <3> QED BY <3>1, <3>2, <3>3 DEF Fits
  <2>9. nextId <= nextId' /\ \A i \in Ids : Exists(i) => Exists(i)'
    BY <1>1 DEF IInv, Types, Exists
  <2> QED BY <1>1, <2>2, <2>3, <2>4, <2>5, <2>6, <2>7, <2>8, <2>9, StepInv
<1> QED BY <1>3, <1>4

LEMMA SetOfflineInv == ASSUME IInv, NEW h \in Handlers, SetOffline(h) PROVE IInv'
<1> DEFINE i == req[h].id
<1>1. /\ req[h] \in Requests /\ Fits(req[h]) /\ faults \in Nat /\ req[h].pc = "setOffline"
      /\ status' = [status EXCEPT ![i] = "offline"]
      /\ UNCHANGED <<accounts, owner, nextId, vehicle, indexed, started, faults, hist>>
      /\ Goto(h, "answer")
  BY ReqFacts DEF SetOffline, At
<1>2. /\ req[h].kind \in Registering /\ i \in Ids /\ i < nextId /\ Exists(i)
      /\ \A a \in answered : a.id # i
      /\ req[h].plate # NoPlate => vehicle[i] # NoPlate
      /\ req[h].banned = {} /\ req[h].found = {}
  BY <1>1 DEF Fits, KindFits, RegistrationFits, PresenceFits, AfterRow, Registering, NeedsId
<1>3. PICK q \in Requests : q = [req[h] EXCEPT !.pc = "answer"]
  BY <1>1 DEF Requests, Pcs, AfterRow
<1>4. /\ q.pc = "answer" /\ q.kind = req[h].kind /\ q.user = req[h].user /\ q.id = i
      /\ q.plate = req[h].plate /\ q.lost = req[h].lost /\ q.banned = {} /\ q.found = {}
  BY <1>1, <1>2, <1>3 DEF Requests
<1>5. req' = [req EXCEPT ![h] = q]
  BY <1>1, <1>3 DEF Goto, IInv, Types
<1>6. UNCHANGED <<answered, away, unlocated>>
  BY <1>1 DEF hist
<1>7. \A j \in Ids : (Exists(j)' <=> Exists(j)) /\ (status'[j] = "online" => status[j] = "online")
  BY <1>1, <1>2 DEF Exists, IInv, Types
<1>8. Types'
  BY <1>1, <1>2, <1>5, <1>6, BecomesQ DEF IInv, Types
<1>9. Rows'
  <2>1. NoStrayDrivers'
    <3>1. \A j \in Ids : Exists(j)' => Exists(j) /\ owner'[j] = owner[j]
      BY <1>1, <1>7
    <3>2. answered \subseteq answered' /\ faults' \in Nat /\ faults <= faults'
      BY <1>1, <1>6
    <3> QED BY <1>4, <1>5, <3>1, <3>2, NoStrayStands
  <2>2. \A j \in Ids : Exists(j)' => j < nextId' /\ owner'[j] \in accounts'
    BY <1>1, <1>7 DEF IInv, Rows
  <2>3. AnsweredIsWhole' /\ OfflineLeavesIndex'
    BY <1>1, <1>6 DEF IInv, Rows, AnsweredIsWhole, OfflineLeavesIndex, Exists
  <2>4. \A j \in away' : status'[j] # "online"
    BY <1>6, <1>7 DEF IInv, Rows, Types
  <2> QED BY <2>1, <2>2, <2>3, <2>4 DEF Rows
<1>10. IdsLeft'
  BY <1>1, <1>4, <1>5, IdsStand DEF BeforeRow
<1>11. Fits(q)'
  <2>1. KindFits(q)'
    BY <1>2, <1>4 DEF KindFits, BeforeRow, VehiclePcs, SearchPcs, Registering, NeedsId
  <2>2. Exists(q.id)'
    BY <1>2, <1>4, <1>7
  <2>3. RegistrationFits(q)'
    BY <1>1, <1>2, <1>4, <1>6, <2>2 DEF Fits, RegistrationFits, BeforeRow, AfterRow, VehiclePcs,
       Exists
  <2>4. PresenceFits(q)'
    BY <1>2, <1>4 DEF PresenceFits, Registering
  <2> QED BY <2>1, <2>3, <2>4 DEF Fits
<1>12. nextId <= nextId' /\ q.kind # "online"
  BY <1>1, <1>2, <1>4 DEF IInv, Types, Registering
<1> QED BY <1>1, <1>2, <1>4, <1>5, <1>6, <1>7, <1>8, <1>9, <1>10, <1>11, <1>12, StepInv

LEMMA AnswerInv == ASSUME IInv, NEW h \in Handlers, Answer(h) PROVE IInv'
<1> DEFINE i == req[h].id
           a == [id |-> i, vehicle |-> req[h].plate # NoPlate]
<1>1. /\ req[h] \in Requests /\ Fits(req[h]) /\ faults \in Nat /\ req[h].pc = "answer"
      /\ Finish(h) /\ UNCHANGED <<db, started, faults, away, unlocated>>
  BY ReqFacts DEF Answer, At
<1>2. CASE req[h].lost
  <2>1. faults # 0 /\ UNCHANGED hist
    BY <1>1, <1>2 DEF Answer, Fits, RegistrationFits, hist
  <2> QED BY <1>1, <2>1, EndInv
<1>3. CASE ~req[h].lost
  <2>1. /\ req[h].kind \in Registering /\ i \in Ids /\ Exists(i)
        /\ req[h].plate # NoPlate => vehicle[i] # NoPlate
    BY <1>1 DEF Fits, KindFits, RegistrationFits, AfterRow, NeedsId
  <2>2. answered' = answered \cup {a} /\ a \in Answers /\ a.id = i
    BY <1>3, <2>1 DEF Answer, Answers
  <2>3. req' = [req EXCEPT ![h] = Idle] /\ Idle \in Requests
    BY <1>1, IdleFits DEF Finish
  <2>4. Idle.kind = "none" /\ Idle.pc = "idle" /\ Idle.banned = {}
    BY DEF Idle
  <2>5. UNCHANGED <<accounts, owner, nextId, vehicle, status, indexed>>
    BY <1>1 DEF db
  <2>6. Types'
    BY <1>1, <2>2, <2>3, <2>5, BecomesQ DEF IInv, Types
  <2>7. Rows'
    <3>1. NoStrayDrivers'
      <4>1. \A j \in Ids : Exists(j)' => Exists(j) /\ owner'[j] = owner[j]
        BY <2>5 DEF Exists
      <4>2. answered \subseteq answered' /\ faults' \in Nat /\ faults <= faults'
        BY <1>1, <2>2
      <4>3. \E b \in answered' : b.id = req[h].id
        BY <2>2
      <4> HIDE DEF i, a
      <4> QED BY <2>3, <4>1, <4>2, <4>3, NoStrayStands
    <3>2. AnsweredIsWhole'
      <4>1. \A b \in answered : Exists(b.id) /\ (b.vehicle => vehicle[b.id] # NoPlate)
        BY DEF IInv, Rows, AnsweredIsWhole
      <4>2. a.vehicle => vehicle[a.id] # NoPlate
        BY <2>1, <2>2
      <4>3. Exists(a.id)
        BY <2>1, <2>2
      <4> HIDE DEF a
      <4>4. \A b \in answered' : Exists(b.id) /\ (b.vehicle => vehicle[b.id] # NoPlate)
        BY <2>2, <4>1, <4>2, <4>3
      <4> QED BY <2>5, <4>4 DEF AnsweredIsWhole, Exists
    <3>3. /\ \A j \in Ids : Exists(j)' => j < nextId' /\ owner'[j] \in accounts'
          /\ OfflineLeavesIndex' /\ \A j \in away' : status'[j] # "online"
      BY <1>1, <2>5 DEF IInv, Rows, OfflineLeavesIndex, Exists
    <3> QED BY <3>1, <3>2, <3>3 DEF Rows
  <2>8. IdsLeft'
    BY <1>1, <2>3, <2>4, <2>5, IdsStand DEF BeforeRow
  <2>9. Fits(Idle)'
    BY <2>6 , IdleFits DEF Idle, Fits, KindFits, RegistrationFits, PresenceFits, BeforeRow,
       AfterRow, VehiclePcs, SearchPcs, Registering, NeedsId
  <2>10. nextId <= nextId' /\ \A j \in Ids : Exists(j) => Exists(j)'
    BY <2>5 DEF IInv, Types, Exists
  <2>11. Idle.kind \notin Registering
    BY <2>4 DEF Registering
  <2> HIDE DEF a
  <2> QED BY <1>1, <2>1, <2>2, <2>3, <2>4, <2>5, <2>6, <2>7, <2>8, <2>9, <2>10, <2>11, StepInv
<1> QED BY <1>2, <1>3

LEMMA RollbackInv == ASSUME IInv, NEW h \in Handlers, Rollback(h) PROVE IInv'
<1>1. PICK i \in Ids : i = req[h].id /\ req[h].kind \in Registering
                       /\ \A a \in answered : a.id # i
  BY ReqFacts DEF Rollback, At, Fits, KindFits, RegistrationFits, NeedsId, AfterRow
<1>2. /\ faults \in Nat
      /\ owner' = [owner EXCEPT ![i] = NoUser]
      /\ vehicle' = [vehicle EXCEPT ![i] = NoPlate]
      /\ status' = [status EXCEPT ![i] = "none"]
      /\ UNCHANGED <<accounts, nextId, indexed, started, faults, hist>>
      /\ Finish(h)
  BY <1>1, ReqFacts DEF Rollback
<1>3. req' = [req EXCEPT ![h] = Idle] /\ Idle \in Requests
  BY <1>2, IdleFits DEF Finish
<1>4. Idle.kind = "none" /\ Idle.pc = "idle" /\ Idle.banned = {}
  BY DEF Idle
<1>5. UNCHANGED <<answered, away, unlocated>>
  BY <1>2 DEF hist
<1>6. \A j \in Ids : /\ Exists(j)' <=> j # i /\ Exists(j)
                     /\ owner'[j] = IF j = i THEN NoUser ELSE owner[j]
                     /\ vehicle'[j] = IF j = i THEN NoPlate ELSE vehicle[j]
                     /\ status'[j] = "online" => status[j] = "online"
  BY <1>2 DEF Exists, IInv, Types
<1>7. Types'
  BY <1>2, <1>3, <1>5, BecomesQ DEF IInv, Types
<1>8. Rows'
  <2>1. NoStrayDrivers'
    <3>1. \A j \in Ids : Exists(j)' => Exists(j) /\ owner'[j] = owner[j]
      BY <1>6
    <3>2. answered \subseteq answered' /\ faults' \in Nat /\ faults <= faults'
      BY <1>2, <1>5
    <3> QED BY <1>1, <1>3, <1>6, <3>1, <3>2, NoStrayStands
  <2>2. \A j \in Ids : Exists(j)' => j < nextId' /\ owner'[j] \in accounts'
    BY <1>2, <1>6 DEF IInv, Rows
  <2>3. AnsweredIsWhole'
    <3>1. \A a \in answered : a.id \in Ids /\ a.id # i /\ Exists(a.id)
                              /\ (a.vehicle => vehicle[a.id] # NoPlate)
      BY <1>1 DEF IInv, Rows, AnsweredIsWhole, Exists
    <3>2. ASSUME NEW a \in answered
          PROVE  a.id \in Ids /\ owner'[a.id] # NoUser /\ (a.vehicle => vehicle'[a.id] # NoPlate)
      <4>1. a.id \in Ids /\ a.id # i /\ owner[a.id] # NoUser
        BY <3>1 DEF Exists
      <4>2. owner'[a.id] = owner[a.id] /\ vehicle'[a.id] = vehicle[a.id]
        BY <1>6, <4>1
      <4> QED BY <3>1, <4>1, <4>2
    <3> QED BY <1>5, <3>2 DEF AnsweredIsWhole, Exists
  <2>4. OfflineLeavesIndex' /\ \A j \in away' : status'[j] # "online"
    BY <1>2, <1>5, <1>6 DEF IInv, Rows, OfflineLeavesIndex, Types
  <2> QED BY <2>1, <2>2, <2>3, <2>4 DEF Rows
<1>9. IdsLeft'
  BY <1>2, <1>3, <1>4, IdsStand DEF BeforeRow
<1>10. Fits(Idle)'
  BY DEF Idle, Fits, KindFits, RegistrationFits, PresenceFits, BeforeRow, AfterRow, VehiclePcs,
     SearchPcs, Registering, NeedsId
<1>11. nextId <= nextId' /\ Idle.kind \notin Registering
  BY <1>2, <1>4 DEF IInv, Types, Registering
<1>12. \A g \in Handlers \ {h}, j \in Ids :
         req[g].kind \in Registering /\ req[g].id = j /\ Exists(j) =>
           Exists(j)' /\ (vehicle[j] # NoPlate => vehicle'[j] # NoPlate)
  <2> SUFFICES ASSUME NEW g \in Handlers, g # h, NEW j \in Ids, req[g].kind \in Registering,
                      req[g].id = j, Exists(j)
               PROVE  Exists(j)' /\ (vehicle[j] # NoPlate => vehicle'[j] # NoPlate)
    OBVIOUS
  <2>1. j # i
    BY <1>1 DEF IInv, OwnRow, Ids
  <2> QED BY <1>6, <2>1
<1> QED BY <1>2, <1>3, <1>4, <1>5, <1>6, <1>7, <1>8, <1>9, <1>10, <1>11, <1>12, StepInv

LEMMA SaveVehicleInv == ASSUME IInv, NEW h \in Handlers, SaveVehicle(h) PROVE IInv'
<1>1. PICK i \in Ids : i = req[h].id
  BY ReqFacts DEF SaveVehicle, Fits, KindFits, NeedsId
<1>2. /\ req[h] \in Requests /\ Fits(req[h]) /\ faults \in Nat /\ req[h].pc \in VehiclePcs
      /\ UNCHANGED <<accounts, owner, nextId, status, indexed, started, faults, hist>>
      /\ req[h].pc \in AfterRow
  BY ReqFacts DEF SaveVehicle, VehiclePcs, AfterRow
<1>3. /\ req[h].plate # NoPlate /\ req[h].plate \in Plates
      /\ req[h].kind \in Registering \cup {"update"}
      /\ req[h].kind \in Registering => i < nextId /\ Exists(i) /\ \A a \in answered : a.id # i
      /\ req[h].banned = {} /\ req[h].found = {}
  BY <1>1, <1>2 DEF Fits, KindFits, RegistrationFits, PresenceFits, Requests, Registering
<1>4. CASE VehicleFails(h) /\ UNCHANGED vehicle
  <2>1. UNCHANGED <<db, started, hist>> /\ faults' \in Nat /\ faults <= faults'
    BY <1>2, <1>4 DEF db
  <2> QED BY <1>2, <1>4, <2>1, VehicleFailsInv
<1>5. ASSUME vehicle' = [vehicle EXCEPT ![i] = req[h].plate],
             NEW q \in Requests, req' = [req EXCEPT ![h] = q],
             IF req[h].kind \in Registering THEN q = [req[h] EXCEPT !.pc = "setOffline"]
                                            ELSE q = Idle
      PROVE  IInv'
  <2>1. UNCHANGED <<answered, away, unlocated>>
    BY <1>2 DEF hist
  <2>2. \A j \in Ids : /\ Exists(j)' <=> Exists(j)
                       /\ vehicle'[j] = IF j = i THEN req[h].plate ELSE vehicle[j]
    BY <1>2, <1>5 DEF Exists, IInv, Types
  <2>3. /\ req[h].kind \in Registering =>
             /\ q.pc = "setOffline" /\ q.kind = req[h].kind /\ q.id = i
             /\ q.plate = req[h].plate /\ q.lost = req[h].lost
             /\ q.banned = {} /\ q.found = {}
        /\ req[h].kind \notin Registering => q = Idle /\ q.kind = "none" /\ q.pc = "idle"
                                             /\ q.banned = {}
    BY <1>1, <1>2, <1>3, <1>5 DEF Requests, Idle
  <2>4. Types'
    BY <1>2, <1>3, <1>5, <2>1, BecomesQ DEF IInv, Types
  <2>5. Rows'
    <3>1. NoStrayDrivers'
      <4>1. \A j \in Ids : Exists(j)' => Exists(j) /\ owner'[j] = owner[j]
        BY <1>2, <2>2
      <4>2. answered \subseteq answered' /\ faults' \in Nat /\ faults <= faults'
        BY <1>2, <2>1
      <4> QED BY <1>1, <1>5, <2>3, <4>1, <4>2, NoStrayStands
    <3>2. \A j \in Ids : Exists(j)' => j < nextId' /\ owner'[j] \in accounts'
      BY <1>2, <2>2 DEF IInv, Rows
    <3>3. AnsweredIsWhole'
      <4>1. ASSUME NEW a \in answered
            PROVE  a.id \in Ids /\ owner'[a.id] # NoUser /\ (a.vehicle => vehicle'[a.id] # NoPlate)
        <5>1. a.id \in Ids /\ owner[a.id] # NoUser /\ (a.vehicle => vehicle[a.id] # NoPlate)
          BY DEF IInv, Rows, AnsweredIsWhole, Exists
        <5>2. vehicle[a.id] # NoPlate => vehicle'[a.id] # NoPlate
          BY <1>3, <2>2, <5>1
        <5> QED BY <1>2, <5>1, <5>2
      <4> QED BY <2>1, <4>1 DEF AnsweredIsWhole, Exists
    <3>4. OfflineLeavesIndex' /\ \A j \in away' : status'[j] # "online"
      BY <1>2, <2>1 DEF IInv, Rows, OfflineLeavesIndex
    <3> QED BY <3>1, <3>2, <3>3, <3>4 DEF Rows
  <2>6. IdsLeft'
    BY <1>2, <1>5, <2>3, IdsStand DEF BeforeRow
  <2>7. Fits(q)'
    <3>1. CASE req[h].kind \in Registering
      <4>1. KindFits(q)'
        BY <2>3, <3>1 DEF KindFits, BeforeRow, VehiclePcs, SearchPcs, Registering, NeedsId
      <4>2. Exists(q.id)' /\ vehicle'[q.id] # NoPlate /\ q.id < nextId'
        BY <1>2, <1>3, <2>2, <2>3, <3>1
      <4>3. RegistrationFits(q)'
        BY <1>2, <1>3, <2>1, <2>3, <3>1, <4>2 DEF Fits, RegistrationFits, BeforeRow, AfterRow,
           VehiclePcs
      <4>4. PresenceFits(q)'
        BY <2>3, <3>1 DEF PresenceFits, Registering
      <4> QED BY <4>1, <4>3, <4>4 DEF Fits
    <3>2. CASE req[h].kind \notin Registering
      <4>1. Fits(Idle)'
        BY DEF Idle, Fits, KindFits, RegistrationFits, PresenceFits, BeforeRow, AfterRow,
           VehiclePcs, SearchPcs, Registering, NeedsId
      <4>2. q = Idle
        BY <2>3, <3>2
      <4> QED BY <1>5, <3>2, <4>1 DEF Idle, Fits, KindFits, RegistrationFits, PresenceFits,
               BeforeRow, AfterRow, VehiclePcs, SearchPcs, Registering, NeedsId
    <3> QED BY <3>1, <3>2
  <2>8. nextId <= nextId' /\ q.kind # "online" /\ q.banned = {}
    BY <1>2, <1>3, <2>3 DEF IInv, Types, Registering
  <2>9. q.kind \in Registering => req[h].kind \in Registering /\ q.id = req[h].id
    BY <1>1, <2>3 DEF Registering
  <2>10. \A j \in Ids : Exists(j) =>
                          Exists(j)' /\ (vehicle[j] # NoPlate => vehicle'[j] # NoPlate)
    BY <1>3, <2>2
  <2>11. /\ accounts \subseteq accounts' /\ faults' = faults /\ answered' \ answered = {}
         /\ \A j \in Ids : status'[j] = "online" => status[j] = "online"
         /\ unlocated' \ unlocated = {} /\ away' \subseteq away \cup req[h].banned
    BY <1>2, <2>1
  <2> QED BY <1>5, <2>4, <2>5, <2>6, <2>7, <2>8, <2>9, <2>10, <2>11, StepInv
<1>6. CASE /\ vehicle' = [vehicle EXCEPT ![i] = req[h].plate]
           /\ IF req[h].kind \in Registering THEN Goto(h, "setOffline") ELSE Finish(h)
  <2>1. CASE req[h].kind \in Registering
    <3>1. PICK q \in Requests : q = [req[h] EXCEPT !.pc = "setOffline"]
      BY <1>2 DEF Requests, Pcs, AfterRow
    <3>2. req' = [req EXCEPT ![h] = q]
      BY <1>6, <2>1, <3>1 DEF Goto, IInv, Types
    <3> QED BY <1>5, <1>6, <2>1, <3>1, <3>2
  <2>2. CASE req[h].kind \notin Registering
    BY <1>5, <1>6, <2>2, IdleFits DEF Finish
  <2> QED BY <2>1, <2>2
<1> QED BY <1>1, <1>4, <1>6 DEF SaveVehicle

LEMMA CreateDriverInv == ASSUME IInv, NEW h \in Handlers, CreateDriver(h) PROVE IInv'
<1>1. /\ req[h] \in Requests /\ Fits(req[h]) /\ faults \in Nat /\ req[h].pc = "createDriver"
      /\ UNCHANGED <<accounts, vehicle, status, indexed, started, faults, hist>>
  BY ReqFacts DEF CreateDriver, At
<1>2. /\ req[h].kind \in Registering /\ req[h].id = 0 /\ req[h].user \in accounts
      /\ req[h].user \in Users /\ req[h].banned = {} /\ req[h].found = {}
  BY <1>1 DEF Fits, KindFits, RegistrationFits, PresenceFits, BeforeRow, Registering
<1>3. CASE RowsOf(req[h].user) # {}
  <2>1. Finish(h) /\ UNCHANGED <<db, started, hist>>
    BY <1>1, <1>3 DEF CreateDriver, db
  <2> QED BY <1>1, <1>2, <2>1, EndInv
<1>4. CASE RowsOf(req[h].user) = {}
  <2> DEFINE pc == IF req[h].plate = NoPlate THEN "setOffline" ELSE "lookVehicle"
  <2>1. /\ owner' = [owner EXCEPT ![nextId] = req[h].user] /\ nextId' = nextId + 1
        /\ req' = [req EXCEPT ![h].id = nextId, ![h].pc = pc]
    BY <1>4 DEF CreateDriver
  <2>2. nextId \in Ids /\ nextId \in Nat /\ nextId' \in 1 .. Cardinality(Users) + MaxRequests + 1
    <3>1. h \in Drawing
      BY <1>1 DEF Drawing, BeforeRow
    <3>2. Cardinality(Drawing) # 0
      BY <3>1, DrawingIsFinite, FS_EmptySet
    <3> QED BY <2>1, <3>2, DrawingIsFinite, CountsAreNats, ConstantsOK DEF IInv, Types, IdsLeft, Ids
  <2>3. PICK i \in Ids : i = nextId
    BY <2>2
  <2>4. pc \in {"setOffline", "lookVehicle"} /\ pc \in Pcs
    BY DEF Pcs, AfterRow, VehiclePcs
  <2>5. PICK q : q = [req[h] EXCEPT !.id = i, !.pc = pc]
    OBVIOUS
  <2>6. /\ q \in Requests
        /\ q.pc = pc /\ q.kind = req[h].kind /\ q.user = req[h].user /\ q.id = i
        /\ q.plate = req[h].plate /\ q.lost = req[h].lost /\ q.banned = {} /\ q.found = {}
    BY <1>1, <1>2, <2>4, <2>5 DEF Requests
  <2>7. req' = [req EXCEPT ![h] = q]
    BY <1>1, <2>1, <2>3, <2>5 DEF IInv, Types, Requests
  <2>8. UNCHANGED <<answered, away, unlocated>>
    BY <1>1 DEF hist
  <2>9. req[h].user # NoUser
    BY <1>2, ConstantsOK
  <2>10. \A j \in Ids : /\ owner'[j] = IF j = i THEN req[h].user ELSE owner[j]
                        /\ Exists(j)' <=> j = i \/ Exists(j)
    BY <2>1, <2>3, <2>9 DEF Exists, IInv, Types
  <2>11. ~Exists(i) /\ \A a \in answered : a.id # i
    BY <2>3 DEF IInv, Rows, AnsweredIsWhole, Ids
  <2>12. Types'
    <3>1. owner' \in [Ids -> Users \cup {NoUser}]
      BY <1>2, <2>1 DEF IInv, Types
    <3>2. req' \in [Handlers -> Requests]
      BY <2>6, <2>7, BecomesQ
    <3> QED BY <1>1, <2>2, <2>8, <3>1, <3>2 DEF IInv, Types
  <2>13. \A g \in Handlers : req'[g] = IF g = h THEN q ELSE req[g]
    BY <2>6, <2>7, BecomesQ
  <2>14. Rows'
    <3>1. NoStrayDrivers'
      <4> SUFFICES ASSUME faults' = 0, NEW j \in Ids, Exists(j)'
                   PROVE  \/ owner'[j] \in Veterans
                          \/ \E a \in answered' : a.id = j
                          \/ \E kind \in Registering : Serving(kind, j)'
        BY DEF NoStrayDrivers
      <4>1. CASE j = i
        BY <1>2, <2>6, <2>13, <4>1 DEF Serving
      <4>2. CASE j # i
        <5>1. Exists(j) /\ owner'[j] = owner[j] /\ faults = 0
          BY <1>1, <2>10, <4>2
        <5>2. \/ owner[j] \in Veterans
              \/ \E a \in answered : a.id = j
              \/ \E kind \in Registering : Serving(kind, j)
          BY <5>1 DEF IInv, Rows, NoStrayDrivers
        <5>3. \A kind \in Registering : Serving(kind, j) => Serving(kind, j)'
          BY <1>2, <2>13 DEF Serving, Ids
        <5> QED BY <2>8, <5>1, <5>2, <5>3
      <4> QED BY <4>1, <4>2
    <3>2. \A j \in Ids : Exists(j)' => j < nextId' /\ owner'[j] \in accounts'
      BY <1>1, <1>2, <2>1, <2>2, <2>3, <2>10 DEF IInv, Rows, Ids
    <3>3. AnsweredIsWhole'
      BY <1>1, <2>8, <2>10 DEF IInv, Rows, AnsweredIsWhole, Exists
    <3>4. OfflineLeavesIndex' /\ \A j \in away' : status'[j] # "online"
      BY <1>1, <2>8 DEF IInv, Rows, OfflineLeavesIndex
    <3> QED BY <3>1, <3>2, <3>3, <3>4 DEF Rows
  <2>15. IdsLeft'
    <3>1. Cardinality(Drawing') = Cardinality(Drawing) - 1
      BY <1>1, <2>4, <2>6, <2>7, DrawingMoves DEF BeforeRow
    <3> QED BY <1>1, <2>1, <2>2, <3>1, DrawingIsFinite, CountsAreNats, ConstantsOK
            DEF IInv, Types, IdsLeft
  <2>16. Fits(q)'
    <3>1. KindFits(q)'
      BY <1>2, <2>4, <2>6 DEF KindFits, BeforeRow, VehiclePcs, SearchPcs, Registering, NeedsId
    <3>2. Exists(q.id)' /\ q.id < nextId' /\ \A a \in answered' : a.id # q.id
      BY <2>1, <2>2, <2>3, <2>6, <2>8, <2>10, <2>11
    <3>3. q.pc \notin BeforeRow /\ (q.pc \in VehiclePcs => q.plate # NoPlate)
          /\ ~(q.pc \in {"setOffline", "answer"} /\ q.plate # NoPlate)
      BY <2>6 DEF BeforeRow, VehiclePcs
    <3>4. RegistrationFits(q)'
      BY <1>1, <2>6, <3>2, <3>3 DEF Fits, RegistrationFits, BeforeRow
    <3>5. PresenceFits(q)'
      BY <1>2, <2>6 DEF PresenceFits, Registering
    <3> QED BY <3>1, <3>4, <3>5 DEF Fits
  <2>17. nextId <= nextId' /\ q.kind # "online"
    BY <1>2, <2>1, <2>2, <2>6 DEF Registering
  <2>18. \A g \in Handlers : req[g].kind \in Registering => req[g].id # q.id
    <3> SUFFICES ASSUME NEW g \in Handlers, req[g].kind \in Registering PROVE req[g].id # i
      BY <2>6
    <3>1. req[g] \in Requests /\ Fits(req[g])
      BY ReqFacts
    <3>2. req[g].pc \in BeforeRow \/ req[g].pc \in AfterRow
      BY <3>1, AtWork DEF Fits
    <3>3. req[g].id = 0 \/ Exists(req[g].id)
      BY <3>1, <3>2 DEF Fits, RegistrationFits
    <3> QED BY <2>11, <3>3 DEF Ids
  <2>19. \A j \in Ids : Exists(j) => Exists(j)'
    BY <2>10
  <2>20. /\ accounts \subseteq accounts' /\ faults' = faults /\ answered' \ answered = {}
         /\ \A j \in Ids : vehicle'[j] = vehicle[j] /\ status'[j] = status[j]
         /\ unlocated' \ unlocated = {} /\ away' \subseteq away \cup req[h].banned
    BY <1>1, <2>8
  <2> HIDE DEF pc
  <2> QED BY <2>6, <2>7, <2>12, <2>14, <2>15, <2>16, <2>17, <2>18, <2>19, <2>20, StepInv
<1> QED BY <1>3, <1>4

LEMMA SetAvailabilityInv == ASSUME IInv, NEW h \in Handlers, SetAvailability(h) PROVE IInv'
<1>1. PICK i \in Ids : i = req[h].id
  BY ReqFacts DEF SetAvailability, At, Fits, KindFits, NeedsId
<1>2. /\ req[h] \in Requests /\ Fits(req[h]) /\ faults \in Nat
      /\ req[h].pc = "setAvailability"
      /\ UNCHANGED <<accounts, owner, nextId, vehicle, indexed, started, faults, hist>>
  BY ReqFacts DEF SetAvailability, At
<1>3. /\ req[h].kind \in {"online", "offline"} /\ req[h].kind \notin Registering
      /\ req[h].found = {}
      /\ req[h].kind = "online" => req[h].banned = {}
      /\ req[h].kind = "offline" => req[h].banned \subseteq {i}
  BY <1>1, <1>2 DEF Fits, KindFits, PresenceFits, Registering
<1>4. CASE Finish(h) /\ UNCHANGED status
  <2>1. UNCHANGED <<db, started, hist>>
    BY <1>2, <1>4 DEF db
  <2> QED BY <1>2, <1>3, <1>4, <2>1, EndInv
<1>5. ASSUME status' = [status EXCEPT ![i] = req[h].kind],
             NEW q \in Requests, req' = [req EXCEPT ![h] = q],
             IF req[h].kind = "offline" THEN q = [req[h] EXCEPT !.pc = "removeIndex"]
                                        ELSE q = Idle
      PROVE  IInv'
  <2>1. UNCHANGED <<answered, away, unlocated>>
    BY <1>2 DEF hist
  <2>2. \A j \in Ids : status'[j] = IF j = i THEN req[h].kind ELSE status[j]
    BY <1>5 DEF IInv, Types
  <2>3. /\ req[h].kind = "offline" =>
             /\ q.pc = "removeIndex" /\ q.kind = "offline" /\ q.id = i
             /\ q.lost = req[h].lost /\ q.banned = req[h].banned /\ q.found = {}
        /\ req[h].kind = "online" => q = Idle /\ q.kind = "none" /\ q.pc = "idle"
                                     /\ q.banned = {}
    BY <1>1, <1>2, <1>3, <1>5 DEF Requests, Idle
  <2>4. req[h].kind = "online" => i \notin away /\ \A g \in Handlers : i \notin req[g].banned
    BY <1>1 DEF IInv, StaysOff
  <2>5. \A j \in Ids : Exists(j)' <=> Exists(j)
    BY <1>2 DEF Exists
  <2>6. Types'
    BY <1>2, <1>3, <1>5, <2>1, BecomesQ DEF IInv, Types
  <2>7. Rows'
    <3>1. NoStrayDrivers'
      <4>1. \A j \in Ids : Exists(j)' => Exists(j) /\ owner'[j] = owner[j]
        BY <1>2, <2>5
      <4>2. answered \subseteq answered' /\ faults' \in Nat /\ faults <= faults'
        BY <1>2, <2>1
      <4> QED BY <1>3, <1>5, <4>1, <4>2, NoStrayStands
    <3>2. \A j \in Ids : Exists(j)' => j < nextId' /\ owner'[j] \in accounts'
      BY <1>2, <2>5 DEF IInv, Rows
    <3>3. AnsweredIsWhole' /\ OfflineLeavesIndex'
      BY <1>2, <2>1 DEF IInv, Rows, AnsweredIsWhole, OfflineLeavesIndex, Exists
    <3>4. \A j \in away' : status'[j] # "online"
      BY <1>3, <2>1, <2>2, <2>4 DEF IInv, Rows, Types
    <3> QED BY <3>1, <3>2, <3>3, <3>4 DEF Rows
  <2>8. IdsLeft'
    BY <1>2, <1>3, <1>5, <2>3, IdsStand DEF BeforeRow
  <2>9. Fits(q)'
    <3>1. CASE req[h].kind = "offline"
      <4>1. KindFits(q)'
        BY <2>3, <3>1 DEF KindFits, BeforeRow, VehiclePcs, SearchPcs, Registering, NeedsId
      <4>2. RegistrationFits(q)'
        BY <1>2, <2>3, <3>1 DEF Fits, RegistrationFits, BeforeRow, VehiclePcs, Registering
      <4>3. PresenceFits(q)'
        BY <1>3, <2>2, <2>3, <3>1 DEF PresenceFits
      <4> QED BY <4>1, <4>2, <4>3 DEF Fits
    <3>2. CASE req[h].kind = "online"
      BY <1>5, <2>3, <3>2 DEF Idle, Fits, KindFits, RegistrationFits, PresenceFits, BeforeRow,
         AfterRow, VehiclePcs, SearchPcs, Registering, NeedsId
    <3> QED BY <1>3, <3>1, <3>2
  <2>10. nextId <= nextId' /\ q.kind # "online" /\ q.banned \subseteq req[h].banned
         /\ q.kind \notin Registering
    BY <1>2, <1>3, <2>3 DEF IInv, Types, Registering
  <2>11. \A j \in Ids : status'[j] = "online" =>
           status[j] = "online" \/ \A g \in Handlers : j \notin req[g].banned
    BY <1>3, <2>2, <2>4
  <2>12. /\ accounts \subseteq accounts' /\ faults' = faults /\ answered' \ answered = {}
         /\ vehicle' = vehicle
         /\ unlocated' \ unlocated = {} /\ away' \subseteq away \cup req[h].banned
    BY <1>2, <2>1
  <2> QED BY <1>5, <2>5, <2>6, <2>7, <2>8, <2>9, <2>10, <2>11, <2>12, StepInv
<1>6. CASE /\ status' = [status EXCEPT ![i] = req[h].kind]
           /\ IF req[h].kind = "offline" THEN Goto(h, "removeIndex") ELSE Finish(h)
  <2>1. CASE req[h].kind = "offline"
    <3>1. PICK q \in Requests : q = [req[h] EXCEPT !.pc = "removeIndex"]
      BY <1>2 DEF Requests, Pcs
    <3>2. req' = [req EXCEPT ![h] = q]
      BY <1>6, <2>1, <3>1 DEF Goto, IInv, Types
    <3> QED BY <1>5, <1>6, <2>1, <3>1, <3>2
  <2>2. CASE req[h].kind # "offline"
    BY <1>5, <1>6, <2>2, IdleFits DEF Finish
  <2> QED BY <2>1, <2>2
<1> QED BY <1>1, <1>4, <1>6 DEF SetAvailability

(* A request ends with a change to the index and to who is known to be     *)
(* offline.                                                                *)
LEMMA IndexInv ==
  ASSUME IInv, NEW h \in Handlers, req[h].kind \in {"offline", "locate"}, Finish(h),
         UNCHANGED <<accounts, owner, nextId, vehicle, status, started, faults, answered>>,
         indexed' \subseteq Ids, unlocated' \subseteq Ids, OfflineLeavesIndex',
         away' \subseteq away \cup req[h].banned,
         \A i \in away' : status[i] # "online",
         \A i \in unlocated' \ unlocated : ~Serving("locate", i)
  PROVE  IInv'
<1>1. req[h] \in Requests /\ Fits(req[h]) /\ faults \in Nat /\ req[h].kind \notin Registering
  BY ReqFacts DEF Registering
<1>2. req' = [req EXCEPT ![h] = Idle] /\ Idle \in Requests
  BY IdleFits DEF Finish
<1>3. Idle.kind = "none" /\ Idle.pc = "idle" /\ Idle.banned = {}
  BY DEF Idle
<1>4. Types'
  <2>1. away' \subseteq Ids
    BY <1>1 DEF IInv, Types, Requests
  <2> QED BY <1>2, <2>1, BecomesQ DEF IInv, Types
<1>5. Rows'
  <2>1. NoStrayDrivers'
    <3>1. \A i \in Ids : Exists(i)' => Exists(i) /\ owner'[i] = owner[i]
      BY DEF Exists
    <3>2. answered \subseteq answered' /\ faults' \in Nat /\ faults <= faults'
      BY <1>1
    <3> QED BY <1>1, <1>2, <3>1, <3>2, NoStrayStands
  <2>2. /\ \A i \in Ids : Exists(i)' => i < nextId' /\ owner'[i] \in accounts'
        /\ AnsweredIsWhole' /\ \A i \in away' : status'[i] # "online"
    BY DEF IInv, Rows, AnsweredIsWhole, Exists
  <2> QED BY <2>1, <2>2 DEF Rows
<1>6. IdsLeft'
  BY <1>2, <1>3, IdsStand DEF BeforeRow
<1>7. Fits(Idle)'
  BY DEF Idle, Fits, KindFits, RegistrationFits, PresenceFits, BeforeRow, AfterRow, VehiclePcs,
     SearchPcs, Registering, NeedsId
<1>8. \A i \in Ids : Exists(i)' <=> Exists(i)
  BY DEF Exists
<1>9. nextId <= nextId' /\ Idle.kind \notin Registering \cup {"online"}
  BY <1>3 DEF IInv, Types, Registering
<1> QED BY <1>2, <1>3, <1>4, <1>5, <1>6, <1>7, <1>8, <1>9, StepInv

LEMMA RemoveIndexInv == ASSUME IInv, NEW h \in Handlers, RemoveIndex(h) PROVE IInv'
<1>1. PICK i \in Ids : i = req[h].id
  BY ReqFacts DEF RemoveIndex, At, Fits, KindFits, NeedsId
<1>2. /\ req[h] \in Requests /\ Fits(req[h]) /\ req[h].pc = "removeIndex"
      /\ Finish(h) /\ indexed' = indexed \ {i} /\ away' = away \cup req[h].banned
      /\ unlocated' = IF Serving("locate", i) THEN unlocated ELSE unlocated \cup {i}
      /\ UNCHANGED <<accounts, owner, nextId, vehicle, status, started, faults, answered>>
  BY <1>1, ReqFacts DEF RemoveIndex, At, Settled
<1>3. req[h].kind = "offline" /\ \A j \in req[h].banned : status[j] # "online"
  BY <1>2 DEF Fits, KindFits, PresenceFits
<1>4. indexed' \subseteq Ids /\ unlocated' \subseteq Ids /\ OfflineLeavesIndex'
  BY <1>2 DEF IInv, Types, Rows, OfflineLeavesIndex
<1>5. \A j \in away' : status[j] # "online"
  BY <1>2, <1>3 DEF IInv, Rows
<1>6. \A j \in unlocated' \ unlocated : ~Serving("locate", j)
  BY <1>2
<1> QED BY <1>2, <1>3, <1>4, <1>5, <1>6, IndexInv

LEMMA UpsertInv == ASSUME IInv, NEW h \in Handlers, Upsert(h) PROVE IInv'
<1>1. /\ req[h] \in Requests /\ Fits(req[h]) /\ req[h].pc = "upsert"
      /\ Finish(h) /\ indexed' = indexed \cup {req[h].id}
      /\ UNCHANGED <<accounts, owner, nextId, vehicle, status, started, faults, hist>>
  BY ReqFacts DEF Upsert, At
<1>2. req[h].kind = "locate" /\ req[h].id \in Ids /\ req[h].id \notin unlocated
  BY <1>1 DEF Fits, KindFits, PresenceFits, NeedsId
<1>3. UNCHANGED <<answered, away, unlocated>>
  BY <1>1 DEF hist
<1>4. indexed' \subseteq Ids /\ unlocated' \subseteq Ids /\ OfflineLeavesIndex'
  BY <1>1, <1>2, <1>3 DEF IInv, Types, Rows, OfflineLeavesIndex
<1>5. \A j \in away' : status[j] # "online"
  BY <1>3 DEF IInv, Rows
<1> QED BY <1>1, <1>2, <1>3, <1>4, <1>5, IndexInv

-----------------------------------------------------------------------------
(* Requests arrive.                                                        *)

LEMMA StartInv ==
  ASSUME IInv, NEW h \in Handlers, NEW q \in Requests, Serve(h, q), Fits(q)',
         q.id = 0 \/ q.kind = "locate", q.banned \subseteq away,
         unlocated' \subseteq unlocated, UNCHANGED <<answered, away>>
  PROVE  IInv'
<1>1. /\ req[h] \in Requests /\ Fits(req[h]) /\ faults \in Nat /\ req[h].pc = "idle"
      /\ started < MaxRequests /\ started' = started + 1 /\ req' = [req EXCEPT ![h] = q]
      /\ UNCHANGED <<accounts, owner, nextId, vehicle, status, indexed, faults>>
  BY ReqFacts DEF Serve, At, db
<1>2. req[h].kind = "none" /\ "none" \notin Registering /\ "locate" \notin Registering
  BY <1>1 DEF Fits, KindFits, Registering
<1>3. \A i \in Ids : i # 0 /\ (Exists(i)' <=> Exists(i))
  BY <1>1 DEF Exists, Ids
<1>4. Types'
  <2>1. started' \in 0 .. MaxRequests
    BY <1>1, ConstantsOK DEF IInv, Types
  <2> QED BY <1>1, <2>1, BecomesQ DEF IInv, Types
<1>5. Rows'
  <2>1. NoStrayDrivers'
    <3>1. \A i \in Ids : Exists(i)' => Exists(i) /\ owner'[i] = owner[i]
      BY <1>1, <1>3
    <3>2. answered \subseteq answered' /\ faults' \in Nat /\ faults <= faults'
      BY <1>1
    <3> QED BY <1>1, <1>2, <3>1, <3>2, NoStrayStands
  <2>2. /\ \A i \in Ids : Exists(i)' => i < nextId' /\ owner'[i] \in accounts'
        /\ AnsweredIsWhole' /\ OfflineLeavesIndex' /\ \A i \in away' : status'[i] # "online"
    BY <1>1 DEF IInv, Rows, AnsweredIsWhole, OfflineLeavesIndex, Exists
  <2> QED BY <2>1, <2>2 DEF Rows
<1>6. IdsLeft'
  <2>1. Cardinality(Drawing') \in Nat /\ Cardinality(Drawing') <= Cardinality(Drawing) + 1
    BY <1>1, DrawingMoves
  <2> QED BY <1>1, <2>1, CountsAreNats, DrawingIsFinite, ConstantsOK DEF IInv, Types, IdsLeft
<1>7. nextId <= nextId' /\ unlocated' \ unlocated = {}
  BY <1>1 DEF IInv, Types
<1>8. q.kind \in Registering \cup {"online"} => q.id = 0
  BY <1>2
<1> QED BY <1>1, <1>2, <1>3, <1>4, <1>5, <1>6, <1>7, <1>8, StepInv

(* A request of somebody who is logged in, or signs up.                    *)
Asks(q, pc, kind, u) ==
  /\ q \in Requests /\ q.pc = pc /\ q.kind = kind /\ q.user = u /\ q.id = 0
  /\ q.lost = FALSE /\ q.found = {} /\ q.banned = {}

LEMMA StartUserInv ==
  ASSUME IInv, NEW h \in Handlers, NEW u \in Users, NEW pc, NEW kind, NEW q,
         Asks(q, pc, kind, u), Serve(h, q), UNCHANGED hist,
         \/ pc = "checkEmail" /\ kind = "signup"
         \/ pc = "findDriver" /\ kind = "register" /\ u \in accounts
         \/ pc = "findMe" /\ kind \in {"update", "online", "offline"}
  PROVE  IInv'
<1>1. UNCHANGED <<accounts, answered, away, unlocated>>
  BY DEF Serve, db, hist
<1>2. Fits(q)'
  <2>1. KindFits(q)'
    BY DEF Asks, KindFits, BeforeRow, VehiclePcs, SearchPcs, Registering, NeedsId
  <2>2. RegistrationFits(q)'
    BY <1>1 DEF Asks, RegistrationFits, BeforeRow, AfterRow, VehiclePcs, Registering
  <2>3. PresenceFits(q)'
    BY DEF Asks, PresenceFits
  <2> QED BY <2>1, <2>2, <2>3 DEF Fits
<1> QED BY <1>1, <1>2, StartInv DEF Asks

LEMMA StartLocationInv ==
  ASSUME IInv, NEW h \in Handlers, NEW i \in Ids, StartLocation(h, i) PROVE IInv'
<1>1. PICK q : /\ q = [Idle EXCEPT !.pc = "insertLocation", !.kind = "locate", !.id = i]
               /\ Serve(h, q) /\ unlocated' = unlocated \ {i} /\ UNCHANGED <<answered, away>>
  BY DEF StartLocation
<1>2. /\ q \in Requests /\ q.pc = "insertLocation" /\ q.kind = "locate" /\ q.id = i
      /\ q.lost = FALSE /\ q.found = {} /\ q.banned = {}
  BY <1>1 DEF Requests, Idle, Pcs, Kinds
<1>3. Fits(q)'
  BY <1>1, <1>2 DEF Fits, KindFits, RegistrationFits, PresenceFits, BeforeRow, AfterRow,
     VehiclePcs, SearchPcs, Registering, NeedsId
<1> QED BY <1>1, <1>2, <1>3, StartInv

LEMMA StartSearchInv == ASSUME IInv, NEW h \in Handlers, StartSearch(h) PROVE IInv'
<1>1. PICK q : /\ q = [Idle EXCEPT !.pc = "nearby", !.kind = "search", !.banned = away]
               /\ Serve(h, q)
  BY DEF StartSearch
<1>2. UNCHANGED <<answered, away, unlocated, status>>
  BY <1>1 DEF StartSearch, Serve, hist, db
<1>3. away \subseteq Ids /\ \A i \in away : status[i] # "online"
  BY DEF IInv, Types, Rows
<1>4. /\ q \in Requests /\ q.pc = "nearby" /\ q.kind = "search" /\ q.id = 0
      /\ q.lost = FALSE /\ q.found = {} /\ q.banned = away
  BY <1>1, <1>3 DEF Requests, Idle, Pcs, SearchPcs, Kinds
<1>5. Fits(q)'
  BY <1>2, <1>3, <1>4 DEF Fits, KindFits, RegistrationFits, PresenceFits, BeforeRow, AfterRow,
     VehiclePcs, SearchPcs, Registering, NeedsId
<1> QED BY <1>1, <1>2, <1>4, <1>5, StartInv

LEMMA StartsInv == ASSUME IInv, NEW h \in Handlers, Start(h) PROVE IInv'
<1>1. ASSUME NEW u \in Users, NEW p \in Plates \cup {NoPlate}, StartSignup(h, u, p) PROVE IInv'
  <2>1. PICK q : /\ q = [Idle EXCEPT !.pc = "checkEmail", !.kind = "signup", !.user = u,
                                        !.plate = p]
                 /\ Serve(h, q)
    BY <1>1 DEF StartSignup
  <2>2. Asks(q, "checkEmail", "signup", u) /\ UNCHANGED hist
    BY <1>1, <2>1 DEF StartSignup, Asks, Requests, Idle, Pcs, BeforeRow, Kinds
  <2> QED BY <2>1, <2>2, StartUserInv
<1>2. ASSUME NEW u \in Users, NEW p \in Plates \cup {NoPlate}, StartRegister(h, u, p) PROVE IInv'
  <2>1. PICK q : /\ q = [Idle EXCEPT !.pc = "findDriver", !.kind = "register", !.user = u,
                                        !.plate = p]
                 /\ Serve(h, q)
    BY <1>2 DEF StartRegister
  <2>2. Asks(q, "findDriver", "register", u) /\ UNCHANGED hist /\ u \in accounts
    BY <1>2, <2>1 DEF StartRegister, Asks, Requests, Idle, Pcs, BeforeRow, Kinds
  <2> QED BY <2>1, <2>2, StartUserInv
<1>3. ASSUME NEW u \in Users, NEW p \in Plates \cup {NoPlate}, StartUpdate(h, u, p) PROVE IInv'
  <2>1. PICK q : /\ q = [Idle EXCEPT !.pc = "findMe", !.kind = "update", !.user = u, !.plate = p]
                 /\ Serve(h, q)
    BY <1>3 DEF StartUpdate
  <2>2. Asks(q, "findMe", "update", u) /\ UNCHANGED hist
    BY <1>3, <2>1 DEF StartUpdate, Asks, Requests, Idle, Pcs, BeforeRow, Kinds
  <2> QED BY <2>1, <2>2, StartUserInv
<1>4. ASSUME NEW u \in Users, NEW kind \in {"online", "offline"}, StartAvailability(h, u, kind)
      PROVE  IInv'
  <2>1. PICK q : /\ q = [Idle EXCEPT !.pc = "findMe", !.kind = kind, !.user = u]
                 /\ Serve(h, q)
    BY <1>4 DEF StartAvailability
  <2>2. Asks(q, "findMe", kind, u) /\ UNCHANGED hist
    BY <1>4, <2>1 DEF StartAvailability, Asks, Requests, Idle, Pcs, Kinds
  <2> QED BY <2>1, <2>2, StartUserInv
<1> QED BY <1>1, <1>2, <1>3, <1>4, StartLocationInv, StartSearchInv DEF Start

-----------------------------------------------------------------------------
(* A driver's own request finds his row; one to be online takes him from   *)
(* all that hold him to be offline.                                        *)

LEMMA FoundMeInv ==
  ASSUME IInv, NEW h \in Handlers, NEW q \in Requests, req' = [req EXCEPT ![h] = q],
         req[h].pc = "findMe", req[h].kind \in {"update", "offline"},
         q.pc = IF req[h].kind = "update" THEN "updateDriver" ELSE "findById",
         q.kind = req[h].kind, q.id \in Ids, q.lost = req[h].lost, q.found = req[h].found,
         q.banned = IF req[h].kind = "offline" /\ ~Serving("online", q.id) THEN {q.id} ELSE {},
         UNCHANGED <<db, started, faults, hist>>
  PROVE  IInv'
<1>1. req[h] \in Requests /\ Fits(req[h]) /\ faults \in Nat
  BY ReqFacts
<1>2. UNCHANGED <<accounts, owner, nextId, vehicle, status, indexed, started, faults, answered,
                  away, unlocated>>
  BY DEF db, hist
<1>3. \A i \in Ids : Exists(i)' <=> Exists(i)
  BY <1>2 DEF Exists
<1>4. Types'
  BY <1>2, BecomesQ DEF IInv, Types
<1>5. req[h].kind \notin Registering /\ q.kind \notin Registering \cup {"online"}
  BY DEF Registering
<1>6. Rows'
  <2>1. NoStrayDrivers'
    <3>1. \A i \in Ids : Exists(i)' => Exists(i) /\ owner'[i] = owner[i]
      BY <1>2, <1>3
    <3>2. answered \subseteq answered' /\ faults' \in Nat /\ faults <= faults'
      BY <1>1, <1>2
    <3> QED BY <1>5, <3>1, <3>2, NoStrayStands
  <2>2. /\ \A i \in Ids : Exists(i)' => i < nextId' /\ owner'[i] \in accounts'
        /\ AnsweredIsWhole' /\ OfflineLeavesIndex' /\ \A i \in away' : status'[i] # "online"
    BY <1>2 DEF IInv, Rows, AnsweredIsWhole, OfflineLeavesIndex, Exists
  <2> QED BY <2>1, <2>2 DEF Rows
<1>7. IdsLeft'
  BY <1>2, IdsStand DEF BeforeRow
<1>8. Fits(q)'
  <2>1. KindFits(q)'
    BY DEF KindFits, BeforeRow, VehiclePcs, SearchPcs, Registering, NeedsId
  <2>2. RegistrationFits(q)'
    BY <1>1, <1>2 DEF Fits, RegistrationFits, BeforeRow, VehiclePcs, Registering
  <2>3. PresenceFits(q)'
    BY <1>1 DEF Fits, PresenceFits
  <2> QED BY <2>1, <2>2, <2>3 DEF Fits
<1>9. \A i \in q.banned : ~Serving("online", i)
  OBVIOUS
<1>10. /\ accounts \subseteq accounts' /\ nextId <= nextId' /\ answered' \ answered = {}
       /\ unlocated' \ unlocated = {} /\ away' \subseteq away \cup req[h].banned
  BY <1>2 DEF IInv, Types
<1> QED BY <1>2, <1>3, <1>4, <1>5, <1>6, <1>7, <1>8, <1>9, <1>10, StepInv

LEMMA OnlineAgainInv ==
  ASSUME IInv, NEW h \in Handlers, NEW mine \in SUBSET Ids, NEW i \in mine,
         NEW q \in Requests, q.pc = "findById", q.kind = "online", q.id = i,
         q.lost = req[h].lost, q.found = {}, q.banned = {},
         req[h].pc = "findMe", req[h].kind = "online",
         req' = [g \in Handlers |-> IF g = h THEN q ELSE [req[g] EXCEPT !.banned = @ \ mine]],
         away' = away \ mine, UNCHANGED <<db, started, faults, answered, unlocated>>
  PROVE  IInv'
<1>1. UNCHANGED <<accounts, owner, nextId, vehicle, status, indexed>>
  BY DEF db
<1>2. ASSUME NEW g \in Handlers, g # h
      PROVE  /\ req'[g] \in Requests
             /\ req'[g].pc = req[g].pc /\ req'[g].kind = req[g].kind /\ req'[g].user = req[g].user
             /\ req'[g].id = req[g].id /\ req'[g].plate = req[g].plate
             /\ req'[g].lost = req[g].lost /\ req'[g].found = req[g].found
             /\ req'[g].banned = req[g].banned \ mine
  BY <1>2, ReqFacts DEF Requests
<1>3. req'[h] = q
  OBVIOUS
<1>4. Types'
  <2>1. req' \in [Handlers -> Requests]
    BY <1>2, <1>3
  <2> QED BY <1>1, <2>1 DEF IInv, Types
<1>5. "online" \notin Registering
  BY DEF Registering
<1>6. Rows'
  <2>1. NoStrayDrivers'
    <3>1. \A kind \in Registering, j \in Ids : Serving(kind, j) => Serving(kind, j)'
      BY <1>2, <1>5 DEF Serving
    <3> QED BY <1>1, <3>1 DEF IInv, Rows, NoStrayDrivers, Exists
  <2>2. /\ \A j \in Ids : Exists(j)' => j < nextId' /\ owner'[j] \in accounts'
        /\ AnsweredIsWhole' /\ OfflineLeavesIndex' /\ \A j \in away' : status'[j] # "online"
    BY <1>1 DEF IInv, Rows, AnsweredIsWhole, OfflineLeavesIndex, Exists
  <2> QED BY <2>1, <2>2 DEF Rows
<1>7. IdsLeft'
  <2>1. Drawing' = Drawing
    BY <1>2, <1>3 DEF Drawing, BeforeRow
  <2> QED BY <1>1, <2>1 DEF IInv, IdsLeft
<1>8. ASSUME NEW g \in Handlers PROVE Fits(req[g])'
  <2>1. CASE g = h
    <3>1. req[h].lost => faults > 0
      BY ReqFacts DEF Fits, RegistrationFits
    <3>2. Fits(q)'
      BY <3>1 DEF Fits, KindFits, RegistrationFits, PresenceFits, BeforeRow, VehiclePcs, SearchPcs,
         Registering, NeedsId
    <3> QED BY <1>3, <2>1, <3>2
  <2>2. CASE g # h
    <3>1. Fits(req[g])
      BY ReqFacts
    <3>2. KindFits(req[g])'
      BY <1>2, <2>2, <3>1 DEF Fits, KindFits
    <3>3. RegistrationFits(req[g])'
      BY <1>1, <1>2, <2>2, <3>1 DEF Fits, RegistrationFits, Exists
    <3>4. PresenceFits(req[g])'
      <4>1. PICK r \in Requests : r = req'[g]
        BY <1>2, <2>2
      <4>2. /\ r.pc = req[g].pc /\ r.kind = req[g].kind /\ r.id = req[g].id
            /\ r.found = req[g].found /\ r.banned \subseteq req[g].banned
        BY <1>2, <2>2, <4>1
      <4>3. UNCHANGED <<status, unlocated>>
        BY <1>1
      <4>4. PresenceFits(r)'
        BY <3>1, <4>2, <4>3 DEF Fits, PresenceFits
      <4> QED BY <4>1, <4>4 DEF PresenceFits
    <3> QED BY <3>2, <3>3, <3>4 DEF Fits
  <2> QED BY <2>1, <2>2
<1>9. ASSUME NEW g \in Handlers, NEW k \in Handlers
      PROVE  (g # k => OwnRow(g, k)') /\ StaysOff(g, k)'
  <2>1. (g # k => OwnRow(g, k)) /\ StaysOff(g, k)
    BY DEF IInv
  <2>2. g # k => OwnRow(g, k)'
    BY <1>2, <1>3, <1>5, <2>1 DEF OwnRow
  <2>3. StaysOff(g, k)'
    <3>1. CASE g = h /\ k = h
      BY <1>3, <3>1 DEF StaysOff
    <3>2. CASE g = h /\ k # h
      BY <1>2, <1>3, <3>2 DEF StaysOff
    <3>3. CASE g # h /\ k = h
      BY <1>2, <1>3, <2>1, <3>3 DEF StaysOff
    <3>4. CASE g # h /\ k # h
      <4>1. req[g].kind = "online" => req[g].id \notin away /\ req[g].id \notin req[k].banned
        BY <2>1 DEF StaysOff
      <4>2. /\ req'[g].kind = req[g].kind /\ req'[g].id = req[g].id
            /\ req'[k].banned = req[k].banned \ mine
        BY <1>2, <3>4
      <4> QED BY <4>1, <4>2 DEF StaysOff
    <3> QED BY <3>1, <3>2, <3>3, <3>4
  <2> QED BY <2>2, <2>3
<1> QED BY <1>4, <1>6, <1>7, <1>8, <1>9 DEF IInv

LEMMA FindMeInv == ASSUME IInv, NEW h \in Handlers, FindMe(h) PROVE IInv'
<1> DEFINE mine == RowsOf(req[h].user)
           wanted == IF req[h].kind = "online" THEN mine ELSE {}
           goes(i) == [req[h] EXCEPT !.id = i,
                         !.banned = IF req[h].kind = "offline" /\ ~Serving("online", i)
                                      THEN {i} ELSE {},
                         !.pc = IF req[h].kind = "update" THEN "updateDriver" ELSE "findById"]
<1>1. /\ req[h] \in Requests /\ Fits(req[h]) /\ faults \in Nat /\ req[h].pc = "findMe"
      /\ away' = away \ wanted /\ UNCHANGED <<db, started, faults, answered, unlocated>>
      /\ faults' \in Nat /\ faults <= faults'
  <2>1. req[h].pc = "findMe" /\ away' = away \ wanted
    BY DEF FindMe, At
  <2>2. UNCHANGED <<db, started, faults, answered, unlocated>>
    BY DEF FindMe
  <2>3. faults \in Nat
    BY ReqFacts
  <2>4. faults' \in Nat /\ faults <= faults'
    <3>1. faults' = faults
      BY <2>2
    <3> QED BY <2>3, <3>1
  <2> QED BY <2>1, <2>2, <2>3, <2>4, ReqFacts
<1>2. /\ req[h].kind \in {"update", "online", "offline"} /\ req[h].found = {}
      /\ req[h].kind \notin Registering /\ req[h].kind # "search"
  BY <1>1 DEF Fits, KindFits, PresenceFits, Registering
<1>3. PICK me \in {goes(i) : i \in mine} \cup (IF mine = {} THEN {Idle} ELSE {}) :
        req' = [g \in Handlers |-> IF g = h THEN me ELSE [req[g] EXCEPT !.banned = @ \ wanted]]
  BY DEF FindMe
<1>4. mine \in SUBSET Ids
  BY DEF RowsOf
<1>5. ASSUME wanted = {} PROVE req' = [req EXCEPT ![h] = me]
  <2>1. ASSUME NEW g \in Handlers, g # h PROVE req'[g] = req[g]
    <3>1. req'[g] = [req[g] EXCEPT !.banned = req[g].banned \ wanted]
      BY <1>3, <2>1
    <3>2. req[g].banned \ wanted = req[g].banned
      BY <1>5
    <3>3. req[g] \in Requests
      BY ReqFacts
    <3> HIDE DEF wanted
    <3> QED BY <3>1, <3>2, <3>3 DEF Requests
  <2>2. req' = [g \in Handlers |-> IF g = h THEN me ELSE req[g]]
    BY <1>3, <2>1
  <2> QED BY <2>2 DEF IInv, Types
<1>6. CASE mine = {}
  <2>1. wanted = {} /\ me = Idle
    BY <1>3, <1>6
  <2>2. req' = [req EXCEPT ![h] = Idle]
    BY <2>1, <1>5
  <2>3. UNCHANGED <<db, started, hist>>
    BY <1>1, <2>1 DEF hist
  <2>4. Finish(h)
    BY <2>2 DEF Finish
  <2> HIDE DEF mine, goes, wanted
  <2> QED BY <1>1, <1>2, <2>3, <2>4, EndInv
<1>7. CASE mine # {}
  <2>1. PICK i \in mine : me = goes(i)
    BY <1>3, <1>7
  <2>2. i \in Ids
    BY <1>4
  <2>3. /\ me \in Requests
        /\ me.pc = IF req[h].kind = "update" THEN "updateDriver" ELSE "findById"
        /\ me.kind = req[h].kind /\ me.id = i /\ me.lost = req[h].lost
        /\ me.found = req[h].found
        /\ me.banned = IF req[h].kind = "offline" /\ ~Serving("online", i) THEN {i} ELSE {}
    BY <1>1, <2>1, <2>2 DEF Requests, Pcs
  <2>4. CASE req[h].kind = "online"
    <3>1. wanted = mine
      BY <2>4
    <3> HIDE DEF mine, goes
    <3> QED BY <1>1, <1>2, <1>3, <1>4, <2>3, <2>4, <3>1, OnlineAgainInv
  <2>5. CASE req[h].kind # "online"
    <3>1. wanted = {}
      BY <2>5
    <3>2. req' = [req EXCEPT ![h] = me]
      BY <3>1, <1>5
    <3>3. UNCHANGED <<db, started, faults, hist>>
      BY <1>1, <3>1 DEF hist
    <3> HIDE DEF mine, goes, wanted
    <3> QED BY <1>1, <1>2, <2>2, <2>3, <2>5, <3>2, <3>3, FoundMeInv
  <2> QED BY <2>4, <2>5
<1> QED BY <1>6, <1>7

-----------------------------------------------------------------------------
LEMMA InitIInv == ASSUME Init PROVE IInv
<1>1. \A h \in Handlers : req[h] = Idle
  BY DEF Init
<1>2. Types
  <2>1. nextId \in 1 .. Cardinality(Users) + MaxRequests + 1
    BY CountsAreNats, ConstantsOK DEF Init
  <2>2. owner \in [Ids -> Users \cup {NoUser}]
    BY ConstantsOK DEF Init
  <2>3. req \in [Handlers -> Requests] /\ started \in 0 .. MaxRequests
    BY IdleFits, ConstantsOK DEF Init
  <2> QED BY <2>1, <2>2, <2>3, ConstantsOK DEF Init, Types
<1>3. Rows
  <2>1. ASSUME NEW i \in Ids, Exists(i) PROVE i < nextId /\ owner[i] \in Veterans
    <3>1. i <= Cardinality(Veterans) /\ owner[i] \in Veterans
      BY <2>1 DEF Init, Exists
    <3> QED BY <3>1, CountsAreNats DEF Init, Ids
  <2>2. accounts = Veterans /\ answered = {} /\ away = {} /\ unlocated = {}
    BY DEF Init
  <2> QED BY <2>1, <2>2 DEF Rows, AnsweredIsWhole, NoStrayDrivers, OfflineLeavesIndex
<1>4. IdsLeft
  <2>1. Drawing = {}
    BY <1>1 DEF Drawing, Idle, BeforeRow
  <2>2. Cardinality(Drawing) = 0
    BY <2>1, FS_EmptySet
  <2> QED BY <2>2, CountsAreNats DEF Init, IdsLeft
<1>5. \A h \in Handlers : Fits(req[h])
  BY <1>1, <1>2, IdleFits
<1>6. \A g, h \in Handlers : (g # h => OwnRow(g, h)) /\ StaysOff(g, h)
  BY <1>1 DEF OwnRow, StaysOff, Idle
<1> QED BY <1>2, <1>3, <1>4, <1>5, <1>6 DEF IInv

LEMMA StutterInv == ASSUME IInv, UNCHANGED vars PROVE IInv'
<1>1. UNCHANGED <<accounts, owner, nextId, vehicle, status, indexed, req, started, faults,
                  answered, away, unlocated>>
  BY DEF vars, db, hist
<1>2. Types'
  BY <1>1 DEF IInv, Types
<1>3. Rows'
  BY <1>1 DEF IInv, Rows, Exists, AnsweredIsWhole, NoStrayDrivers, OfflineLeavesIndex, Serving
<1>4. IdsLeft'
  BY <1>1 DEF IInv, IdsLeft, Drawing
<1>5. \A h \in Handlers : Fits(req[h])'
  BY <1>1 DEF IInv, Fits, KindFits, RegistrationFits, PresenceFits, Exists
<1>6. \A g, h \in Handlers : (g # h => OwnRow(g, h)') /\ StaysOff(g, h)'
  BY <1>1 DEF IInv, OwnRow, StaysOff
<1> QED BY <1>2, <1>3, <1>4, <1>5, <1>6 DEF IInv

LEMMA NextIInv == ASSUME IInv, Next PROVE IInv'
<1>1. PICK h \in Handlers :
        Start(h) \/ Register(h) \/ Presence(h) \/ Fail(h) \/ LoseAnswer(h)
  BY DEF Next
<1>2. CASE Register(h)
  BY <1>2, CheckEmailInv, CreateUserInv, FindDriverInv, CreateDriverInv, LookVehicleInv,
     SaveVehicleInv, RollbackInv, SetOfflineInv, AnswerInv DEF Register
<1>3. CASE Presence(h)
  BY <1>3, FindMeInv, UpdateDriverInv, FindByIdInv, SetAvailabilityInv, RemoveIndexInv,
     InsertLocationInv, UpsertInv, NearbyInv, LoadProfileInv, JudgeInv DEF Presence
<1> QED BY <1>1, <1>2, <1>3, StartsInv, FailInv, LoseAnswerInv

LEMMA IInvAlways == Spec => []IInv
<1>1. Init => IInv
  BY InitIInv
<1>2. IInv /\ [Next]_vars => IInv'
  BY NextIInv, StutterInv
<1> QED BY <1>1, <1>2, PTL DEF Spec

-----------------------------------------------------------------------------
(* Every variable keeps its type, and a request is for a driver whenever    *)
(* its next step needs one.                                                 *)
THEOREM TypeCorrect == Spec => []TypeOK
<1>1. IInv => TypeOK
  <2> SUFFICES ASSUME IInv PROVE TypeOK
    OBVIOUS
  <2>1. ASSUME NEW h \in Handlers
        PROVE  /\ req[h].user \in Users \cup {NoUser} /\ req[h].id \in Ids \cup {0}
               /\ req[h].pc \in NeedsId => req[h].id \in Ids
               /\ req[h].todo \subseteq Ids /\ req[h].found \subseteq Ids
    BY ReqFacts DEF Requests, Fits, KindFits
  <2> QED BY <2>1 DEF IInv, Types, TypeOK
<1> QED BY <1>1, IInvAlways, PTL

(* No driver profile outlives or precedes its account, whatever fails and   *)
(* however sign-ups and registrations interleave.                           *)
THEOREM ProfilesHaveAccounts == Spec => []DriversHaveAccounts
<1>1. IInv => DriversHaveAccounts
  BY DEF IInv, Rows, DriversHaveAccounts
<1> QED BY <1>1, IInvAlways, PTL

(* What a registration was answered for stays in the tables: no rollback,   *)
(* no other registration and no profile update takes it away.               *)
THEOREM AnswersAreKept == Spec => []AnsweredIsWhole
<1>1. IInv => AnsweredIsWhole
  BY DEF IInv, Rows
<1> QED BY <1>1, IInvAlways, PTL

(* Without failing calls, no refused registration leaves a row behind.      *)
THEOREM RefusedLeaveNothing == Spec => []NoStrayDrivers
<1>1. IInv => NoStrayDrivers
  BY DEF IInv, Rows
<1> QED BY <1>1, IInvAlways, PTL

(* No search offers a driver who had been told that he is offline and has   *)
(* not asked to be online since, for any index and any search limit.        *)
THEOREM SearchesSkipOffline == Spec => []SearchHonoursOffline
<1>1. IInv => SearchHonoursOffline
  BY DEF IInv, Fits, PresenceFits, SearchHonoursOffline
<1> QED BY <1>1, IInvAlways, PTL

(* A driver who went offline comes back into the index only with a location *)
(* that arrived afterwards.                                                 *)
THEOREM OfflineStaysOut == Spec => []OfflineLeavesIndex
<1>1. IInv => OfflineLeavesIndex
  BY DEF IInv, Rows
<1> QED BY <1>1, IInvAlways, PTL
=============================================================================
