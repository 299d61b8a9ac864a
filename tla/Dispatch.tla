------------------------------ MODULE Dispatch ------------------------------
(***************************************************************************)
(* Driver dispatch: DriverService (internal/domain/driver_service.go) over *)
(* the trip_assignments table, the trips table and the availability table. *)
(*                                                                         *)
(* Every repository call is one SQL statement outside any transaction, so  *)
(* one call is one step and the handlers of concurrent HTTP requests and   *)
(* queue workers interleave between calls.  A handler is a record with a   *)
(* program counter; a request that ends, whatever its result, leaves its   *)
(* handler Idle and ready for another request.                             *)
(*                                                                         *)
(* Data left out: ids, timestamps, notifications (their errors are only    *)
(* logged) and the order of driver_status.updated_at, so any free driver   *)
(* may be the one FindAvailable returns.                                   *)
(***************************************************************************)
EXTENDS Naturals, FiniteSets

CONSTANTS
  Drivers,     \* driver profiles
  Trips,       \* trips, all created and persisted
  Handlers,    \* concurrent request goroutines and queue workers
  Ops,         \* the requests clients send: a subset of AllOps
  NoDriver,    \* the NULL of trips.driver_id and of an absent assignment
  NoTrip,      \* the trip of an idle handler
  TripsWired,  \* FALSE where DriverService was built with a nil trip repository
  Faulty       \* TRUE where a repository call may fail

AllOps == {"assign", "next", "accept", "decline", "update", "patch", "availability"}

ASSUME ConstantsOK ==
  /\ NoDriver \notin Drivers
  /\ NoTrip \notin Trips
  /\ Ops \subseteq AllOps
  /\ TripsWired \in BOOLEAN
  /\ Faulty \in BOOLEAN

VARIABLES
  tripStatus,  \* trips.status
  tripDriver,  \* trips.driver_id
  asg,         \* trip_assignments, at most one row per trip (UNIQUE trip_id)
  online,      \* drivers whose driver_status row says online
  req,         \* the request each handler is serving
  spoke        \* history: drivers who asked to accept or to move each trip

db   == <<tripStatus, tripDriver, asg, online>>
vars == <<tripStatus, tripDriver, asg, online, req, spoke>>

TripStatuses   == {"requested", "accepted", "arriving", "in_ride", "completed", "cancelled"}
AsgStatuses    == {"pending", "accepted", "declined", "cancelled"}
ActiveStatuses == {"pending", "accepted"}
Targets        == {"arriving", "in_ride", "completed", "cancelled"}

NoRow == [driver |-> NoDriver, status |-> "none"]
Rows  == [driver : Drivers, status : AsgStatuses] \cup {NoRow}

(* What allowedDriverTransition lets a driver do, as pairs.                *)
DriverMoves ==
  {"accepted"} \X {"arriving", "cancelled", "completed"}
    \cup {"arriving"} \X {"in_ride", "cancelled", "completed"}
    \cup {"in_ride"} \X {"completed", "cancelled"}
    \cup {"requested"} \X {"cancelled", "completed"}

Idle == [pc |-> "idle", op |-> "none", trip |-> NoTrip, driver |-> NoDriver,
         next |-> "none", snap |-> "none", ret |-> "none"]

-----------------------------------------------------------------------------
Init ==
  /\ tripStatus = [t \in Trips |-> "requested"]
  /\ tripDriver = [t \in Trips |-> NoDriver]
  /\ asg = [t \in Trips |-> NoRow]
  /\ online = Drivers          \* the shift starts; "availability" changes it
  /\ req = [h \in Handlers |-> Idle]
  /\ spoke = [t \in Trips |-> {}]

At(h, pc)   == req[h].pc = pc
Goto(h, pc) == req' = [req EXCEPT ![h].pc = pc]
Finish(h)   == req' = [req EXCEPT ![h] = Idle]

Active(t)      == asg[t].status \in ActiveStatuses
ActiveTrips(d) == {t \in Trips : Active(t) /\ asg[t].driver = d}
FreeDrivers    == {d \in online : ActiveTrips(d) = {}}

\* Mutant of RowMatches: the WHERE clause forgets driver_id.
RowExists(t, d) == asg[t] # NoRow /\ d \in Drivers

(* trip_assignments.UpdateStatus(t, d, s): the row must name both t and d. *)
RowMatches(t, d) == asg[t].driver = d
SetAsgStatus(t, s) == asg' = [asg EXCEPT ![t].status = s]

-----------------------------------------------------------------------------
(* Requests arrive.                                                        *)

Serve(h, op, t, d, next, pc) ==
  /\ op \in Ops
  /\ At(h, "idle")
  /\ req' = [req EXCEPT ![h] = [pc |-> pc, op |-> op, trip |-> t, driver |-> d,
                                next |-> next, snap |-> "none", ret |-> "none"]]
  /\ UNCHANGED db

StartAssign(h, t, d) ==
  Serve(h, "assign", t, d, "none", "getTrip") /\ UNCHANGED spoke

StartAssignNext(h, t) ==
  Serve(h, "next", t, NoDriver, "none", "pickDriver") /\ UNCHANGED spoke

StartAccept(h, t, d) ==
  /\ Serve(h, "accept", t, d, "none", "accept")
  /\ spoke' = [spoke EXCEPT ![t] = @ \cup {d}]

StartDecline(h, t, d) ==
  Serve(h, "decline", t, d, "none", "decline") /\ UNCHANGED spoke

StartUpdate(h, t, d, next) ==
  /\ Serve(h, "update", t, d, next, "getTrip")
  /\ spoke' = [spoke EXCEPT ![t] = @ \cup {d}]

-----------------------------------------------------------------------------
(* AssignNextAvailableDriver and AssignTrip                                *)

PickDriver(h) ==
  /\ At(h, "pickDriver")
  /\ \/ \E d \in FreeDrivers :
          req' = [req EXCEPT ![h].driver = d, ![h].pc = "getTrip"]
     \/ FreeDrivers = {} /\ Finish(h)      \* ErrNoDriversAvailable
  /\ UNCHANGED <<db, spoke>>

AssignGetTrip(h) ==
  /\ At(h, "getTrip") /\ TripsWired
  /\ req[h].op \in {"assign", "next"}
  /\ Goto(h, "checkOnline")
  /\ UNCHANGED <<db, spoke>>

CheckOnline(h) ==
  /\ At(h, "checkOnline")
  /\ IF req[h].driver \in online THEN Goto(h, "checkActive")
                                 ELSE Finish(h)   \* ErrDriverOffline
  /\ UNCHANGED <<db, spoke>>

(* FindActiveByDriver returns the driver's latest active row; which of     *)
(* several that is, is left open.                                          *)
CheckActive(h) ==
  LET busy == ActiveTrips(req[h].driver)
  IN  /\ At(h, "checkActive")
      /\ \/ /\ busy = {} \/ req[h].trip \in busy
            /\ req' = [req EXCEPT ![h].pc = "assignLookup", ![h].ret = "setDriver"]
         \/ busy \ {req[h].trip} # {} /\ Finish(h)   \* ErrAssignmentConflict
      /\ UNCHANGED <<db, spoke>>

-----------------------------------------------------------------------------
(* TripAssignmentRepository.Assign: look the row up, then insert or update *)
(* it and, after an update, read it back.                                  *)

AssignLookup(h) ==
  /\ At(h, "assignLookup")
  /\ Goto(h, IF asg[req[h].trip] = NoRow THEN "assignInsert" ELSE "assignUpdate")
  /\ UNCHANGED <<db, spoke>>

PendingRow(d) == [driver |-> d, status |-> "pending"]

(* Where Assign returns to, having read the row's status as seen.          *)
Promotes(h, seen) == req[h].next # "cancelled" /\ seen # "accepted"

AfterAssign(h, seen) ==
  LET pc == IF req[h].ret = "setDriver" THEN "setDriver"
            ELSE IF Promotes(h, seen) THEN "promote" ELSE "writeStatus"
  IN  req' = [req EXCEPT ![h].pc = pc, ![h].ret = "none"]

AssignInsert(h) ==
  LET t == req[h].trip
  IN  /\ At(h, "assignInsert")
      /\ IF asg[t] = NoRow
         THEN /\ asg' = [asg EXCEPT ![t] = PendingRow(req[h].driver)]
              /\ AfterAssign(h, "pending")
         ELSE UNCHANGED asg /\ Finish(h)          \* unique violation
      /\ UNCHANGED <<tripStatus, tripDriver, online, spoke>>

AssignUpdate(h) ==
  /\ At(h, "assignUpdate")
  /\ asg' = [asg EXCEPT ![req[h].trip] = PendingRow(req[h].driver)]
  /\ Goto(h, "assignReread")
  /\ UNCHANGED <<tripStatus, tripDriver, online, spoke>>

AssignReread(h) ==
  /\ At(h, "assignReread")
  /\ AfterAssign(h, asg[req[h].trip].status)
  /\ UNCHANGED <<db, spoke>>

(* trips.SetTripDriver(t, &d), the call that follows Assign.               *)
SetDriver(h) ==
  /\ At(h, "setDriver") /\ TripsWired
  /\ tripDriver' = [tripDriver EXCEPT ![req[h].trip] = req[h].driver]
  /\ \/ req[h].op \in {"assign", "next"} /\ Finish(h)
     \/ req[h].op = "accept" /\ Goto(h, "acceptAgain")
     \/ req[h].op = "update" /\ Goto(h, "checkMove")
  /\ UNCHANGED <<tripStatus, asg, online, spoke>>

-----------------------------------------------------------------------------
(* AcceptTrip                                                              *)

\* Mutant of Accept: an unassigned trip gets its driver without a row.
AcceptWithoutRow(h) ==
  LET t == req[h].trip
  IN  /\ At(h, "accept")
      /\ IF RowMatches(t, req[h].driver)
         THEN SetAsgStatus(t, "accepted") /\ Goto(h, "acceptTrip")
         ELSE UNCHANGED asg /\ Goto(h, "setDriver")
      /\ UNCHANGED <<tripStatus, tripDriver, online, spoke>>

Accept(h) ==
  LET t == req[h].trip
  IN  /\ At(h, "accept")
      /\ IF RowMatches(t, req[h].driver)
         THEN SetAsgStatus(t, "accepted") /\ Goto(h, "acceptTrip")
         ELSE /\ UNCHANGED asg
              /\ req' = [req EXCEPT ![h].pc = "assignLookup", ![h].ret = "setDriver"]
      /\ UNCHANGED <<tripStatus, tripDriver, online, spoke>>

AcceptAgain(h) ==
  LET t == req[h].trip
  IN  /\ At(h, "acceptAgain")
      /\ IF RowMatches(t, req[h].driver)
         THEN SetAsgStatus(t, "accepted") /\ Goto(h, "acceptTrip")
         ELSE UNCHANGED asg /\ Finish(h)          \* ErrTripAssignmentNotFound
      /\ UNCHANGED <<tripStatus, tripDriver, online, spoke>>

AcceptTrip(h) ==
  /\ At(h, "acceptTrip") /\ TripsWired
  /\ tripStatus' = [tripStatus EXCEPT ![req[h].trip] = "accepted"]
  /\ Finish(h)
  /\ UNCHANGED <<tripDriver, asg, online, spoke>>

-----------------------------------------------------------------------------
(* DeclineTrip: with or without a matching row the trip loses its driver.  *)

Decline(h) ==
  LET t == req[h].trip
  IN  /\ At(h, "decline")
      /\ IF RowMatches(t, req[h].driver) THEN SetAsgStatus(t, "declined")
                                         ELSE UNCHANGED asg
      /\ Goto(h, "clearDriver")
      /\ UNCHANGED <<tripStatus, tripDriver, online, spoke>>

ClearDriver(h) ==
  /\ At(h, "clearDriver") /\ TripsWired
  /\ tripDriver' = [tripDriver EXCEPT ![req[h].trip] = NoDriver]
  /\ Finish(h)
  /\ UNCHANGED <<tripStatus, asg, online, spoke>>

-----------------------------------------------------------------------------
(* DriverService.UpdateTripStatus                                          *)

\* Mutant of UpdateGetTrip: the auto-assign sets the driver but no row.
UpdateGetTripNoRow(h) ==
  LET t == req[h].trip
  IN  /\ At(h, "getTrip") /\ TripsWired
      /\ req[h].op = "update"
      /\ req' = [req EXCEPT ![h].snap = tripStatus[t],
                   ![h].pc = IF tripDriver[t] = req[h].driver THEN "checkMove"
                                                              ELSE "setDriver"]
      /\ UNCHANGED <<db, spoke>>

UpdateGetTrip(h) ==
  LET t == req[h].trip
  IN  /\ At(h, "getTrip") /\ TripsWired
      /\ req[h].op = "update"
      /\ req' = [req EXCEPT ![h].snap = tripStatus[t],
                   ![h].ret = IF tripDriver[t] = req[h].driver THEN "none" ELSE "setDriver",
                   ![h].pc = IF tripDriver[t] = req[h].driver THEN "checkMove"
                                                              ELSE "assignLookup"]
      /\ UNCHANGED <<db, spoke>>

(* The transition is judged on the snapshot, then GetByTripID is read.     *)
CheckMove(h) ==
  LET row == asg[req[h].trip]
      allowed == <<req[h].snap, req[h].next>> \in DriverMoves
      goOn(pc, ret) == req' = [req EXCEPT ![h].snap = "none", ![h].ret = ret, ![h].pc = pc]
  IN  /\ At(h, "checkMove")
      /\ \/ ~allowed /\ Finish(h)                 \* ErrInvalidStatus
         \/ /\ allowed /\ row.driver = req[h].driver
            /\ goOn(IF Promotes(h, row.status) THEN "promote" ELSE "writeStatus", "none")
         \/ allowed /\ row.driver # req[h].driver /\ goOn("assignLookup", "promote")
      /\ UNCHANGED <<db, spoke>>

Promote(h) ==
  LET t == req[h].trip
  IN  /\ At(h, "promote")
      /\ IF RowMatches(t, req[h].driver)
         THEN SetAsgStatus(t, "accepted") /\ Goto(h, "writeStatus")
         ELSE UNCHANGED asg /\ Finish(h)          \* ErrTripAssignmentNotFound
      /\ UNCHANGED <<tripStatus, tripDriver, online, spoke>>

WriteStatus(h) ==
  /\ At(h, "writeStatus") /\ TripsWired
  /\ tripStatus' = [tripStatus EXCEPT ![req[h].trip] = req[h].next]
  /\ IF req[h].next \in {"completed", "cancelled"} THEN Goto(h, "release")
                                                   ELSE Finish(h)
  /\ UNCHANGED <<tripDriver, asg, online, spoke>>

Release(h) ==
  LET t == req[h].trip
  IN  /\ At(h, "release")
      /\ IF RowMatches(t, req[h].driver) THEN SetAsgStatus(t, "cancelled")
                                         ELSE UNCHANGED asg
      /\ Finish(h)
      /\ UNCHANGED <<tripStatus, tripDriver, online, spoke>>

-----------------------------------------------------------------------------
(* What else writes these tables, and what may go wrong.                   *)

(* PATCH /v1/trips/:id/status and the "status" frame of a driver's socket: *)
(* TripService.UpdateStatus, an unconditional write of any valid status.   *)
PatchStatus(t, s) ==
  /\ "patch" \in Ops
  /\ tripStatus' = [tripStatus EXCEPT ![t] = s]
  /\ UNCHANGED <<tripDriver, asg, online, req, spoke>>

UpdateAvailability(d) ==
  /\ "availability" \in Ops
  /\ online' = IF d \in online THEN online \ {d} ELSE online \cup {d}
  /\ UNCHANGED <<tripStatus, tripDriver, asg, req, spoke>>

(* A call on a nil TripSyncRepository panics; gin.Recovery ends the request. *)
TripCalls == {"getTrip", "setDriver", "acceptTrip", "clearDriver", "writeStatus"}
Panics(h) == ~TripsWired /\ req[h].pc \in TripCalls

(* The next repository call of h panics or returns an error, or the process *)
(* stops.                                                                   *)
Fail(h) ==
  /\ ~At(h, "idle")
  /\ Faulty \/ Panics(h)
  /\ Finish(h)
  /\ UNCHANGED <<db, spoke>>

Start(h) ==
  \E t \in Trips :
    \/ StartAssignNext(h, t)
    \/ \E d \in Drivers :
         \/ StartAssign(h, t, d)
         \/ StartAccept(h, t, d)
         \/ StartDecline(h, t, d)
         \/ \E next \in Targets : StartUpdate(h, t, d, next)

(* The next repository call of h returns.                                  *)
Call(h) ==
  \/ PickDriver(h) \/ AssignGetTrip(h) \/ CheckOnline(h) \/ CheckActive(h)
  \/ AssignLookup(h) \/ AssignInsert(h) \/ AssignUpdate(h) \/ AssignReread(h)
  \/ SetDriver(h)
  \/ Accept(h) \/ AcceptAgain(h) \/ AcceptTrip(h)
  \/ Decline(h) \/ ClearDriver(h)
  \/ UpdateGetTrip(h) \/ CheckMove(h) \/ Promote(h) \/ WriteStatus(h) \/ Release(h)

Step(h) == Call(h) \/ Fail(h)

Next ==
  \/ \E h \in Handlers : Start(h) \/ Step(h)
  \/ \E t \in Trips, s \in TripStatuses : PatchStatus(t, s)
  \/ \E d \in Drivers : UpdateAvailability(d)

Spec == Init /\ [][Next]_vars

-----------------------------------------------------------------------------
Pcs == {"idle", "pickDriver", "getTrip", "checkOnline", "checkActive",
        "assignLookup", "assignInsert", "assignUpdate", "assignReread", "setDriver",
        "accept", "acceptAgain", "acceptTrip", "decline", "clearDriver",
        "checkMove", "promote", "writeStatus", "release"}

Requests ==
  [pc : Pcs, op : AllOps \cup {"none"}, trip : Trips \cup {NoTrip},
   driver : Drivers \cup {NoDriver}, next : Targets \cup {"none"},
   snap : TripStatuses \cup {"none"},
   ret : {"none", "setDriver", "promote"}]

(* Type invariant: every row and every request in flight is well formed.   *)
TypeOK ==
  /\ tripStatus \in [Trips -> TripStatuses]
  /\ tripDriver \in [Trips -> Drivers \cup {NoDriver}]
  /\ asg \in [Trips -> Rows]
  /\ online \subseteq Drivers
  /\ req \in [Handlers -> Requests]
  /\ spoke \in [Trips -> SUBSET Drivers]

(* A trip names a driver only while an assignment row exists for it: every *)
(* path writes the row before trips.driver_id, so a crash or an error      *)
(* between the two calls never leaves a driver without a row to answer.    *)
RowBeforeDriver ==
  \A t \in Trips : tripDriver[t] # NoDriver => asg[t] # NoRow

(* An assignment is accepted only in the name of a driver who asked for it *)
(* himself, however accepts, declines, status moves and reassignments of   *)
(* different drivers interleave on the one row of a trip: Assign puts the  *)
(* row back to pending and UpdateStatus matches on trip and driver.        *)
AcceptanceIsOwn ==
  \A t \in Trips : asg[t].status = "accepted" => asg[t].driver \in spoke[t]

(* Whose hands an assignment is in: every step that changes a row either   *)
(* makes it a pending assignment, or is part of a request made in the name *)
(* of the driver the row already names.  A rival has to take the row over  *)
(* before anything can be accepted, declined or released.                  *)
StatusIsOwn ==
  [][\A t \in Trips : asg'[t] # asg[t] =>
       \/ asg'[t].status = "pending"
       \/ /\ asg'[t].driver = asg[t].driver
          /\ \E h \in Handlers : req[h].trip = t /\ req[h].driver = asg[t].driver]_vars

(* With nobody in the middle of a request.                                 *)
Quiet == \A h \in Handlers : At(h, "idle")

(* Between requests the driver a trip names is the driver its assignment   *)
(* row names.                                                              *)
TablesMatch ==
  Quiet => \A t \in Trips : tripDriver[t] # NoDriver => asg[t].driver = tripDriver[t]

(* No driver holds two active assignments: what the availability query,    *)
(* the conflict check of AssignTrip and the documented per-driver lock of  *)
(* the matching workers are for.                                           *)
NoDoubleBooking ==
  \A d \in Drivers : Cardinality(ActiveTrips(d)) <= 1
=============================================================================
