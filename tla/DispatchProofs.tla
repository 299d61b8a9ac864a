--------------------------- MODULE DispatchProofs ---------------------------
(***************************************************************************)
(* Proofs about Dispatch for every set of drivers, trips and handlers,     *)
(* whether or not the trip repository is wired and calls fail, and about   *)
(* the worlds of DispatchWorlds.                                           *)
(***************************************************************************)
EXTENDS DispatchWorlds, TLAPS

(* What a request in flight has established by the step it is at.          *)
HandlerFits(h) ==
  /\ req[h].pc # "idle" => req[h].trip \in Trips
  /\ req[h].pc \notin {"idle", "pickDriver"} => req[h].driver \in Drivers
  \* the speaker of a request that may accept a row has spoken
  /\ req[h].op \in {"accept", "update"}
       => req[h].trip \in Trips /\ req[h].driver \in spoke[req[h].trip]
  /\ req[h].op = "update" => req[h].next \in Targets
  \* only such requests reach the steps that accept a row or move the trip
  /\ req[h].pc = "pickDriver" => req[h].op = "next"
  /\ req[h].pc \in {"accept", "acceptAgain"} => req[h].op = "accept"
  /\ req[h].pc \in {"checkMove", "promote", "writeStatus", "release"} => req[h].op = "update"
  /\ req[h].ret = "promote" => req[h].op = "update"
  /\ req[h].pc \in {"assignLookup", "assignInsert", "assignUpdate", "assignReread"}
       => req[h].ret \in {"setDriver", "promote"}
  \* a request about to name a driver has seen or written the row
  /\ req[h].pc \in {"setDriver", "assignUpdate", "assignReread"}
       => asg[req[h].trip] # NoRow

(* The inductive invariant: the three invariants hold because every request *)
(* in flight fits the rows it is about to write.                            *)
IInv ==
  /\ TypeOK
  /\ RowBeforeDriver
  /\ AcceptanceIsOwn
  /\ \A h \in Handlers : HandlerFits(h)

LEMMA InitIInv == Init => IInv
  BY ConstantsOK DEF Init, IInv, TypeOK, RowBeforeDriver, AcceptanceIsOwn, HandlerFits,
     Idle, Requests, Pcs, AllOps, Rows, NoRow, TripStatuses

-----------------------------------------------------------------------------
(* Where a step of h can lead its request.                                 *)

LEMMA IdleType == Idle \in Requests
  BY DEF Idle, Requests, Pcs

LEMMA IdleFits ==
  ASSUME NEW h \in Handlers, TypeOK, Finish(h) PROVE HandlerFits(h)'
  BY DEF HandlerFits, Idle, Finish, TypeOK

LEMMA GotoType ==
  ASSUME NEW q \in Requests, NEW pc \in Pcs PROVE [q EXCEPT !.pc = pc] \in Requests
  BY DEF Requests

LEMMA RetType ==
  ASSUME NEW q \in Requests, NEW pc \in Pcs, NEW ret \in {"none", "setDriver", "promote"}
  PROVE  [q EXCEPT !.pc = pc, !.ret = ret] \in Requests
  BY DEF Requests

LEMMA PickType ==
  ASSUME NEW q \in Requests, NEW d \in Drivers, NEW pc \in Pcs
  PROVE  [q EXCEPT !.driver = d, !.pc = pc] \in Requests
  BY DEF Requests

LEMMA SnapRetType ==
  ASSUME NEW q \in Requests, NEW pc \in Pcs,
         NEW ret \in {"none", "setDriver", "promote"},
         NEW snap \in TripStatuses \cup {"none"}
  PROVE  [q EXCEPT !.snap = snap, !.ret = ret, !.pc = pc] \in Requests
  <1>1. [q EXCEPT !.snap = snap] \in Requests
    BY DEF Requests
  <1>2. [[q EXCEPT !.snap = snap] EXCEPT !.pc = pc, !.ret = ret] \in Requests
    BY <1>1, RetType
  <1>3. [q EXCEPT !.snap = snap, !.ret = ret, !.pc = pc]
          = [[q EXCEPT !.snap = snap] EXCEPT !.pc = pc, !.ret = ret]
    BY DEF Requests
  <1> QED BY <1>2, <1>3

(* The frame of every step of h: the other requests still fit, provided     *)
(* rows are never deleted.                                                  *)
LEMMA FrameInv ==
  ASSUME IInv, NEW h \in Handlers, NEW q \in Requests,
         req' = [req EXCEPT ![h] = q], UNCHANGED <<online, spoke>>,
         tripStatus' \in [Trips -> TripStatuses],
         tripDriver' \in [Trips -> Drivers \cup {NoDriver}],
         asg' \in [Trips -> Rows],
         \A t \in Trips : asg[t] # NoRow => asg'[t] # NoRow,
         RowBeforeDriver', AcceptanceIsOwn', HandlerFits(h)'
  PROVE  IInv'
  <1>1. TypeOK'
    BY DEF IInv, TypeOK
  <1>2. ASSUME NEW g \in Handlers, g # h PROVE HandlerFits(g)'
    <2>1. req'[g] = req[g] /\ HandlerFits(g)
      BY <1>2 DEF IInv, TypeOK
    <2> QED BY <2>1 DEF HandlerFits
  <1> QED BY <1>1, <1>2 DEF IInv

(* A step of h that writes no table.                                       *)
LEMMA ReadInv ==
  ASSUME IInv, NEW h \in Handlers, NEW q \in Requests,
         req' = [req EXCEPT ![h] = q], UNCHANGED <<db, spoke>>, HandlerFits(h)'
  PROVE  IInv'
  <1>1. RowBeforeDriver' /\ AcceptanceIsOwn'
    BY DEF IInv, RowBeforeDriver, AcceptanceIsOwn, db
  <1>2. /\ UNCHANGED <<tripStatus, tripDriver, asg, online, spoke>>
        /\ TypeOK
    BY DEF IInv, db
  <1>3. /\ tripStatus' \in [Trips -> TripStatuses]
        /\ tripDriver' \in [Trips -> Drivers \cup {NoDriver}]
        /\ asg' \in [Trips -> Rows]
    BY <1>2 DEF TypeOK
  <1> QED BY <1>1, <1>2, <1>3, FrameInv

LEMMA FinishInv ==
  ASSUME IInv, NEW h \in Handlers, Finish(h), UNCHANGED <<db, spoke>> PROVE IInv'
  <1>1. HandlerFits(h)'
    BY IdleFits DEF IInv
  <1> QED BY <1>1, IdleType, ReadInv DEF Finish

-----------------------------------------------------------------------------
(* AssignNextAvailableDriver and AssignTrip                                *)

LEMMA PickDriverInv == ASSUME IInv, NEW h \in Handlers, PickDriver(h) PROVE IInv'
  <1>1. ASSUME NEW d \in FreeDrivers,
               req' = [req EXCEPT ![h].driver = d, ![h].pc = "getTrip"]
        PROVE  IInv'
    <2> DEFINE q == [req[h] EXCEPT !.driver = d, !.pc = "getTrip"]
    <2>1. d \in Drivers /\ req[h] \in Requests /\ HandlerFits(h) /\ req[h].pc = "pickDriver"
      BY DEF FreeDrivers, IInv, TypeOK, PickDriver, At
    <2>2. q \in Requests /\ req' = [req EXCEPT ![h] = q] /\ req'[h] = q
      BY <1>1, <2>1, PickType DEF Pcs, IInv, TypeOK
    <2>3. q.pc = "getTrip" /\ q.op = "next" /\ q.trip = req[h].trip /\ q.driver = d
            /\ q.ret = req[h].ret
      BY <2>1 DEF Requests, HandlerFits
    <2>4. HandlerFits(h)'
      BY <2>1, <2>2, <2>3 DEF HandlerFits
    <2> QED BY <2>2, <2>4, ReadInv DEF PickDriver
  <1> QED BY <1>1, FinishInv DEF PickDriver

(* Steps that only move the program counter.                               *)
LEMMA GotoFits ==
  ASSUME TypeOK, NEW h \in Handlers, HandlerFits(h), NEW pc \in Pcs, Goto(h, pc),
         spoke' = spoke, \A t \in Trips : asg[t] # NoRow => asg'[t] # NoRow,
         req[h].pc # "idle", req[h].pc # "pickDriver", pc # "pickDriver",
         pc \in {"accept", "acceptAgain"} => req[h].op = "accept",
         pc \in {"checkMove", "promote", "writeStatus", "release"} => req[h].op = "update",
         pc \in {"assignLookup", "assignInsert", "assignUpdate", "assignReread"}
           => req[h].ret \in {"setDriver", "promote"},
         pc \in {"setDriver", "assignUpdate", "assignReread"} => asg[req[h].trip] # NoRow
  PROVE  /\ HandlerFits(h)'
         /\ \E q \in Requests : req' = [req EXCEPT ![h] = q]
  <1> DEFINE q == [req[h] EXCEPT !.pc = pc]
  <1>1. req[h] \in Requests
    BY DEF TypeOK
  <1>2. q \in Requests /\ req' = [req EXCEPT ![h] = q] /\ req'[h] = q
    BY <1>1, GotoType DEF TypeOK, Goto
  <1>3. q.pc = pc /\ q.op = req[h].op /\ q.trip = req[h].trip /\ q.driver = req[h].driver
          /\ q.ret = req[h].ret /\ q.next = req[h].next
    BY <1>1 DEF Requests
  <1> HIDE DEF q
  <1>4. HandlerFits(h)'
    BY <1>1, <1>2, <1>3 DEF HandlerFits
  <1> QED BY <1>2, <1>4

LEMMA GotoInv ==
  ASSUME IInv, NEW h \in Handlers, NEW pc \in Pcs, Goto(h, pc), UNCHANGED <<db, spoke>>,
         req[h].pc # "idle", req[h].pc # "pickDriver", pc # "pickDriver",
         pc \in {"accept", "acceptAgain"} => req[h].op = "accept",
         pc \in {"checkMove", "promote", "writeStatus", "release"} => req[h].op = "update",
         pc \in {"assignLookup", "assignInsert", "assignUpdate", "assignReread"}
           => req[h].ret \in {"setDriver", "promote"},
         pc \in {"setDriver", "assignUpdate", "assignReread"} => asg[req[h].trip] # NoRow
  PROVE  IInv'
  <1>1. HandlerFits(h)' /\ \E q \in Requests : req' = [req EXCEPT ![h] = q]
    BY GotoFits DEF IInv, db
  <1> QED BY <1>1, ReadInv

LEMMA AssignGetTripInv == ASSUME IInv, NEW h \in Handlers, AssignGetTrip(h) PROVE IInv'
  BY GotoInv DEF AssignGetTrip, At, Pcs

LEMMA CheckOnlineInv == ASSUME IInv, NEW h \in Handlers, CheckOnline(h) PROVE IInv'
  BY GotoInv, FinishInv DEF CheckOnline, At, Pcs

LEMMA CheckActiveInv == ASSUME IInv, NEW h \in Handlers, CheckActive(h) PROVE IInv'
  <1>1. ASSUME req' = [req EXCEPT ![h].pc = "assignLookup", ![h].ret = "setDriver"]
        PROVE  IInv'
    <2> DEFINE q == [req[h] EXCEPT !.pc = "assignLookup", !.ret = "setDriver"]
    <2>1. req[h] \in Requests /\ HandlerFits(h) /\ req[h].pc = "checkActive"
      BY DEF IInv, TypeOK, CheckActive, At
    <2>2. q \in Requests /\ req' = [req EXCEPT ![h] = q] /\ req'[h] = q
      BY <1>1, <2>1, RetType DEF Pcs, IInv, TypeOK
    <2>3. q.pc = "assignLookup" /\ q.op = req[h].op /\ q.trip = req[h].trip
            /\ q.driver = req[h].driver /\ q.ret = "setDriver" /\ q.next = req[h].next
      BY <2>1 DEF Requests
    <2>4. HandlerFits(h)'
      BY <2>1, <2>2, <2>3 DEF HandlerFits, CheckActive
    <2> QED BY <2>2, <2>4, ReadInv DEF CheckActive
  <1> QED BY <1>1, FinishInv DEF CheckActive

LEMMA AssignLookupInv == ASSUME IInv, NEW h \in Handlers, AssignLookup(h) PROVE IInv'
  <1>1. req[h].pc = "assignLookup" /\ req[h].ret \in {"setDriver", "promote"}
    BY DEF AssignLookup, At, IInv, HandlerFits
  <1>2. CASE asg[req[h].trip] = NoRow
    BY <1>1, <1>2, GotoInv DEF AssignLookup, Pcs
  <1>3. CASE asg[req[h].trip] # NoRow
    BY <1>1, <1>3, GotoInv DEF AssignLookup, Pcs
  <1> QED BY <1>2, <1>3

(* Assign has the row and goes back to its caller.                         *)
LEMMA AfterAssignFits ==
  ASSUME TypeOK, NEW h \in Handlers, HandlerFits(h), NEW seen, AfterAssign(h, seen),
         req[h].pc \in {"assignInsert", "assignReread"}, spoke' = spoke,
         asg'[req[h].trip] # NoRow
  PROVE  /\ HandlerFits(h)'
         /\ \E q \in Requests : req' = [req EXCEPT ![h] = q]
  <1> DEFINE pc == IF req[h].ret = "setDriver" THEN "setDriver"
                   ELSE IF Promotes(h, seen) THEN "promote" ELSE "writeStatus"
             q == [req[h] EXCEPT !.pc = pc, !.ret = "none"]
  <1>1. req[h] \in Requests
    BY DEF TypeOK
  <1>2. pc \in {"setDriver", "promote", "writeStatus"} /\ pc \in Pcs
    BY DEF Pcs
  <1>3. q \in Requests
    BY <1>1, <1>2, RetType
  <1>4. req' = [req EXCEPT ![h] = q] /\ req'[h] = q
    BY <1>1 DEF AfterAssign, TypeOK
  <1>5. q.pc = pc /\ q.op = req[h].op /\ q.trip = req[h].trip
          /\ q.driver = req[h].driver /\ q.ret = "none" /\ q.next = req[h].next
    BY <1>1 DEF Requests
  <1>6. pc # "setDriver" => req[h].op = "update"
    BY DEF HandlerFits
  <1> HIDE DEF pc, q
  <1>7. HandlerFits(h)'
    BY <1>2, <1>4, <1>5, <1>6 DEF HandlerFits
  <1> QED BY <1>3, <1>4, <1>7

LEMMA AssignInsertInv == ASSUME IInv, NEW h \in Handlers, AssignInsert(h) PROVE IInv'
  <1> DEFINE t == req[h].trip
  <1>0. /\ TypeOK /\ HandlerFits(h) /\ req[h].pc = "assignInsert"
        /\ t \in Trips /\ req[h].driver \in Drivers
    BY DEF IInv, AssignInsert, At, HandlerFits
  <1>1. CASE asg[t] = NoRow
    <2>1. asg' = [asg EXCEPT ![t] = PendingRow(req[h].driver)] /\ AfterAssign(h, "pending")
      BY <1>1 DEF AssignInsert
    <2>2. PendingRow(req[h].driver) \in Rows /\ PendingRow(req[h].driver) # NoRow
      BY <1>0, ConstantsOK DEF PendingRow, Rows, AsgStatuses, NoRow
    <2>3. asg' \in [Trips -> Rows] /\ \A u \in Trips : asg[u] # NoRow => asg'[u] # NoRow
      BY <1>0, <2>1, <2>2 DEF TypeOK
    <2>4. asg'[t] # NoRow
      BY <1>0, <2>1, <2>2 DEF TypeOK
    <2>5. HandlerFits(h)' /\ \E q \in Requests : req' = [req EXCEPT ![h] = q]
      BY <1>0, <2>1, <2>4, AfterAssignFits DEF AssignInsert
    <2>6. RowBeforeDriver'
      BY <2>3 DEF IInv, RowBeforeDriver, AssignInsert
    <2>7. AcceptanceIsOwn'
      BY <1>0, <2>1 DEF IInv, AcceptanceIsOwn, AssignInsert, PendingRow, TypeOK
    <2>8. UNCHANGED <<online, spoke, tripStatus, tripDriver>>
      BY DEF AssignInsert
    <2>9. /\ tripStatus' \in [Trips -> TripStatuses]
          /\ tripDriver' \in [Trips -> Drivers \cup {NoDriver}]
      BY <1>0, <2>8 DEF TypeOK
    <2> QED BY <2>3, <2>5, <2>6, <2>7, <2>8, <2>9, FrameInv
  <1>2. CASE asg[t] # NoRow
    BY <1>2, FinishInv DEF AssignInsert, db
  <1> QED BY <1>1, <1>2

LEMMA AssignUpdateInv == ASSUME IInv, NEW h \in Handlers, AssignUpdate(h) PROVE IInv'
  <1> DEFINE t == req[h].trip
             q == [req[h] EXCEPT !.pc = "assignReread"]
  <1>0. /\ TypeOK /\ HandlerFits(h) /\ req[h].pc = "assignUpdate" /\ req[h] \in Requests
        /\ t \in Trips /\ req[h].driver \in Drivers
    BY DEF IInv, AssignUpdate, At, HandlerFits, TypeOK
  <1>1. PendingRow(req[h].driver) \in Rows /\ PendingRow(req[h].driver) # NoRow
    BY <1>0, ConstantsOK DEF PendingRow, Rows, AsgStatuses, NoRow
  <1>2. asg' = [asg EXCEPT ![t] = PendingRow(req[h].driver)]
    BY DEF AssignUpdate
  <1>3. asg' \in [Trips -> Rows] /\ \A u \in Trips : asg[u] # NoRow => asg'[u] # NoRow
    BY <1>0, <1>1, <1>2 DEF TypeOK
  <1>4. q \in Requests /\ req' = [req EXCEPT ![h] = q] /\ req'[h] = q
    BY <1>0, GotoType DEF Pcs, TypeOK, AssignUpdate, Goto
  <1>5. q.pc = "assignReread" /\ q.op = req[h].op /\ q.trip = req[h].trip
          /\ q.driver = req[h].driver /\ q.ret = req[h].ret /\ q.next = req[h].next
    BY <1>0 DEF Requests
  <1>6. UNCHANGED <<online, spoke, tripStatus, tripDriver>>
    BY DEF AssignUpdate
  <1>7. HandlerFits(h)'
    BY <1>0, <1>3, <1>4, <1>5, <1>6 DEF HandlerFits
  <1>8. RowBeforeDriver'
    BY <1>3, <1>6 DEF IInv, RowBeforeDriver
  <1>9. AcceptanceIsOwn'
    BY <1>0, <1>2, <1>6 DEF IInv, AcceptanceIsOwn, PendingRow, TypeOK
  <1>10. /\ tripStatus' \in [Trips -> TripStatuses]
         /\ tripDriver' \in [Trips -> Drivers \cup {NoDriver}]
    BY <1>0, <1>6 DEF TypeOK
  <1> QED BY <1>3, <1>4, <1>6, <1>7, <1>8, <1>9, <1>10, FrameInv

LEMMA AssignRereadInv == ASSUME IInv, NEW h \in Handlers, AssignReread(h) PROVE IInv'
  <1>1. /\ TypeOK /\ HandlerFits(h) /\ req[h].pc = "assignReread"
        /\ asg'[req[h].trip] # NoRow
    BY DEF IInv, AssignReread, At, HandlerFits, db
  <1>2. HandlerFits(h)' /\ \E q \in Requests : req' = [req EXCEPT ![h] = q]
    BY <1>1, AfterAssignFits DEF AssignReread
  <1> QED BY <1>2, ReadInv DEF AssignReread

(* A step that writes trips.driver_id or trips.status and leaves the row.  *)
LEMMA TripWriteInv ==
  ASSUME IInv, NEW h \in Handlers, NEW q \in Requests, req' = [req EXCEPT ![h] = q],
         UNCHANGED <<asg, online, spoke>>, HandlerFits(h)',
         tripStatus' \in [Trips -> TripStatuses],
         tripDriver' \in [Trips -> Drivers \cup {NoDriver}],
         \A t \in Trips : tripDriver'[t] # NoDriver => tripDriver[t] # NoDriver \/ asg[t] # NoRow
  PROVE  IInv'
  <1>1. RowBeforeDriver' /\ AcceptanceIsOwn'
    BY DEF IInv, RowBeforeDriver, AcceptanceIsOwn
  <1>2. asg' \in [Trips -> Rows] /\ \A t \in Trips : asg[t] # NoRow => asg'[t] # NoRow
    BY DEF IInv, TypeOK
  <1> QED BY <1>1, <1>2, FrameInv

LEMMA SetDriverInv == ASSUME IInv, NEW h \in Handlers, SetDriver(h) PROVE IInv'
  <1> DEFINE t == req[h].trip
  <1>1. /\ TypeOK /\ HandlerFits(h) /\ req[h].pc = "setDriver" /\ t \in Trips
        /\ req[h].driver \in Drivers /\ asg[t] # NoRow
    BY DEF IInv, SetDriver, At, HandlerFits
  <1>2. tripDriver' = [tripDriver EXCEPT ![t] = req[h].driver]
          /\ UNCHANGED <<tripStatus, asg, online, spoke>>
    BY DEF SetDriver
  <1>3. HandlerFits(h)' /\ \E q \in Requests : req' = [req EXCEPT ![h] = q]
    <2>1. CASE Finish(h)
      BY <1>1, <2>1, IdleFits, IdleType DEF Finish
    <2>2. CASE Goto(h, "acceptAgain") /\ req[h].op = "accept"
      BY <1>1, <1>2, <2>2, GotoFits DEF Pcs
    <2>3. CASE Goto(h, "checkMove") /\ req[h].op = "update"
      BY <1>1, <1>2, <2>3, GotoFits DEF Pcs
    <2> QED BY <2>1, <2>2, <2>3 DEF SetDriver
  <1>4. tripStatus' \in [Trips -> TripStatuses]
          /\ tripDriver' \in [Trips -> Drivers \cup {NoDriver}]
    BY <1>1, <1>2 DEF TypeOK
  <1>5. \A u \in Trips : tripDriver'[u] # NoDriver => tripDriver[u] # NoDriver \/ asg[u] # NoRow
    BY <1>1, <1>2 DEF TypeOK
  <1> QED BY <1>2, <1>3, <1>4, <1>5, TripWriteInv

-----------------------------------------------------------------------------
(* AcceptTrip, DeclineTrip and UpdateTripStatus                            *)

(* What UpdateStatus on a matching row keeps.                              *)
LEMMA RowWrite ==
  ASSUME IInv, NEW t \in Trips, NEW d \in Drivers, RowMatches(t, d),
         NEW s \in AsgStatuses, SetAsgStatus(t, s), UNCHANGED <<tripDriver, spoke>>,
         s = "accepted" => d \in spoke[t]
  PROVE  /\ asg' \in [Trips -> Rows]
         /\ \A u \in Trips : asg[u] # NoRow => asg'[u] # NoRow
         /\ RowBeforeDriver' /\ AcceptanceIsOwn'
  <1>1. asg \in [Trips -> Rows] /\ asg[t] \in Rows /\ asg[t].driver = d /\ d # NoDriver
    BY ConstantsOK DEF IInv, TypeOK, RowMatches
  <1> DEFINE row == [asg[t] EXCEPT !.status = s]
  <1>2. asg[t] \in [driver : Drivers, status : AsgStatuses]
    BY <1>1 DEF Rows, NoRow
  <1>3. row \in [driver : Drivers, status : AsgStatuses] /\ row.driver = d /\ row.status = s
    BY <1>1, <1>2
  <1>4. asg' = [asg EXCEPT ![t] = row]
    BY <1>1 DEF SetAsgStatus
  <1>5. row \in Rows /\ row # NoRow
    BY <1>1, <1>3 DEF Rows, NoRow
  <1> HIDE DEF row
  <1>6. asg' \in [Trips -> Rows]
    BY <1>1, <1>4, <1>5
  <1>7. \A u \in Trips : asg[u] # NoRow => asg'[u] # NoRow
    BY <1>1, <1>4, <1>5
  <1>8. RowBeforeDriver'
    BY <1>7 DEF IInv, RowBeforeDriver
  <1>9. ASSUME NEW u \in Trips, asg'[u].status = "accepted" PROVE asg'[u].driver \in spoke[u]
    <2>1. CASE u = t
      BY <1>1, <1>3, <1>4, <1>9, <2>1
    <2>2. CASE u # t
      BY <1>1, <1>4, <1>9, <2>2 DEF IInv, AcceptanceIsOwn
    <2> QED BY <2>1, <2>2
  <1> QED BY <1>6, <1>7, <1>8, <1>9 DEF AcceptanceIsOwn

(* A step that writes the status of the row, or finds no matching row and   *)
(* leaves the tables alone.                                                 *)
LEMMA RowStepInv ==
  ASSUME IInv, NEW h \in Handlers, NEW q \in Requests, req' = [req EXCEPT ![h] = q],
         req[h].trip \in Trips, req[h].driver \in Drivers, NEW s \in AsgStatuses,
         \/ RowMatches(req[h].trip, req[h].driver) /\ SetAsgStatus(req[h].trip, s)
         \/ UNCHANGED asg,
         UNCHANGED <<tripStatus, tripDriver, online, spoke>>,
         s = "accepted" => req[h].driver \in spoke[req[h].trip],
         (\A t \in Trips : asg[t] # NoRow => asg'[t] # NoRow) => HandlerFits(h)'
  PROVE  IInv'
  <1>1. /\ asg' \in [Trips -> Rows]
        /\ \A u \in Trips : asg[u] # NoRow => asg'[u] # NoRow
        /\ RowBeforeDriver' /\ AcceptanceIsOwn'
    <2>1. CASE RowMatches(req[h].trip, req[h].driver) /\ SetAsgStatus(req[h].trip, s)
      BY <2>1, RowWrite
    <2>2. CASE UNCHANGED asg
      BY <2>2 DEF IInv, TypeOK, RowBeforeDriver, AcceptanceIsOwn
    <2> QED BY <2>1, <2>2
  <1>2. tripStatus' \in [Trips -> TripStatuses]
          /\ tripDriver' \in [Trips -> Drivers \cup {NoDriver}]
    BY DEF IInv, TypeOK
  <1> QED BY <1>1, <1>2, FrameInv

LEMMA AcceptAgainInv == ASSUME IInv, NEW h \in Handlers, AcceptAgain(h) PROVE IInv'
  <1>1. /\ TypeOK /\ HandlerFits(h) /\ req[h].pc = "acceptAgain" /\ req[h].op = "accept"
        /\ req[h].trip \in Trips /\ req[h].driver \in Drivers
        /\ req[h].driver \in spoke[req[h].trip]
    BY DEF IInv, AcceptAgain, At, HandlerFits
  <1>2. CASE RowMatches(req[h].trip, req[h].driver)
    <2>1. Goto(h, "acceptTrip") /\ SetAsgStatus(req[h].trip, "accepted")
            /\ UNCHANGED <<tripStatus, tripDriver, online, spoke>>
      BY <1>2 DEF AcceptAgain
    <2>2. (\A t \in Trips : asg[t] # NoRow => asg'[t] # NoRow) => HandlerFits(h)'
      BY <1>1, <2>1, GotoFits DEF Pcs
    <2>3. \E q \in Requests : req' = [req EXCEPT ![h] = q]
      BY <1>1, <2>1, GotoType DEF Goto, Pcs, TypeOK
    <2> QED BY <1>1, <1>2, <2>1, <2>2, <2>3, RowStepInv DEF AsgStatuses
  <1>3. CASE ~RowMatches(req[h].trip, req[h].driver)
    BY <1>3, FinishInv DEF AcceptAgain, db
  <1> QED BY <1>2, <1>3

LEMMA AcceptInv == ASSUME IInv, NEW h \in Handlers, Accept(h) PROVE IInv'
  <1>1. /\ TypeOK /\ HandlerFits(h) /\ req[h].pc = "accept" /\ req[h].op = "accept"
        /\ req[h] \in Requests
        /\ req[h].trip \in Trips /\ req[h].driver \in Drivers
        /\ req[h].driver \in spoke[req[h].trip]
    BY DEF IInv, Accept, At, HandlerFits, TypeOK
  <1>2. CASE RowMatches(req[h].trip, req[h].driver)
    <2>1. Goto(h, "acceptTrip") /\ SetAsgStatus(req[h].trip, "accepted")
            /\ UNCHANGED <<tripStatus, tripDriver, online, spoke>>
      BY <1>2 DEF Accept
    <2>2. (\A t \in Trips : asg[t] # NoRow => asg'[t] # NoRow) => HandlerFits(h)'
      BY <1>1, <2>1, GotoFits DEF Pcs
    <2>3. \E q \in Requests : req' = [req EXCEPT ![h] = q]
      BY <1>1, <2>1, GotoType DEF Goto, Pcs
    <2> QED BY <1>1, <1>2, <2>1, <2>2, <2>3, RowStepInv DEF AsgStatuses
  <1>3. CASE ~RowMatches(req[h].trip, req[h].driver)
    <2> DEFINE q == [req[h] EXCEPT !.pc = "assignLookup", !.ret = "setDriver"]
    <2>1. req' = [req EXCEPT ![h] = q] /\ UNCHANGED <<db, spoke>>
      BY <1>3 DEF Accept, db
    <2>2. q \in Requests /\ req'[h] = q
      BY <1>1, <2>1, RetType DEF Pcs, TypeOK
    <2>3. q.pc = "assignLookup" /\ q.op = req[h].op /\ q.trip = req[h].trip
            /\ q.driver = req[h].driver /\ q.ret = "setDriver" /\ q.next = req[h].next
      BY <1>1 DEF Requests
    <2> HIDE DEF q
    <2>4. HandlerFits(h)'
      BY <1>1, <2>1, <2>2, <2>3 DEF HandlerFits
    <2> QED BY <2>1, <2>2, <2>4, ReadInv
  <1> QED BY <1>2, <1>3

LEMMA AcceptTripInv == ASSUME IInv, NEW h \in Handlers, AcceptTrip(h) PROVE IInv'
  <1>1. TypeOK /\ HandlerFits(h)'
    BY IdleFits DEF IInv, AcceptTrip
  <1>2. tripStatus' \in [Trips -> TripStatuses]
          /\ tripDriver' \in [Trips -> Drivers \cup {NoDriver}]
    BY <1>1 DEF AcceptTrip, TypeOK, TripStatuses
  <1> QED BY <1>1, <1>2, IdleType, TripWriteInv DEF AcceptTrip, Finish

LEMMA DeclineInv == ASSUME IInv, NEW h \in Handlers, Decline(h) PROVE IInv'
  <1>1. /\ TypeOK /\ HandlerFits(h) /\ req[h].pc = "decline" /\ req[h] \in Requests
        /\ req[h].trip \in Trips /\ req[h].driver \in Drivers
    BY DEF IInv, Decline, At, HandlerFits, TypeOK
  <1>2. Goto(h, "clearDriver") /\ UNCHANGED <<tripStatus, tripDriver, online, spoke>>
    BY DEF Decline
  <1>3. (\A t \in Trips : asg[t] # NoRow => asg'[t] # NoRow) => HandlerFits(h)'
    BY <1>1, <1>2, GotoFits DEF Pcs
  <1>4. \E q \in Requests : req' = [req EXCEPT ![h] = q]
    BY <1>1, <1>2, GotoType DEF Goto, Pcs
  <1>5. \/ RowMatches(req[h].trip, req[h].driver) /\ SetAsgStatus(req[h].trip, "declined")
        \/ UNCHANGED asg
    BY DEF Decline
  <1> QED BY <1>1, <1>2, <1>3, <1>4, <1>5, RowStepInv DEF AsgStatuses

LEMMA ClearDriverInv == ASSUME IInv, NEW h \in Handlers, ClearDriver(h) PROVE IInv'
  <1>1. TypeOK /\ HandlerFits(h)'
    BY IdleFits DEF IInv, ClearDriver
  <1>2. /\ tripStatus' \in [Trips -> TripStatuses]
        /\ tripDriver' \in [Trips -> Drivers \cup {NoDriver}]
        /\ \A u \in Trips : tripDriver'[u] # NoDriver => tripDriver[u] # NoDriver
    BY <1>1 DEF ClearDriver, TypeOK
  <1> QED BY <1>1, <1>2, IdleType, TripWriteInv DEF ClearDriver, Finish

(* The steps of UpdateTripStatus that keep a snapshot, a return point or    *)
(* neither.                                                                 *)
LEMMA SnapInv ==
  ASSUME IInv, NEW h \in Handlers, NEW pc \in Pcs,
         NEW ret \in {"none", "setDriver", "promote"},
         NEW snap \in TripStatuses \cup {"none"},
         req' = [req EXCEPT ![h].snap = snap, ![h].ret = ret, ![h].pc = pc],
         UNCHANGED <<db, spoke>>,
         req[h].op = "update", req[h].pc \notin {"idle", "pickDriver"},
         pc \in {"checkMove", "promote", "writeStatus", "assignLookup"},
         pc = "assignLookup" => ret # "none"
  PROVE  IInv'
  <1> DEFINE q == [req[h] EXCEPT !.snap = snap, !.ret = ret, !.pc = pc]
  <1>1. req[h] \in Requests /\ HandlerFits(h) /\ TypeOK
    BY DEF IInv, TypeOK
  <1>2. q \in Requests /\ req' = [req EXCEPT ![h] = q] /\ req'[h] = q
    BY <1>1, SnapRetType DEF TypeOK
  <1>3. q.pc = pc /\ q.op = req[h].op /\ q.trip = req[h].trip /\ q.driver = req[h].driver
          /\ q.ret = ret /\ q.next = req[h].next
    BY <1>1 DEF Requests
  <1> HIDE DEF q
  <1>4. HandlerFits(h)'
    BY <1>1, <1>2, <1>3 DEF HandlerFits
  <1> QED BY <1>2, <1>4, ReadInv

LEMMA UpdateGetTripInv == ASSUME IInv, NEW h \in Handlers, UpdateGetTrip(h) PROVE IInv'
  <1> DEFINE t == req[h].trip
             snap == tripStatus[t]
             ret == IF tripDriver[t] = req[h].driver THEN "none" ELSE "setDriver"
             pc == IF tripDriver[t] = req[h].driver THEN "checkMove" ELSE "assignLookup"
  <1>1. TypeOK /\ HandlerFits(h) /\ req[h].pc = "getTrip" /\ req[h].op = "update" /\ t \in Trips
    BY DEF IInv, UpdateGetTrip, At, HandlerFits
  <1>2. req' = [req EXCEPT ![h].snap = snap, ![h].ret = ret, ![h].pc = pc]
    BY DEF UpdateGetTrip
  <1>3. /\ snap \in TripStatuses \cup {"none"}
        /\ ret \in {"none", "setDriver", "promote"}
        /\ pc \in Pcs /\ pc \in {"checkMove", "assignLookup"}
        /\ pc = "assignLookup" => ret # "none"
    BY <1>1 DEF TypeOK, Pcs
  <1> HIDE DEF snap, ret, pc
  <1> QED BY <1>1, <1>2, <1>3, SnapInv DEF UpdateGetTrip

LEMMA CheckMoveInv == ASSUME IInv, NEW h \in Handlers, CheckMove(h) PROVE IInv'
  <1>1. /\ HandlerFits(h) /\ req[h].pc = "checkMove" /\ req[h].op = "update"
        /\ UNCHANGED <<db, spoke>>
    BY DEF IInv, CheckMove, At, HandlerFits
  <1>2. CASE Finish(h)
    BY <1>1, <1>2, FinishInv
  <1>3. ASSUME NEW pc \in {"promote", "writeStatus", "assignLookup"},
               NEW ret \in {"none", "promote"}, pc = "assignLookup" => ret # "none",
               req' = [req EXCEPT ![h].snap = "none", ![h].ret = ret, ![h].pc = pc]
        PROVE  IInv'
    BY <1>1, <1>3, SnapInv DEF Pcs
  <1>4. \/ Finish(h)
        \/ \E pc \in {"promote", "writeStatus"} :
             req' = [req EXCEPT ![h].snap = "none", ![h].ret = "none", ![h].pc = pc]
        \/ req' = [req EXCEPT ![h].snap = "none", ![h].ret = "promote", ![h].pc = "assignLookup"]
    BY DEF CheckMove
  <1> QED BY <1>2, <1>3, <1>4

LEMMA PromoteInv == ASSUME IInv, NEW h \in Handlers, Promote(h) PROVE IInv'
  <1>1. /\ TypeOK /\ HandlerFits(h) /\ req[h].pc = "promote" /\ req[h].op = "update"
        /\ req[h] \in Requests
        /\ req[h].trip \in Trips /\ req[h].driver \in Drivers
        /\ req[h].driver \in spoke[req[h].trip]
    BY DEF IInv, Promote, At, HandlerFits, TypeOK
  <1>2. CASE RowMatches(req[h].trip, req[h].driver)
    <2>1. Goto(h, "writeStatus") /\ SetAsgStatus(req[h].trip, "accepted")
            /\ UNCHANGED <<tripStatus, tripDriver, online, spoke>>
      BY <1>2 DEF Promote
    <2>2. (\A t \in Trips : asg[t] # NoRow => asg'[t] # NoRow) => HandlerFits(h)'
      BY <1>1, <2>1, GotoFits DEF Pcs
    <2>3. \E q \in Requests : req' = [req EXCEPT ![h] = q]
      BY <1>1, <2>1, GotoType DEF Goto, Pcs
    <2> QED BY <1>1, <1>2, <2>1, <2>2, <2>3, RowStepInv DEF AsgStatuses
  <1>3. CASE ~RowMatches(req[h].trip, req[h].driver)
    BY <1>3, FinishInv DEF Promote, db
  <1> QED BY <1>2, <1>3

LEMMA WriteStatusInv == ASSUME IInv, NEW h \in Handlers, WriteStatus(h) PROVE IInv'
  <1>1. /\ TypeOK /\ HandlerFits(h) /\ req[h].pc = "writeStatus" /\ req[h].op = "update"
        /\ req[h] \in Requests /\ req[h].trip \in Trips /\ req[h].next \in Targets
    BY DEF IInv, WriteStatus, At, HandlerFits, TypeOK
  <1>2. tripStatus' \in [Trips -> TripStatuses]
          /\ tripDriver' \in [Trips -> Drivers \cup {NoDriver}]
    BY <1>1 DEF WriteStatus, TypeOK, TripStatuses, Targets
  <1>3. HandlerFits(h)' /\ \E q \in Requests : req' = [req EXCEPT ![h] = q]
    <2>1. CASE Finish(h)
      BY <1>1, <2>1, IdleFits, IdleType DEF Finish
    <2>2. CASE Goto(h, "release")
      BY <1>1, <2>2, GotoFits DEF Pcs, WriteStatus
    <2> QED BY <2>1, <2>2 DEF WriteStatus
  <1> QED BY <1>2, <1>3, TripWriteInv DEF WriteStatus

LEMMA ReleaseInv == ASSUME IInv, NEW h \in Handlers, Release(h) PROVE IInv'
  <1>1. /\ TypeOK /\ HandlerFits(h) /\ req[h].pc = "release"
        /\ req[h].trip \in Trips /\ req[h].driver \in Drivers
    BY DEF IInv, Release, At, HandlerFits
  <1>2. Finish(h) /\ UNCHANGED <<tripStatus, tripDriver, online, spoke>>
    BY DEF Release
  <1>3. HandlerFits(h)' /\ \E q \in Requests : req' = [req EXCEPT ![h] = q]
    BY <1>1, <1>2, IdleFits, IdleType DEF Finish
  <1>4. \/ RowMatches(req[h].trip, req[h].driver) /\ SetAsgStatus(req[h].trip, "cancelled")
        \/ UNCHANGED asg
    BY DEF Release
  <1> QED BY <1>1, <1>2, <1>3, <1>4, RowStepInv DEF AsgStatuses

LEMMA FailInv == ASSUME IInv, NEW h \in Handlers, Fail(h) PROVE IInv'
  BY FinishInv DEF Fail

-----------------------------------------------------------------------------
(* Requests arrive, and the writes that are no request of a handler.        *)

(* The speaker of an accept or an update is recorded as the request starts. *)
LEMMA ServeInv ==
  ASSUME IInv, NEW h \in Handlers, NEW op \in AllOps, NEW t \in Trips,
         NEW d \in Drivers \cup {NoDriver}, NEW next \in Targets \cup {"none"},
         NEW pc \in {"pickDriver", "getTrip", "accept", "decline"},
         Serve(h, op, t, d, next, pc),
         spoke' \in [Trips -> SUBSET Drivers],
         \A u \in Trips : spoke[u] \subseteq spoke'[u],
         op \in {"accept", "update"} => d \in spoke'[t],
         op = "update" => next \in Targets,
         pc = "pickDriver" <=> op = "next",
         pc = "accept" => op = "accept",
         pc # "pickDriver" => d \in Drivers
  PROVE  IInv'
  <1> DEFINE q == [pc |-> pc, op |-> op, trip |-> t, driver |-> d, next |-> next,
                   snap |-> "none", ret |-> "none"]
  <1>1. q \in Requests
    BY DEF Requests, Pcs
  <1>2. req' = [req EXCEPT ![h] = q] /\ UNCHANGED <<tripStatus, tripDriver, asg, online>>
    BY DEF Serve, db
  <1>3. TypeOK' /\ RowBeforeDriver'
    BY <1>1, <1>2 DEF IInv, TypeOK, RowBeforeDriver
  <1>4. AcceptanceIsOwn'
    BY <1>2 DEF IInv, AcceptanceIsOwn
  <1>5. HandlerFits(h)'
    <2>1. req'[h] = q
      BY <1>2 DEF IInv, TypeOK
    <2>2. q.pc = pc /\ q.op = op /\ q.trip = t /\ q.driver = d /\ q.next = next
            /\ q.ret = "none"
      OBVIOUS
    <2> HIDE DEF q
    <2> QED BY <2>1, <2>2 DEF HandlerFits
  <1>6. ASSUME NEW g \in Handlers, g # h PROVE HandlerFits(g)'
    <2>1. req'[g] = req[g] /\ HandlerFits(g)
      BY <1>2, <1>6 DEF IInv, TypeOK
    <2> QED BY <1>2, <2>1 DEF HandlerFits
  <1> QED BY <1>3, <1>4, <1>5, <1>6 DEF IInv

LEMMA StartInv == ASSUME IInv, NEW h \in Handlers, Start(h) PROVE IInv'
  <1>1. PICK t \in Trips :
          \/ StartAssignNext(h, t)
          \/ \E d \in Drivers :
               \/ StartAssign(h, t, d)
               \/ StartAccept(h, t, d)
               \/ StartDecline(h, t, d)
               \/ \E next \in Targets : StartUpdate(h, t, d, next)
    BY DEF Start
  <1>2. spoke \in [Trips -> SUBSET Drivers]
    BY DEF IInv, TypeOK
  <1>3. ASSUME StartAssignNext(h, t) PROVE IInv'
    BY <1>2, <1>3, ServeInv DEF StartAssignNext, AllOps
  <1>4. ASSUME NEW d \in Drivers, StartAssign(h, t, d) PROVE IInv'
    BY <1>2, <1>4, ServeInv DEF StartAssign, AllOps
  <1>5. ASSUME NEW d \in Drivers, StartDecline(h, t, d) PROVE IInv'
    BY <1>2, <1>5, ServeInv DEF StartDecline, AllOps
  <1>6. ASSUME NEW d \in Drivers, spoke' = [spoke EXCEPT ![t] = @ \cup {d}]
        PROVE  /\ spoke' \in [Trips -> SUBSET Drivers]
               /\ \A u \in Trips : spoke[u] \subseteq spoke'[u]
               /\ d \in spoke'[t]
    BY <1>2, <1>6
  <1>7. ASSUME NEW d \in Drivers, StartAccept(h, t, d) PROVE IInv'
    <2>1. Serve(h, "accept", t, d, "none", "accept")
      BY <1>7 DEF StartAccept
    <2> QED BY <1>6, <1>7, <2>1, ServeInv DEF StartAccept, AllOps
  <1>8. ASSUME NEW d \in Drivers, NEW next \in Targets, StartUpdate(h, t, d, next) PROVE IInv'
    <2>1. Serve(h, "update", t, d, next, "getTrip")
      BY <1>8 DEF StartUpdate
    <2> QED BY <1>6, <1>8, <2>1, ServeInv DEF StartUpdate, AllOps
  <1> QED BY <1>1, <1>3, <1>4, <1>5, <1>7, <1>8

LEMMA PatchStatusInv ==
  ASSUME IInv, NEW t \in Trips, NEW s \in TripStatuses, PatchStatus(t, s) PROVE IInv'
  <1>1. TypeOK' /\ RowBeforeDriver' /\ AcceptanceIsOwn'
    BY DEF IInv, PatchStatus, TypeOK, RowBeforeDriver, AcceptanceIsOwn
  <1>2. \A h \in Handlers : HandlerFits(h)'
    BY DEF IInv, PatchStatus, HandlerFits
  <1> QED BY <1>1, <1>2 DEF IInv

LEMMA UpdateAvailabilityInv ==
  ASSUME IInv, NEW d \in Drivers, UpdateAvailability(d) PROVE IInv'
  <1>1. TypeOK' /\ RowBeforeDriver' /\ AcceptanceIsOwn'
    BY DEF IInv, UpdateAvailability, TypeOK, RowBeforeDriver, AcceptanceIsOwn
  <1>2. \A h \in Handlers : HandlerFits(h)'
    BY DEF IInv, UpdateAvailability, HandlerFits
  <1> QED BY <1>1, <1>2 DEF IInv

LEMMA StutterInv == IInv /\ UNCHANGED vars => IInv'
  <1> SUFFICES ASSUME IInv, UNCHANGED vars PROVE IInv'
    OBVIOUS
  <1>1. UNCHANGED <<tripStatus, tripDriver, asg, online, req, spoke>>
    BY DEF vars
  <1>2. TypeOK' /\ RowBeforeDriver' /\ AcceptanceIsOwn'
    BY <1>1 DEF IInv, TypeOK, RowBeforeDriver, AcceptanceIsOwn
  <1>3. \A h \in Handlers : HandlerFits(h)'
    BY <1>1 DEF IInv, HandlerFits
  <1> QED BY <1>2, <1>3 DEF IInv

-----------------------------------------------------------------------------
LEMMA NextIInv == IInv /\ [Next]_vars => IInv'
  <1> SUFFICES ASSUME IInv, [Next]_vars PROVE IInv'
    OBVIOUS
  <1>1. ASSUME NEW h \in Handlers, Start(h) PROVE IInv'
    BY <1>1, StartInv
  <1>2. ASSUME NEW h \in Handlers, Step(h) PROVE IInv'
    BY <1>2, PickDriverInv, AssignGetTripInv, CheckOnlineInv, CheckActiveInv,
       AssignLookupInv, AssignInsertInv, AssignUpdateInv, AssignRereadInv, SetDriverInv,
       AcceptInv, AcceptAgainInv, AcceptTripInv, DeclineInv, ClearDriverInv,
       UpdateGetTripInv, CheckMoveInv, PromoteInv, WriteStatusInv, ReleaseInv,
       FailInv DEF Step, Call
  <1>3. ASSUME NEW t \in Trips, NEW s \in TripStatuses, PatchStatus(t, s) PROVE IInv'
    BY <1>3, PatchStatusInv
  <1>4. ASSUME NEW d \in Drivers, UpdateAvailability(d) PROVE IInv'
    BY <1>4, UpdateAvailabilityInv
  <1>5. CASE UNCHANGED vars
    BY <1>5, StutterInv
  <1> QED BY <1>1, <1>2, <1>3, <1>4, <1>5 DEF Next

LEMMA IInvAlways == Spec => []IInv
  BY InitIInv, NextIInv, PTL DEF Spec

(* Every row of the three tables and every request in flight stays well     *)
(* formed, whatever repository call fails in the middle of a request.       *)
THEOREM TypeCorrect == Spec => []TypeOK
  <1>1. IInv => TypeOK
    BY DEF IInv
  <1> QED BY <1>1, IInvAlways, PTL

(* DriverService writes the assignment row before trips.driver_id on every  *)
(* path, for any number of requests and workers, so no crash between the    *)
(* two calls leaves a trip naming a driver who has no row to answer.        *)
THEOREM RowsComeFirst == Spec => []RowBeforeDriver
  <1>1. IInv => RowBeforeDriver
    BY DEF IInv
  <1> QED BY <1>1, IInvAlways, PTL

(* No interleaving of accepts, declines, reassignments and status moves     *)
(* ever leaves an assignment accepted in the name of a driver who did not   *)
(* speak for it himself.                                                    *)
THEOREM AcceptancesAreOwn == Spec => []AcceptanceIsOwn
  <1>1. IInv => AcceptanceIsOwn
    BY DEF IInv
  <1> QED BY <1>1, IInvAlways, PTL

(* A row that is not being assigned afresh changes only in a request made   *)
(* in the name of the driver it already names, for any number of rivals.    *)
THEOREM StatusesAreOwn == Spec => StatusIsOwn
  <1> DEFINE Own(t) == \/ asg'[t].status = "pending"
                       \/ /\ asg'[t].driver = asg[t].driver
                          /\ \E h \in Handlers : req[h].trip = t /\ req[h].driver = asg[t].driver
             Kept == \A t \in Trips : asg'[t] # asg[t] => Own(t)
  <1>1. ASSUME TypeOK, NEW h \in Handlers, NEW s \in AsgStatuses,
               RowMatches(req[h].trip, req[h].driver), SetAsgStatus(req[h].trip, s)
        PROVE  Kept
    BY <1>1 DEF TypeOK, Rows, NoRow, RowMatches, SetAsgStatus
  <1>2. ASSUME TypeOK, NEW h \in Handlers,
               asg' = [asg EXCEPT ![req[h].trip] = PendingRow(req[h].driver)]
        PROVE  Kept
    BY <1>2 DEF TypeOK, PendingRow
  <1>3. ASSUME UNCHANGED asg PROVE Kept
    BY <1>3
  <1> HIDE DEF Kept
  <1>4. ASSUME IInv, NEW h \in Handlers, Step(h) PROVE Kept
    <2>1. CASE \/ PickDriver(h) \/ AssignGetTrip(h) \/ CheckOnline(h) \/ CheckActive(h)
               \/ AssignLookup(h) \/ AssignReread(h) \/ UpdateGetTrip(h) \/ CheckMove(h)
               \/ Fail(h)
      BY <1>3, <2>1 DEF PickDriver, AssignGetTrip, CheckOnline, CheckActive, AssignLookup,
         AssignReread, UpdateGetTrip, CheckMove, Fail, db
    <2>2. CASE SetDriver(h) \/ AcceptTrip(h) \/ ClearDriver(h) \/ WriteStatus(h)
      BY <1>3, <2>2 DEF SetDriver, AcceptTrip, ClearDriver, WriteStatus
    <2>3. CASE AssignInsert(h) \/ AssignUpdate(h)
      BY <1>2, <1>3, <1>4, <2>3 DEF AssignInsert, AssignUpdate, IInv
    <2>4. CASE Accept(h) \/ AcceptAgain(h) \/ Promote(h)
      BY <1>1, <1>3, <1>4, <2>4 DEF Accept, AcceptAgain, Promote, IInv, AsgStatuses
    <2>5. CASE Decline(h) \/ Release(h)
      BY <1>1, <1>3, <1>4, <2>5 DEF Decline, Release, IInv, AsgStatuses
    <2> QED BY <1>4, <2>1, <2>2, <2>3, <2>4, <2>5 DEF Step, Call
  <1>5. ASSUME IInv, Next PROVE Kept
    <2>1. ASSUME NEW h \in Handlers, Start(h) PROVE UNCHANGED asg
      BY <2>1 DEF Start, StartAssignNext, StartAssign, StartAccept, StartDecline,
         StartUpdate, Serve, db
    <2> QED BY <1>3, <1>4, <1>5, <2>1 DEF Next, PatchStatus, UpdateAvailability
  <1>6. IInv /\ [Next]_vars => [\A t \in Trips : asg'[t] # asg[t] => Own(t)]_vars
    BY <1>5 DEF Kept
  <1> QED BY <1>6, IInvAlways, PTL DEF Spec, StatusIsOwn

-----------------------------------------------------------------------------
(* The world of DispatchWorlds in which requests are served one at a time  *)
(* and no call fails.                                                      *)

LEMMA WorldsAreDispatch == WorldsSpec => Spec
  <1>1. WorldsInit => Init
    BY DEF WorldsInit
  <1>2. [WorldsNext]_<<vars, alone>> => [Next]_vars
    BY DEF WorldsNext, Begin, GoOn, BreakOff, Patch, Toggle, Next, Step
  <1> QED BY <1>1, <1>2, PTL DEF WorldsSpec, Spec

Matches(t) == tripDriver[t] # NoDriver => asg[t].driver = tripDriver[t]

HalfWay == {"assignReread", "setDriver"}
Assign  == {"assignLookup", "assignInsert", "assignUpdate", "assignReread"}

(* What request q of a trip has established of the driver the trip names   *)
(* and of the driver of its row: the two agree unless q has written the    *)
(* row and not yet the trip.  An update that gets as far as the table of   *)
(* moves is the named driver's, so it never has to assign a second time.   *)
PairFits(q, named, row) ==
  /\ q.pc \in HalfWay => row = q.driver
  /\ q.pc \notin HalfWay => (named # NoDriver => row = named)
  /\ q.pc = "checkMove" => named = q.driver
  /\ q.pc \in Assign => q.ret = "setDriver"

SerialFits(h) ==
  /\ \A u \in Trips : u # req[h].trip => Matches(u)
  /\ PairFits(req[h], tripDriver[req[h].trip], asg[req[h].trip].driver)

(* The inductive invariant of that world: all tables agree but for the     *)
(* trip of the one request in flight.                                      *)
SerialInv ==
  alone => /\ \A g, h \in Handlers : g = h \/ At(g, "idle") \/ At(h, "idle")
           /\ \A h \in Handlers : ~At(h, "idle") => SerialFits(h)
           /\ Quiet => \A t \in Trips : Matches(t)

LEMMA SerialFacts ==
  ASSUME IInv, SerialInv, alone, NEW h \in Handlers, ~At(h, "idle")
  PROVE  /\ req[h] \in Requests /\ req[h].trip \in Trips /\ HandlerFits(h)
         /\ PairFits(req[h], tripDriver[req[h].trip], asg[req[h].trip].driver)
         /\ req \in [Handlers -> Requests]
         /\ asg \in [Trips -> Rows] /\ tripDriver \in [Trips -> Drivers \cup {NoDriver}]
  BY DEF IInv, TypeOK, SerialInv, SerialFits, HandlerFits, At

(* A step of the request in flight keeps the invariant if the request, as  *)
(* it goes on or ends as q, fits the pair the step leaves for its trip.    *)
LEMMA SerialStep ==
  ASSUME IInv, SerialInv, alone, alone' = alone, NEW h \in Handlers, ~At(h, "idle"),
         NEW q \in Requests, req' = [req EXCEPT ![h] = q],
         q.pc # "idle" => q.trip = req[h].trip,
         \A u \in Trips : u # req[h].trip =>
           tripDriver'[u] = tripDriver[u] /\ asg'[u].driver = asg[u].driver,
         PairFits(q, tripDriver'[req[h].trip], asg'[req[h].trip].driver)
  PROVE  SerialInv'
  <1>1. /\ req'[h] = q /\ \A g \in Handlers : g # h => req'[g] = req[g] /\ At(g, "idle")
        /\ SerialFits(h) /\ req[h].trip \in Trips
    BY SerialFacts DEF SerialInv
  <1> PICK t \in Trips : t = req[h].trip
    BY <1>1
  <1>2. \A u \in Trips : u # t => Matches(u)'
    BY <1>1 DEF SerialFits, Matches
  <1>3. q.pc = "idle" => Matches(t)'
    <2>1. q.pc = "idle" => q.pc \notin HalfWay
      BY DEF HalfWay
    <2>2. q.pc = "idle" => (tripDriver'[t] # NoDriver => asg'[t].driver = tripDriver'[t])
      BY <2>1 DEF PairFits
    <2> QED BY <2>2 DEF Matches
  <1>4. \A g, k \in Handlers : g = k \/ At(g, "idle")' \/ At(k, "idle")'
    BY <1>1 DEF At
  <1>5. ASSUME NEW g \in Handlers, ~At(g, "idle")' PROVE SerialFits(g)'
    <2>1. g = h /\ q.pc # "idle"
      BY <1>1, <1>5 DEF At
    <2> QED BY <1>1, <1>2, <2>1 DEF SerialFits
  <1>6. Quiet' => \A u \in Trips : Matches(u)'
    BY <1>1, <1>2, <1>3 DEF Quiet, At
  <1> QED BY <1>4, <1>5, <1>6 DEF SerialInv

(* A step that leaves the drivers in both tables as they are.              *)
LEMMA SerialRead ==
  ASSUME IInv, SerialInv, alone, alone' = alone, NEW h \in Handlers, ~At(h, "idle"),
         NEW q \in Requests, req' = [req EXCEPT ![h] = q],
         q.pc # "idle" => q.trip = req[h].trip,
         tripDriver' = tripDriver, \A u \in Trips : asg'[u].driver = asg[u].driver,
         PairFits(q, tripDriver[req[h].trip], asg[req[h].trip].driver)
  PROVE  SerialInv'
  <1>1. req[h].trip \in Trips
    BY SerialFacts
  <1> QED BY <1>1, SerialStep

LEMMA SetStatusDrivers ==
  ASSUME TypeOK, NEW t \in Trips, NEW s, SetAsgStatus(t, s)
  PROVE  \A u \in Trips : asg'[u].driver = asg[u].driver
  BY DEF TypeOK, SetAsgStatus, Rows, NoRow

LEMMA SerialGoto ==
  ASSUME IInv, SerialInv, alone, alone' = alone, NEW h \in Handlers, ~At(h, "idle"),
         NEW pc \in Pcs, Goto(h, pc),
         tripDriver' = tripDriver, \A u \in Trips : asg'[u].driver = asg[u].driver,
         req[h].pc \notin HalfWay, pc \notin HalfWay, pc # "checkMove",
         pc \in Assign => req[h].ret = "setDriver"
  PROVE  SerialInv'
  <1> DEFINE q == [req[h] EXCEPT !.pc = pc]
  <1>1. /\ req[h] \in Requests
        /\ PairFits(req[h], tripDriver[req[h].trip], asg[req[h].trip].driver)
    BY SerialFacts
  <1>2. q \in Requests /\ req' = [req EXCEPT ![h] = q]
    BY <1>1, GotoType DEF Goto
  <1>3. q.pc = pc /\ q.trip = req[h].trip /\ q.driver = req[h].driver /\ q.ret = req[h].ret
    BY <1>1 DEF Requests
  <1> HIDE DEF q
  <1>4. PairFits(q, tripDriver[req[h].trip], asg[req[h].trip].driver)
    BY <1>1, <1>3 DEF PairFits
  <1> QED BY <1>2, <1>3, <1>4, SerialRead

LEMMA SerialFinish ==
  ASSUME IInv, SerialInv, alone, alone' = alone, NEW h \in Handlers, ~At(h, "idle"),
         Finish(h), tripDriver' = tripDriver, \A u \in Trips : asg'[u].driver = asg[u].driver,
         req[h].pc \notin HalfWay
  PROVE  SerialInv'
  <1>1. PairFits(req[h], tripDriver[req[h].trip], asg[req[h].trip].driver)
    BY SerialFacts
  <1>2. Idle.pc = "idle" /\ Idle \in Requests /\ req' = [req EXCEPT ![h] = Idle]
    BY IdleType DEF Idle, Finish
  <1>3. PairFits(Idle, tripDriver[req[h].trip], asg[req[h].trip].driver)
    BY <1>1, <1>2 DEF PairFits, Assign, HalfWay
  <1> QED BY <1>2, <1>3, SerialRead

(* A request goes on with another return point.                            *)
LEMMA SerialReturn ==
  ASSUME IInv, SerialInv, alone, alone' = alone, NEW h \in Handlers, ~At(h, "idle"),
         NEW pc \in Pcs, NEW ret \in {"none", "setDriver", "promote"},
         req' = [req EXCEPT ![h].pc = pc, ![h].ret = ret],
         tripDriver' = tripDriver,
         \A u \in Trips : u # req[h].trip => asg'[u].driver = asg[u].driver,
         PairFits([pc |-> pc, driver |-> req[h].driver, ret |-> ret],
                  tripDriver[req[h].trip], asg'[req[h].trip].driver)
  PROVE  SerialInv'
  <1> DEFINE q == [req[h] EXCEPT !.pc = pc, !.ret = ret]
  <1>1. req[h] \in Requests /\ req[h].trip \in Trips /\ req \in [Handlers -> Requests]
    BY SerialFacts
  <1>2. q \in Requests /\ req' = [req EXCEPT ![h] = q]
    BY <1>1, RetType
  <1>3. q.pc = pc /\ q.trip = req[h].trip /\ q.driver = req[h].driver /\ q.ret = ret
    BY <1>1 DEF Requests
  <1> HIDE DEF q
  <1>4. PairFits(q, tripDriver[req[h].trip], asg'[req[h].trip].driver)
    BY <1>3 DEF PairFits
  <1> QED BY <1>2, <1>3, <1>4, SerialStep

LEMMA SerialPickDriver ==
  ASSUME IInv, SerialInv, alone, alone' = alone, NEW h \in Handlers, PickDriver(h)
  PROVE  SerialInv'
  <1>1. ~At(h, "idle") /\ req[h].pc = "pickDriver" /\ UNCHANGED <<tripDriver, asg>>
    BY DEF PickDriver, At, db
  <1>2. /\ req[h] \in Requests /\ req \in [Handlers -> Requests]
        /\ PairFits(req[h], tripDriver[req[h].trip], asg[req[h].trip].driver)
        /\ FreeDrivers \subseteq Drivers
    BY <1>1, SerialFacts DEF IInv, TypeOK, FreeDrivers
  <1>3. ASSUME NEW d \in FreeDrivers,
               req' = [req EXCEPT ![h].driver = d, ![h].pc = "getTrip"]
        PROVE  SerialInv'
    <2> DEFINE q == [req[h] EXCEPT !.driver = d, !.pc = "getTrip"]
    <2>1. q \in Requests /\ req' = [req EXCEPT ![h] = q]
      BY <1>2, <1>3, PickType DEF Pcs
    <2>2. q.pc = "getTrip" /\ q.trip = req[h].trip
      BY <1>2 DEF Requests
    <2> HIDE DEF q
    <2>3. PairFits(q, tripDriver[req[h].trip], asg[req[h].trip].driver)
      BY <1>1, <1>2, <2>2 DEF PairFits, HalfWay, Assign
    <2> QED BY <1>1, <2>1, <2>2, <2>3, SerialRead
  <1> QED BY <1>1, <1>3, SerialFinish DEF PickDriver, HalfWay

LEMMA SerialAssignTrip ==
  ASSUME IInv, SerialInv, alone, alone' = alone, NEW h \in Handlers,
         AssignGetTrip(h) \/ CheckOnline(h) \/ CheckActive(h)
  PROVE  SerialInv'
  <1>1. /\ ~At(h, "idle") /\ req[h].pc \in {"getTrip", "checkOnline", "checkActive"}
        /\ UNCHANGED <<tripDriver, asg>>
    BY DEF AssignGetTrip, CheckOnline, CheckActive, At, db
  <1>2. PairFits(req[h], tripDriver[req[h].trip], asg[req[h].trip].driver)
    BY <1>1, SerialFacts
  <1>3. CASE AssignGetTrip(h)
    BY <1>1, <1>3, SerialGoto DEF AssignGetTrip, Pcs, HalfWay, Assign
  <1>4. CASE CheckOnline(h)
    BY <1>1, <1>4, SerialGoto, SerialFinish DEF CheckOnline, Pcs, HalfWay, Assign
  <1>5. CASE req' = [req EXCEPT ![h].pc = "assignLookup", ![h].ret = "setDriver"]
    BY <1>1, <1>2, <1>5, SerialReturn DEF PairFits, Pcs, HalfWay, Assign
  <1>6. CASE Finish(h)
    BY <1>1, <1>6, SerialFinish DEF HalfWay
  <1> QED BY <1>3, <1>4, <1>5, <1>6 DEF CheckActive

(* TripAssignmentRepository.Assign                                         *)
LEMMA SerialAssign ==
  ASSUME IInv, SerialInv, alone, alone' = alone, NEW h \in Handlers,
         AssignLookup(h) \/ AssignInsert(h) \/ AssignUpdate(h) \/ AssignReread(h)
  PROVE  SerialInv'
  <1> DEFINE t == req[h].trip
             d == req[h].driver
  <1>1. ~At(h, "idle") /\ req[h].pc \in Assign /\ tripDriver' = tripDriver
    BY DEF AssignLookup, AssignInsert, AssignUpdate, AssignReread, At, Assign, db
  <1>2. /\ PairFits(req[h], tripDriver[t], asg[t].driver) /\ t \in Trips
        /\ asg \in [Trips -> Rows] /\ req[h] \in Requests
    BY <1>1, SerialFacts
  <1>3. req[h].ret = "setDriver"
    BY <1>1, <1>2 DEF PairFits
  <1>4. CASE AssignLookup(h)
    <2>1. req[h].pc = "assignLookup" /\ UNCHANGED asg
      BY <1>4 DEF AssignLookup, At, db
    <2> QED BY <1>1, <1>3, <1>4, <2>1, SerialGoto DEF AssignLookup, Pcs, HalfWay
  <1>5. ASSUME asg'[t].driver = d,
               \A u \in Trips : u # t => asg'[u].driver = asg[u].driver
        PROVE  \A seen : AfterAssign(h, seen) => SerialInv'
    BY <1>1, <1>3, <1>5, SerialReturn DEF AfterAssign, PairFits, Pcs, HalfWay, Assign
  <1>6. ASSUME asg' = [asg EXCEPT ![t] = PendingRow(d)]
        PROVE  asg'[t].driver = d /\ \A u \in Trips : u # t => asg'[u].driver = asg[u].driver
    BY <1>2, <1>6 DEF PendingRow
  <1>7. CASE AssignInsert(h)
    <2>1. req[h].pc = "assignInsert"
      BY <1>7 DEF AssignInsert, At
    <2>2. CASE Finish(h) /\ UNCHANGED asg
      BY <1>1, <2>1, <2>2, SerialFinish DEF HalfWay
    <2> QED BY <1>5, <1>6, <1>7, <2>2 DEF AssignInsert
  <1>8. CASE AssignUpdate(h)
    <2> DEFINE q == [req[h] EXCEPT !.pc = "assignReread"]
    <2>1. asg' = [asg EXCEPT ![t] = PendingRow(d)] /\ Goto(h, "assignReread")
      BY <1>8 DEF AssignUpdate
    <2>2. q \in Requests /\ req' = [req EXCEPT ![h] = q]
      BY <1>2, <2>1, GotoType DEF Goto, Pcs
    <2>3. q.pc = "assignReread" /\ q.trip = t /\ q.driver = d /\ q.ret = req[h].ret
      BY <1>2 DEF Requests
    <2> HIDE DEF q
    <2>4. PairFits(q, tripDriver'[t], asg'[t].driver)
      BY <1>3, <1>6, <2>1, <2>3 DEF PairFits, HalfWay
    <2> QED BY <1>1, <1>6, <2>1, <2>2, <2>3, <2>4, SerialStep
  <1>9. CASE AssignReread(h)
    <2>1. req[h].pc = "assignReread" /\ UNCHANGED asg
      BY <1>9 DEF AssignReread, At, db
    <2>2. asg[t].driver = d
      BY <1>2, <2>1 DEF PairFits, HalfWay
    <2> QED BY <1>5, <1>9, <2>1, <2>2 DEF AssignReread
  <1> QED BY <1>4, <1>7, <1>8, <1>9

(* trips.SetTripDriver                                                     *)
LEMMA SerialSetDriver ==
  ASSUME IInv, SerialInv, alone, alone' = alone, NEW h \in Handlers, SetDriver(h)
  PROVE  SerialInv'
  <1> DEFINE t == req[h].trip
             d == req[h].driver
  <1>1. ~At(h, "idle") /\ req[h].pc = "setDriver" /\ UNCHANGED asg
          /\ tripDriver' = [tripDriver EXCEPT ![t] = d]
    BY DEF SetDriver, At
  <1>2. /\ req[h] \in Requests /\ t \in Trips /\ asg[t].driver = d
        /\ tripDriver \in [Trips -> Drivers \cup {NoDriver}]
    BY <1>1, SerialFacts DEF PairFits, HalfWay
  <1>3. tripDriver'[t] = d /\ \A u \in Trips : u # t => tripDriver'[u] = tripDriver[u]
    BY <1>1, <1>2
  <1>4. CASE Finish(h)
    <2>1. Idle.pc = "idle"
      BY DEF Idle
    <2>2. PairFits(Idle, tripDriver'[t], asg'[t].driver)
      BY <1>1, <1>2, <1>3, <2>1 DEF PairFits, HalfWay, Assign
    <2> QED BY <1>1, <1>3, <1>4, <2>1, <2>2, IdleType, SerialStep DEF Finish
  <1>5. ASSUME NEW pc \in {"acceptAgain", "checkMove"}, Goto(h, pc) PROVE SerialInv'
    <2> DEFINE q == [req[h] EXCEPT !.pc = pc]
    <2>1. q \in Requests /\ req' = [req EXCEPT ![h] = q]
      BY <1>2, <1>5, GotoType DEF Goto, Pcs
    <2>2. q.pc = pc /\ q.trip = t /\ q.driver = d
      BY <1>2 DEF Requests
    <2> HIDE DEF q
    <2>3. PairFits(q, tripDriver'[t], asg'[t].driver)
      BY <1>1, <1>2, <1>3, <1>5, <2>2 DEF PairFits, HalfWay, Assign
    <2> QED BY <1>1, <1>3, <2>1, <2>2, <2>3, SerialStep
  <1> QED BY <1>4, <1>5 DEF SetDriver

(* AcceptTrip and DeclineTrip                                              *)
LEMMA SerialAcceptTrip ==
  ASSUME IInv, SerialInv, alone, alone' = alone, NEW h \in Handlers,
         Accept(h) \/ AcceptAgain(h) \/ AcceptTrip(h)
  PROVE  SerialInv'
  <1>1. /\ ~At(h, "idle") /\ req[h].pc \in {"accept", "acceptAgain", "acceptTrip"}
        /\ tripDriver' = tripDriver /\ TypeOK
    BY DEF Accept, AcceptAgain, AcceptTrip, At, IInv
  <1>2. PairFits(req[h], tripDriver[req[h].trip], asg[req[h].trip].driver)
          /\ req[h].trip \in Trips
    BY <1>1, SerialFacts
  <1>3. (\E s : SetAsgStatus(req[h].trip, s)) \/ UNCHANGED asg
    BY DEF Accept, AcceptAgain, AcceptTrip
  <1>4. \A u \in Trips : asg'[u].driver = asg[u].driver
    BY <1>1, <1>2, <1>3, SetStatusDrivers
  <1>5. CASE Goto(h, "acceptTrip")
    BY <1>1, <1>4, <1>5, SerialGoto DEF Pcs, HalfWay, Assign
  <1>6. CASE req' = [req EXCEPT ![h].pc = "assignLookup", ![h].ret = "setDriver"]
    BY <1>1, <1>2, <1>4, <1>6, SerialReturn DEF PairFits, Pcs, HalfWay, Assign
  <1>7. CASE Finish(h)
    BY <1>1, <1>4, <1>7, SerialFinish DEF HalfWay
  <1> QED BY <1>5, <1>6, <1>7 DEF Accept, AcceptAgain, AcceptTrip

LEMMA SerialDeclineTrip ==
  ASSUME IInv, SerialInv, alone, alone' = alone, NEW h \in Handlers,
         Decline(h) \/ ClearDriver(h)
  PROVE  SerialInv'
  <1> DEFINE t == req[h].trip
  <1>1. ~At(h, "idle") /\ req[h].pc \in {"decline", "clearDriver"} /\ TypeOK
    BY DEF Decline, ClearDriver, At, IInv
  <1>2. t \in Trips /\ tripDriver \in [Trips -> Drivers \cup {NoDriver}]
    BY <1>1, SerialFacts
  <1>3. CASE Decline(h)
    <2>1. (\E s : SetAsgStatus(t, s)) \/ UNCHANGED asg
      BY <1>3 DEF Decline
    <2>2. \A u \in Trips : asg'[u].driver = asg[u].driver
      BY <1>1, <1>2, <2>1, SetStatusDrivers
    <2>3. Goto(h, "clearDriver") /\ tripDriver' = tripDriver
      BY <1>3 DEF Decline
    <2> QED BY <1>1, <2>2, <2>3, SerialGoto DEF Pcs, HalfWay, Assign
  <1>4. CASE ClearDriver(h)
    <2>1. /\ UNCHANGED asg /\ req' = [req EXCEPT ![h] = Idle] /\ Idle.pc = "idle"
          /\ tripDriver'[t] = NoDriver
          /\ \A u \in Trips : u # t => tripDriver'[u] = tripDriver[u]
      BY <1>2, <1>4 DEF ClearDriver, Finish, Idle
    <2>2. PairFits(Idle, tripDriver'[t], asg'[t].driver)
      BY <2>1 DEF PairFits, HalfWay, Assign
    <2> QED BY <1>1, <2>1, <2>2, IdleType, SerialStep
  <1> QED BY <1>1, <1>3, <1>4

(* UpdateTripStatus                                                        *)
LEMMA SerialUpdateGetTrip ==
  ASSUME IInv, SerialInv, alone, alone' = alone, NEW h \in Handlers, UpdateGetTrip(h)
  PROVE  SerialInv'
  <1> DEFINE t == req[h].trip
             snap == tripStatus[t]
             ret == IF tripDriver[t] = req[h].driver THEN "none" ELSE "setDriver"
             pc == IF tripDriver[t] = req[h].driver THEN "checkMove" ELSE "assignLookup"
             q == [req[h] EXCEPT !.snap = snap, !.ret = ret, !.pc = pc]
  <1>1. ~At(h, "idle") /\ req[h].pc = "getTrip" /\ UNCHANGED <<tripDriver, asg>>
    BY DEF UpdateGetTrip, At, db
  <1>2. /\ req[h] \in Requests /\ t \in Trips /\ snap \in TripStatuses
        /\ PairFits(req[h], tripDriver[t], asg[t].driver)
    BY <1>1, SerialFacts DEF IInv, TypeOK
  <1>3. /\ pc \in Pcs /\ ret \in {"none", "setDriver", "promote"}
        /\ pc \in {"checkMove", "assignLookup"}
        /\ pc = "checkMove" => tripDriver[t] = req[h].driver
        /\ pc = "assignLookup" => ret = "setDriver"
    BY DEF Pcs
  <1>4. req' = [req EXCEPT ![h] = q]
    BY DEF UpdateGetTrip
  <1> HIDE DEF pc, ret, snap
  <1>5. q \in Requests
    BY <1>2, <1>3, SnapRetType
  <1>6. q.pc = pc /\ q.trip = t /\ q.driver = req[h].driver /\ q.ret = ret
    BY <1>2 DEF Requests
  <1> HIDE DEF q
  <1>7. PairFits(q, tripDriver[t], asg[t].driver)
    BY <1>1, <1>2, <1>3, <1>6 DEF PairFits, HalfWay, Assign
  <1> QED BY <1>1, <1>4, <1>5, <1>6, <1>7, SerialRead

LEMMA SerialCheckMove ==
  ASSUME IInv, SerialInv, alone, alone' = alone, NEW h \in Handlers, CheckMove(h)
  PROVE  SerialInv'
  <1> DEFINE t == req[h].trip
  <1>1. ~At(h, "idle") /\ req[h].pc = "checkMove" /\ UNCHANGED <<tripDriver, asg>>
    BY DEF CheckMove, At, db
  <1>2. /\ req[h] \in Requests /\ t \in Trips /\ HandlerFits(h)
        /\ PairFits(req[h], tripDriver[t], asg[t].driver)
    BY <1>1, SerialFacts
  <1>3. asg[t].driver = req[h].driver
    BY <1>1, <1>2, ConstantsOK DEF PairFits, HandlerFits, HalfWay
  <1>4. ASSUME NEW pc \in {"promote", "writeStatus"},
               req' = [req EXCEPT ![h].snap = "none", ![h].ret = "none", ![h].pc = pc]
        PROVE  SerialInv'
    <2> DEFINE q == [req[h] EXCEPT !.snap = "none", !.ret = "none", !.pc = pc]
    <2>1. q \in Requests /\ req' = [req EXCEPT ![h] = q]
      BY <1>2, <1>4, SnapRetType DEF Pcs
    <2>2. q.pc = pc /\ q.trip = t
      BY <1>2 DEF Requests
    <2> HIDE DEF q
    <2>3. PairFits(q, tripDriver[t], asg[t].driver)
      BY <1>1, <1>2, <1>4, <2>2 DEF PairFits, HalfWay, Assign
    <2> QED BY <1>1, <2>1, <2>2, <2>3, SerialRead
  <1> QED BY <1>1, <1>3, <1>4, SerialFinish DEF CheckMove, HalfWay

LEMMA SerialUpdateEnds ==
  ASSUME IInv, SerialInv, alone, alone' = alone, NEW h \in Handlers,
         Promote(h) \/ WriteStatus(h) \/ Release(h)
  PROVE  SerialInv'
  <1>1. /\ ~At(h, "idle") /\ req[h].pc \in {"promote", "writeStatus", "release"}
        /\ tripDriver' = tripDriver /\ TypeOK
    BY DEF Promote, WriteStatus, Release, At, IInv
  <1>2. req[h].trip \in Trips
    BY <1>1, SerialFacts
  <1>3. (\E s : SetAsgStatus(req[h].trip, s)) \/ UNCHANGED asg
    BY DEF Promote, WriteStatus, Release
  <1>4. \A u \in Trips : asg'[u].driver = asg[u].driver
    BY <1>1, <1>2, <1>3, SetStatusDrivers
  <1>5. Finish(h) \/ \E pc \in {"writeStatus", "release"} : Goto(h, pc)
    BY DEF Promote, WriteStatus, Release
  <1> QED BY <1>1, <1>4, <1>5, SerialGoto, SerialFinish DEF Pcs, HalfWay, Assign

(* A request arrives where nobody is in the middle of one.                 *)
LEMMA SerialBegin ==
  ASSUME IInv, SerialInv, alone, NEW h \in Handlers, Begin(h) PROVE SerialInv'
  <1>1. Quiet /\ Start(h) /\ alone' = alone
    BY DEF Begin
  <1>2. PICK q : /\ req' = [req EXCEPT ![h] = q] /\ q.trip \in Trips
                 /\ q.pc \in {"pickDriver", "getTrip", "accept", "decline"}
                 /\ UNCHANGED <<tripDriver, asg>>
    <2>1. ASSUME NEW t \in Trips, NEW op, NEW d, NEW next,
                 NEW pc \in {"pickDriver", "getTrip", "accept", "decline"},
                 Serve(h, op, t, d, next, pc)
          PROVE  \E q : /\ req' = [req EXCEPT ![h] = q] /\ q.trip \in Trips
                        /\ q.pc \in {"pickDriver", "getTrip", "accept", "decline"}
                        /\ UNCHANGED <<tripDriver, asg>>
      <3> DEFINE q == [pc |-> pc, op |-> op, trip |-> t, driver |-> d, next |-> next,
                       snap |-> "none", ret |-> "none"]
      <3>1. req' = [req EXCEPT ![h] = q] /\ UNCHANGED <<tripDriver, asg>>
        BY <2>1 DEF Serve, db
      <3>2. q.trip = t /\ q.pc = pc
        OBVIOUS
      <3> HIDE DEF q
      <3> QED BY <3>1, <3>2
    <2> QED BY <1>1, <2>1 DEF Start, StartAssign, StartAssignNext, StartAccept, StartDecline,
               StartUpdate
  <1>3. req'[h] = q /\ \A g \in Handlers : g # h => At(g, "idle")'
    BY <1>1, <1>2 DEF IInv, TypeOK, Quiet, At
  <1>4. \A u \in Trips : Matches(u) /\ Matches(u)'
    BY <1>1, <1>2 DEF SerialInv, Matches
  <1>5. PairFits(q, tripDriver'[q.trip], asg'[q.trip].driver)
    BY <1>2, <1>4 DEF PairFits, Matches, HalfWay, Assign
  <1>6. SerialFits(h)' /\ ~At(h, "idle")'
    BY <1>2, <1>3, <1>4, <1>5 DEF SerialFits, At
  <1> QED BY <1>3, <1>6 DEF SerialInv, Quiet

LEMMA SerialSame == SerialInv /\ UNCHANGED <<tripDriver, asg, req, alone>> => SerialInv'
  BY DEF SerialInv, SerialFits, PairFits, Matches, Quiet, At

LEMMA SerialNext == IInv /\ SerialInv /\ [WorldsNext]_<<vars, alone>> => SerialInv'
  <1> SUFFICES ASSUME IInv, SerialInv, [WorldsNext]_<<vars, alone>> PROVE SerialInv'
    OBVIOUS
  <1>1. alone' = alone
    BY DEF WorldsNext, Begin, GoOn, BreakOff, Patch, Toggle
  <1>2. CASE ~alone
    BY <1>1, <1>2 DEF SerialInv
  <1>3. ASSUME alone, NEW h \in Handlers, Call(h) PROVE SerialInv'
    BY <1>1, <1>3, SerialPickDriver, SerialAssignTrip, SerialAssign, SerialSetDriver,
       SerialAcceptTrip, SerialDeclineTrip, SerialUpdateGetTrip, SerialCheckMove,
       SerialUpdateEnds DEF Call
  <1>4. CASE \/ \E t \in Trips, s \in TripStatuses : Patch(t, s)
             \/ \E d \in Drivers : Toggle(d)
             \/ UNCHANGED <<vars, alone>>
    BY <1>1, <1>4, SerialSame DEF Patch, Toggle, PatchStatus, UpdateAvailability, vars
  <1> QED BY <1>2, <1>3, <1>4, SerialBegin DEF WorldsNext, GoOn, BreakOff

(* Where requests are served one at a time and none fails, every handler   *)
(* leaves the driver of a trip and the driver of its assignment row the    *)
(* same: assigning, accepting, declining and the auto-assign of            *)
(* UpdateTripStatus differ between requests only if requests overlap or    *)
(* fail.                                                                   *)
THEOREM TablesAlwaysAgree == WorldsSpec => []TablesAgree
  <1>1. WorldsInit => SerialInv
    BY DEF WorldsInit, Init, SerialInv, Matches, At, Idle
  <1>2. SerialInv => TablesAgree
    BY DEF SerialInv, TablesAgree, TablesMatch, Matches
  <1>3. WorldsSpec => []IInv
    BY WorldsAreDispatch, IInvAlways, PTL
  <1> QED BY <1>1, <1>2, <1>3, SerialNext, PTL DEF WorldsSpec
=============================================================================
