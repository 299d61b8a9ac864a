------------------------- MODULE TripCompletionProofs ------------------------
(***************************************************************************)
(* Proofs about TripCompletion for any trips, riders and concurrent        *)
(* requests and any deployments, whatever their fares and points and       *)
(* with or without a replica, drivers and failing calls: what the wallet   *)
(* is asked for and what the sockets are told follows what the trips table *)
(* has been through, and a completion is settled once where requests of a  *)
(* trip come one at a time.                                                *)
(***************************************************************************)
EXTENDS TripCompletion, FiniteSetTheorems, TLAPS

Requests == [pc : Pcs, trip : Trips \cup {"none"}, next : TripStatuses \cup {"none"},
             snap : TripStatuses \cup {"none"}]

(* The requests that have taken a fare of the trip and are about to give   *)
(* its points.                                                             *)
OwedTo(t) == {h \in Handlers : At(h, "reward") /\ req[h].trip = t}

(* The steps of a request that moves a trip's status.                      *)
Changing == {"getTrip", "write", "deduct", "reward", "tell", "driverGet", "driverWrite"}

(* What a request has established: it is about a trip, and one that may    *)
(* settle, or is about to announce the completion, or has seen the trip    *)
(* completed, is about a trip that has turned completed.                   *)
ReqFits(h) ==
  LET q == req[h]
  IN  /\ q.pc # "idle" => q.trip \in Trips
      /\ q.pc \in Changing => q.next \in TripStatuses
      /\ q.pc \in {"getTrip", "driverGet", "idle"} => q.snap = "none"
      /\ q.pc \in {"deduct", "reward"} => completions[q.trip] > 0
      /\ q.pc = "tell" /\ q.next = "completed" => completions[q.trip] > 0
      /\ q.snap = "completed" => completions[q.trip] > 0

TripFits(t) ==
  /\ status[t] = "completed" \/ replica[t] = "completed" => completions[t] > 0
  /\ charges[t] > 0 => completions[t] > 0
  /\ "completed" \in told[t] => completions[t] > 0
  /\ rewards[t] + Cardinality(OwedTo(t)) <= charges[t]

IInv ==
  /\ TypeOK
  /\ \A h \in Handlers : ReqFits(h)
  /\ \A t \in Trips : TripFits(t)

LEMMA IdleFits == Idle \in Requests
  BY DEF Idle, Requests, Pcs

LEMMA OwedIsFinite ==
  ASSUME NEW t \in Trips
  PROVE  IsFiniteSet(OwedTo(t)) /\ Cardinality(OwedTo(t)) \in Nat
<1>1. OwedTo(t) \in SUBSET Handlers
  BY DEF OwedTo
<1> QED BY <1>1, ConstantsOK, FS_Subset, FS_CardinalityType

-----------------------------------------------------------------------------
(* The frame of a step in which one request moves on.                      *)

(* The rewards owed to a trip when request h becomes q.                    *)
LEMMA OwedMoves ==
  ASSUME TypeOK, NEW h \in Handlers, NEW q \in Requests, NEW t \in Trips,
         req' = [req EXCEPT ![h] = q]
  PROVE  /\ q.pc = "reward" /\ q.trip = t => Cardinality(OwedTo(t)') <= Cardinality(OwedTo(t)) + 1
         /\ ~(q.pc = "reward" /\ q.trip = t)
              => Cardinality(OwedTo(t)') = IF At(h, "reward") /\ req[h].trip = t
                                           THEN Cardinality(OwedTo(t)) - 1
                                           ELSE Cardinality(OwedTo(t))
         /\ Cardinality(OwedTo(t)') \in Nat
<1>1. \A g \in Handlers : req'[g] = IF g = h THEN q ELSE req[g]
  BY DEF TypeOK
<1>2. CASE q.pc = "reward" /\ q.trip = t
  <2>1. OwedTo(t)' = OwedTo(t) \cup {h}
    BY <1>1, <1>2 DEF OwedTo, At
  <2>2. /\ IsFiniteSet(OwedTo(t)')
        /\ Cardinality(OwedTo(t)') \in {Cardinality(OwedTo(t)), Cardinality(OwedTo(t)) + 1}
    BY <2>1, OwedIsFinite, FS_AddElement
  <2> QED BY <1>2, <2>2, OwedIsFinite, FS_CardinalityType
<1>3. CASE ~(q.pc = "reward" /\ q.trip = t)
  <2>1. OwedTo(t)' = OwedTo(t) \ {h}
    BY <1>1, <1>3 DEF OwedTo, At
  <2>2. h \in OwedTo(t) <=> At(h, "reward") /\ req[h].trip = t
    BY DEF OwedTo
  <2>3. Cardinality(OwedTo(t)') = IF h \in OwedTo(t) THEN Cardinality(OwedTo(t)) - 1
                                                     ELSE Cardinality(OwedTo(t))
    BY <2>1, OwedIsFinite, FS_RemoveElement
  <2>4. IsFiniteSet(OwedTo(t)')
    BY <2>1, OwedIsFinite, FS_RemoveElement
  <2> QED BY <1>3, <2>2, <2>3, <2>4, FS_CardinalityType
<1> QED BY <1>2, <1>3

(* Nobody else is disturbed as long as no completion is taken back.        *)
LEMMA OthersFit ==
  ASSUME TypeOK, \A g \in Handlers : ReqFits(g), NEW h \in Handlers, NEW q \in Requests,
         req' = [req EXCEPT ![h] = q],
         completions' \in [Trips -> Nat], \A t \in Trips : completions'[t] >= completions[t],
         ReqFits(h)'
  PROVE  /\ \A g \in Handlers : ReqFits(g)'
         /\ req' \in [Handlers -> Requests]
<1>1. \A g \in Handlers : req'[g] = IF g = h THEN q ELSE req[g]
  BY DEF TypeOK
<1>2. req' \in [Handlers -> Requests]
  BY DEF TypeOK, Requests
<1>3. ASSUME NEW g \in Handlers, g # h PROVE ReqFits(g)'
  <2>1. ReqFits(g) /\ req'[g] = req[g] /\ req[g] \in Requests
    BY <1>1, <1>3 DEF TypeOK, Requests
  <2>2. req[g].snap = "completed" => req[g].pc # "idle"
    BY <2>1 DEF ReqFits
  <2>3. req[g].trip \in Trips =>
          completions[req[g].trip] \in Nat /\ completions'[req[g].trip] \in Nat
    BY DEF TypeOK
  <2> QED BY <2>1, <2>2, <2>3 DEF ReqFits
<1> QED BY <1>2, <1>3

LEMMA FinishFits ==
  ASSUME TypeOK, NEW h \in Handlers, Finish(h)
  PROVE  ReqFits(h)'
<1>1. req'[h] = Idle
  BY DEF TypeOK, Finish
<1> QED BY <1>1 DEF ReqFits, Idle, Changing

(* A request reads, or ends, and nothing else happens.                     *)
LEMMA QuietStep ==
  ASSUME IInv, NEW h \in Handlers, NEW q \in Requests, req' = [req EXCEPT ![h] = q],
         q.pc # "reward", ReqFits(h)',
         UNCHANGED <<deploy, status, replica, wallet, ends, charges, rewards, told>>,
         moves' \in [Trips -> Nat], overlapped' \subseteq Trips
  PROVE  IInv'
<1>0. /\ TypeOK /\ \A g \in Handlers : ReqFits(g)
      /\ completions' \in [Trips -> Nat] /\ \A t \in Trips : completions'[t] >= completions[t]
  BY DEF IInv, TypeOK, ends
<1>1. (\A g \in Handlers : ReqFits(g)') /\ req' \in [Handlers -> Requests]
  BY <1>0, OthersFit
<1>2. TypeOK'
  <2>1. UNCHANGED <<deploy, status, replica, balance, points, books, completions, settlements,
                    charges, rewards, told>>
    BY DEF wallet, ends
  <2>2. TypeOK
    BY DEF IInv
  <2> QED BY <1>1, <2>1, <2>2 DEF TypeOK, Requests
<1>3. ASSUME NEW t \in Trips PROVE TripFits(t)'
  <2>1. Cardinality(OwedTo(t)') <= Cardinality(OwedTo(t)) /\ Cardinality(OwedTo(t)') \in Nat
    <3>1. Cardinality(OwedTo(t)') = IF At(h, "reward") /\ req[h].trip = t
                                    THEN Cardinality(OwedTo(t)) - 1 ELSE Cardinality(OwedTo(t))
      BY OwedMoves DEF IInv
    <3>2. Cardinality(OwedTo(t)') \in Nat
      BY OwedMoves DEF IInv
    <3> QED BY <3>1, <3>2, OwedIsFinite
  <2>2. TripFits(t) /\ rewards[t] \in Nat /\ charges[t] \in Nat
    BY DEF IInv, TypeOK
  <2> QED BY <2>1, <2>2, OwedIsFinite DEF TripFits, ends
<1> QED BY <1>1, <1>2, <1>3 DEF IInv

LEMMA FinishInv ==
  ASSUME IInv, NEW h \in Handlers, Finish(h),
         UNCHANGED <<deploy, status, replica, wallet, history>>
  PROVE  IInv'
<1>1. /\ moves' \in [Trips -> Nat] /\ overlapped' \subseteq Trips /\ Idle.pc # "reward"
      /\ UNCHANGED <<ends, charges, rewards, told>>
  BY DEF IInv, TypeOK, Idle, history, traffic
<1> QED BY <1>1, QuietStep, IdleFits, FinishFits DEF Finish, IInv

-----------------------------------------------------------------------------
(* One lemma per action.                                                   *)

LEMMA InitIInv == Init => IInv
<1> SUFFICES ASSUME Init PROVE IInv
  OBVIOUS
<1>1. TypeOK
  BY DEF Init, TypeOK, Idle, Pcs, Ledger!Init, Ledger!Types, Ledger!NothingBooked
<1>2. \A h \in Handlers : ReqFits(h)
  BY DEF Init, ReqFits, Idle, Changing
<1>3. ASSUME NEW t \in Trips PROVE TripFits(t)
  <2>1. OwedTo(t) = {}
    BY DEF Init, OwedTo, At, Idle
  <2> QED BY <2>1, FS_EmptySet DEF Init, TripFits
<1> QED BY <1>1, <1>2, <1>3 DEF IInv

LEMMA MoveInv ==
  ASSUME IInv, NEW h \in Handlers, NEW pc \in Pcs, Goto(h, pc), pc # "reward",
         UNCHANGED <<deploy, status, replica, wallet, history>>, ReqFits(h)'
  PROVE  IInv'
<1>1. [req[h] EXCEPT !.pc = pc] \in Requests
  BY DEF IInv, TypeOK, Requests
<1>2. req' = [req EXCEPT ![h] = [req[h] EXCEPT !.pc = pc]]
  BY DEF Goto, IInv, TypeOK
<1>3. /\ moves' \in [Trips -> Nat] /\ overlapped' \subseteq Trips
      /\ UNCHANGED <<ends, charges, rewards, told>>
      /\ [req[h] EXCEPT !.pc = pc].pc # "reward"
  BY <1>1 DEF IInv, TypeOK, Requests, history, traffic
<1> QED BY <1>1, <1>2, <1>3, QuietStep

LEMMA StartCreateInv ==
  ASSUME IInv, NEW h \in Handlers, NEW t \in Trips, StartCreate(h, t) PROVE IInv'
<1> DEFINE q == [pc |-> "ensureBalance", trip |-> t, next |-> "requested", snap |-> "none"]
<1>1. q \in Requests /\ q.pc # "reward"
  BY DEF Requests, Pcs, TripStatuses
<1>2. req' = [req EXCEPT ![h] = q]
  BY DEF StartCreate, Serve
<1>3. ReqFits(h)'
  BY <1>2 DEF IInv, TypeOK, ReqFits, Changing
<1>4. UNCHANGED <<deploy, status, replica, wallet, traffic, ends, charges, rewards, told>>
  BY DEF StartCreate, history
<1>5. moves' \in [Trips -> Nat] /\ overlapped' \subseteq Trips
  BY <1>4 DEF IInv, TypeOK, traffic
<1> HIDE DEF q
<1> QED BY <1>1, <1>2, <1>3, <1>4, <1>5, QuietStep

LEMMA EnsureBalanceInv == ASSUME IInv, NEW h \in Handlers, EnsureBalance(h) PROVE IInv'
<1>1. CASE Finish(h)
  BY <1>1, FinishInv DEF EnsureBalance
<1>2. CASE Goto(h, "create")
  <2>1. ReqFits(h)'
    BY <1>2 DEF EnsureBalance, At, Goto, IInv, TypeOK, ReqFits, Changing, history, ends
  <2> QED BY <1>2, <2>1, MoveInv DEF EnsureBalance, Pcs
<1> QED BY <1>1, <1>2 DEF EnsureBalance

LEMMA CreateTripInv == ASSUME IInv, NEW h \in Handlers, CreateTrip(h) PROVE IInv'
<1> USE DEF CreateTrip, history, traffic, ends
<1>1. Idle.pc # "reward" /\ req' = [req EXCEPT ![h] = Idle]
  BY DEF Idle, Finish
<1>2. /\ TypeOK /\ \A g \in Handlers : ReqFits(g)
      /\ completions' \in [Trips -> Nat] /\ \A t \in Trips : completions'[t] >= completions[t]
  BY DEF IInv, TypeOK
<1>3. (\A g \in Handlers : ReqFits(g)') /\ req' \in [Handlers -> Requests]
  BY <1>1, <1>2, OthersFit, FinishFits, IdleFits
<1>4. TypeOK'
  BY <1>2, <1>3 DEF TypeOK, Requests, wallet, TripStatuses
<1>5. ASSUME NEW t \in Trips PROVE TripFits(t)'
  <2>1. Cardinality(OwedTo(t)') = Cardinality(OwedTo(t))
    BY <1>1, <1>2, OwedMoves, IdleFits DEF At
  <2>2. TripFits(t) /\ status'[t] \in {status[t], "requested"}
    BY DEF IInv, TypeOK
  <2> QED BY <2>1, <2>2 DEF TripFits
<1> QED BY <1>3, <1>4, <1>5 DEF IInv

LEMMA AskInv ==
  ASSUME IInv, NEW h \in Handlers, NEW t \in Trips, NEW next \in Targets,
         NEW pc \in {"getTrip", "write", "driverGet", "driverWrite"}, Ask(h, t, next, pc)
  PROVE  IInv'
<1> DEFINE q  == [pc |-> pc, trip |-> t, next |-> next, snap |-> "none"]
<1>1. q \in Requests /\ q.pc # "reward"
  BY ConstantsOK DEF Requests, Pcs
<1>2. req' = [req EXCEPT ![h] = q]
  BY DEF Ask, Serve
<1>3. ReqFits(h)'
  BY <1>2, ConstantsOK DEF IInv, TypeOK, ReqFits
<1>4. UNCHANGED <<deploy, status, replica, wallet, ends, charges, rewards, told>>
  BY DEF Ask
<1>5. moves' \in [Trips -> Nat] /\ overlapped' \subseteq Trips
  BY DEF IInv, TypeOK, Ask, Count
<1> HIDE DEF q
<1> QED BY <1>1, <1>2, <1>3, <1>4, <1>5, QuietStep

(* A request takes its snapshot, in either service.                        *)
LEMMA ReadInv ==
  ASSUME IInv, NEW h \in Handlers, GetTrip(h) \/ DriverGet(h)
  PROVE  IInv'
<1> DEFINE seen == Seen(req[h].trip)
<1>1. CASE Finish(h)
  BY <1>1, FinishInv DEF GetTrip, DriverGet
<1>2. ASSUME NEW pc \in {"write", "driverWrite"},
             req' = [req EXCEPT ![h].snap = seen, ![h].pc = pc]
      PROVE  IInv'
  <2> DEFINE q == [req[h] EXCEPT !.snap = seen, !.pc = pc]
  <2>1. req[h] \in Requests /\ req[h].trip \in Trips /\ req[h].next \in TripStatuses
    BY DEF GetTrip, DriverGet, At, IInv, TypeOK, ReqFits, Requests, Changing
  <2>2. /\ seen \in TripStatuses \cup {"none"}
        /\ seen = "completed" => completions[req[h].trip] > 0
    BY <2>1 DEF IInv, TypeOK, TripFits, Seen
  <2>3. q \in Requests /\ q.pc = pc /\ q.trip = req[h].trip /\ q.next = req[h].next
          /\ q.snap = seen
    BY <2>1, <2>2 DEF Requests, Pcs
  <2>4. req' = [req EXCEPT ![h] = q] /\ req'[h] = q
    BY <1>2 DEF IInv, TypeOK
  <2>5. UNCHANGED <<deploy, status, replica, wallet, traffic, ends, charges, rewards, told>>
    BY DEF GetTrip, DriverGet, history
  <2>6. ReqFits(h)'
    BY <2>1, <2>2, <2>3, <2>4, <2>5 DEF ReqFits, ends
  <2>7. moves' \in [Trips -> Nat] /\ overlapped' \subseteq Trips
    BY <2>5 DEF IInv, TypeOK, traffic
  <2> HIDE DEF q
  <2> QED BY <2>3, <2>4, <2>5, <2>6, <2>7, QuietStep
<1> QED BY <1>1, <1>2 DEF GetTrip, DriverGet

(* A status is written, in either service, and the request goes on to pc.  *)
LEMMA WriteInv ==
  ASSUME IInv, NEW h \in Handlers, NEW pc \in {"deduct", "tell"}, Goto(h, pc),
         At(h, "write") \/ At(h, "driverWrite"), pc = "deduct" => req[h].next = "completed",
         UpdateTripStatus(req[h].trip, req[h].next), settlements' \in [Trips -> Nat],
         UNCHANGED <<deploy, replica, wallet, traffic, charges, rewards, told>>
  PROVE  IInv'
<1> DEFINE t == req[h].trip
           q == [req[h] EXCEPT !.pc = pc]
<1>1. req[h] \in Requests /\ t \in Trips /\ req[h].next \in TripStatuses /\ ReqFits(h)
  BY DEF At, IInv, TypeOK, ReqFits, Requests, Changing
<1>2. /\ status' = [status EXCEPT ![t] = req[h].next]
      /\ completions' = IF req[h].next = "completed" /\ status[t] # "completed"
                        THEN [completions EXCEPT ![t] = @ + 1] ELSE completions
  BY DEF UpdateTripStatus, Count
<1>3. completions' \in [Trips -> Nat] /\ \A u \in Trips : completions'[u] >= completions[u]
  BY <1>1, <1>2 DEF IInv, TypeOK
<1>4. /\ q \in Requests /\ q.pc = pc /\ q.trip = t /\ q.next = req[h].next /\ q.snap = req[h].snap
      /\ req' = [req EXCEPT ![h] = q] /\ req'[h] = q
  BY <1>1 DEF Goto, IInv, TypeOK, Requests, Pcs
<1>5. req[h].next = "completed" => completions'[t] > 0
  <2>1. status[t] = "completed" => completions[t] > 0
    BY <1>1 DEF IInv, TripFits
  <2>2. completions[t] \in Nat /\ completions \in [Trips -> Nat]
    BY <1>1 DEF IInv, TypeOK
  <2> QED BY <1>1, <1>2, <2>1, <2>2
<1>6. ReqFits(h)'
  <2>1. completions[t] \in Nat /\ completions'[t] \in Nat /\ completions'[t] >= completions[t]
    BY <1>1, <1>3 DEF IInv, TypeOK
  <2>2. req[h].snap = "completed" => completions[t] > 0
    BY <1>1 DEF ReqFits
  <2> QED BY <1>1, <1>4, <1>5, <2>1, <2>2 DEF ReqFits
<1>7. (\A g \in Handlers : ReqFits(g)') /\ req' \in [Handlers -> Requests]
  <2> HIDE DEF q
  <2> QED BY <1>3, <1>4, <1>6, OthersFit DEF IInv
<1>8. TypeOK'
  <2>1. status' \in [Trips -> TripStatuses \cup {"none"}]
    BY <1>1, <1>2 DEF IInv, TypeOK
  <2> QED BY <1>3, <1>7, <2>1 DEF IInv, TypeOK, Requests, wallet, traffic
<1>9. ASSUME NEW u \in Trips PROVE TripFits(u)'
  <2>1. q.pc # "reward" /\ ~At(h, "reward")
    BY <1>4 DEF At
  <2>2. Cardinality(OwedTo(u)') = Cardinality(OwedTo(u))
    <3> HIDE DEF q
    <3> QED BY <1>4, <2>1, OwedMoves DEF IInv
  <2>3. /\ TripFits(u) /\ completions[u] \in Nat /\ completions'[u] \in Nat
        /\ completions'[u] >= completions[u]
    BY <1>3 DEF IInv, TypeOK
  <2>4. status'[u] = IF u = t THEN req[h].next ELSE status[u]
    BY <1>1, <1>2 DEF IInv, TypeOK
  <2> QED BY <1>5, <2>2, <2>3, <2>4 DEF TripFits
<1> QED BY <1>7, <1>8, <1>9 DEF IInv

LEMMA WriteStatusInv == ASSUME IInv, NEW h \in Handlers, WriteStatus(h) PROVE IInv'
<1>1. settlements' \in [Trips -> Nat]
  <2>1. settlements \in [Trips -> Nat]
    BY DEF IInv, TypeOK
  <2>2. settlements' = settlements \/ settlements' = Count(settlements, req[h].trip)
    <3>1. CASE Settles(h)
      BY <3>1 DEF WriteStatus
    <3>2. CASE ~Settles(h)
      BY <3>2 DEF WriteStatus
    <3> QED BY <3>1, <3>2
  <2>3. Count(settlements, req[h].trip) \in [Trips -> Nat]
    <3>1. req[h].trip \in Trips
      BY DEF WriteStatus, At, IInv, ReqFits
    <3> QED BY <2>1, <3>1 DEF Count
  <2> QED BY <2>1, <2>2, <2>3
<1>2. PICK pc \in {"deduct", "tell"} :
        Goto(h, pc) /\ (pc = "deduct" => req[h].next = "completed")
  <2>1. CASE Settles(h)
    BY <2>1 DEF WriteStatus, Settles
  <2>2. CASE ~Settles(h)
    BY <2>2 DEF WriteStatus
  <2> QED BY <2>1, <2>2
<1> QED BY <1>1, <1>2, WriteInv DEF WriteStatus

LEMMA DriverWriteInv == ASSUME IInv, NEW h \in Handlers, DriverWrite(h) PROVE IInv'
<1>1. settlements' \in [Trips -> Nat]
  BY DEF DriverWrite, IInv, TypeOK
<1> QED BY <1>1, WriteInv DEF DriverWrite

(* What the wallet's transactions leave of its types.                      *)
LEMMA WalletTypes ==
  ASSUME TypeOK, NEW u \in Users, NEW a \in Nat,
         Ledger!TopUp(u, a) \/ Ledger!Deduct(u, a) \/ Ledger!Reward(u, a)
  PROVE  /\ balance' \in [Users -> Nat] /\ points' \in [Users -> Nat]
         /\ books' \in [Users -> [Ledger!Types -> Nat]]
<1> USE DEF TypeOK
<1>1. ASSUME NEW type \in Ledger!Types, Ledger!Book(u, type, a)
      PROVE  books' \in [Users -> [Ledger!Types -> Nat]]
  BY <1>1 DEF Ledger!Book
<1>2. CASE Ledger!TopUp(u, a)
  BY <1>1, <1>2 DEF Ledger!TopUp, Ledger!Types
<1>3. CASE Ledger!Deduct(u, a)
  BY <1>1, <1>3 DEF Ledger!Deduct, Ledger!Types
<1>4. CASE Ledger!Reward(u, a)
  BY <1>1, <1>4 DEF Ledger!Reward, Ledger!Types
<1> QED BY <1>2, <1>3, <1>4

(* A request that settles a fare moves to q with the wallet's answer.      *)
LEMMA SettleStep ==
  ASSUME IInv, NEW h \in Handlers, NEW q \in Requests, req' = [req EXCEPT ![h] = q],
         ReqFits(h)',
         UNCHANGED <<deploy, status, replica, traffic, ends, told>>,
         charges' \in [Trips -> Nat], rewards' \in [Trips -> Nat],
         balance' \in [Users -> Nat], points' \in [Users -> Nat],
         books' \in [Users -> [Ledger!Types -> Nat]],
         \A t \in Trips : charges'[t] > charges[t] => completions[t] > 0,
         \A t \in Trips : rewards'[t] + Cardinality(OwedTo(t)') <= charges'[t]
  PROVE  IInv'
<1>1. /\ TypeOK /\ \A g \in Handlers : ReqFits(g)
      /\ completions' \in [Trips -> Nat] /\ \A t \in Trips : completions'[t] >= completions[t]
  BY DEF IInv, TypeOK, ends
<1>2. (\A g \in Handlers : ReqFits(g)') /\ req' \in [Handlers -> Requests]
  BY <1>1, OthersFit
<1>3. TypeOK'
  BY <1>1, <1>2 DEF TypeOK, Requests, traffic, ends
<1>4. ASSUME NEW t \in Trips PROVE TripFits(t)'
  <2>1. TripFits(t) /\ charges[t] \in Nat /\ charges'[t] \in Nat
    BY <1>1 DEF IInv, TypeOK
  <2> QED BY <2>1 DEF TripFits, ends
<1> QED BY <1>2, <1>3, <1>4 DEF IInv

LEMMA DeductFareInv == ASSUME IInv, NEW h \in Handlers, DeductFare(h) PROVE IInv'
<1> DEFINE t == req[h].trip
           q == [req[h] EXCEPT !.pc = "reward"]
<1>1. /\ req[h] \in Requests /\ t \in Trips /\ ReqFits(h) /\ completions[t] > 0
      /\ req[h].pc = "deduct" /\ RiderOf[t] \in Users
  BY ConstantsOK DEF DeductFare, At, IInv, TypeOK, ReqFits, Requests
<1>0. Fare \in Nat
  BY ConstantsOK DEF Fare, IInv, TypeOK
<1>2. CASE Finish(h) /\ UNCHANGED <<wallet, charges>>
  BY <1>2, FinishInv DEF DeductFare, history
<1>3. CASE Ledger!Deduct(RiderOf[t], Fare) /\ charges' = Count(charges, t)
  <2>1. \A u \in Trips : charges'[u] = IF u = t THEN charges[u] + 1 ELSE charges[u]
    BY <1>1, <1>3 DEF IInv, TypeOK, Count
  <2>2. charges' \in [Trips -> Nat]
    BY <1>1, <1>3, <2>1 DEF IInv, TypeOK, Count
  <2>3. /\ balance' \in [Users -> Nat] /\ points' \in [Users -> Nat]
        /\ books' \in [Users -> [Ledger!Types -> Nat]]
    BY <1>0, <1>1, <1>3, WalletTypes DEF IInv
  <2>4. UNCHANGED <<deploy, status, replica, traffic, ends, rewards, told>>
    BY DEF DeductFare
  <2>5. \A u \in Trips : /\ charges[u] \in Nat /\ rewards[u] \in Nat /\ rewards'[u] = rewards[u]
                         /\ rewards[u] + Cardinality(OwedTo(u)) <= charges[u]
    BY <2>4 DEF IInv, TypeOK, TripFits
  <2>6. \A u \in Trips : charges'[u] > charges[u] => completions[u] > 0
    BY <1>1, <2>1, <2>5
  <2>7. CASE Goto(h, "reward")
    <3>1. /\ q \in Requests /\ q.pc = "reward" /\ q.trip = t /\ q.next = req[h].next
          /\ q.snap = req[h].snap /\ req' = [req EXCEPT ![h] = q] /\ req'[h] = q
      BY <1>1, <2>7 DEF Goto, IInv, TypeOK, Requests, Pcs
    <3>2. ReqFits(h)'
      BY <1>1, <2>4, <3>1 DEF ReqFits, ends, Changing
    <3>3. ASSUME NEW u \in Trips PROVE rewards'[u] + Cardinality(OwedTo(u)') <= charges'[u]
      <4> HIDE DEF q
      <4>1. CASE u = t
        <5>1. Cardinality(OwedTo(u)') <= Cardinality(OwedTo(u)) + 1
                /\ Cardinality(OwedTo(u)') \in Nat
          BY <3>1, <4>1, OwedMoves DEF IInv
        <5> QED BY <2>1, <2>5, <4>1, <5>1, OwedIsFinite
      <4>2. CASE u # t
        <5>1. Cardinality(OwedTo(u)') = Cardinality(OwedTo(u))
          BY <1>1, <3>1, <4>2, OwedMoves DEF IInv, At
        <5> QED BY <2>1, <2>5, <4>2, <5>1
      <4> QED BY <4>1, <4>2
    <3>5. rewards' \in [Trips -> Nat]
      BY <2>4 DEF IInv, TypeOK
    <3> HIDE DEF q
    <3> QED BY <2>2, <2>3, <2>4, <2>6, <3>1, <3>2, <3>3, <3>5, SettleStep
  <2>8. CASE Lost(h)
    <3>1. req' = [req EXCEPT ![h] = Idle]
      BY <2>8 DEF Lost, Finish
    <3>2. ReqFits(h)'
      BY <2>8, FinishFits DEF Lost, IInv
    <3>3. ASSUME NEW u \in Trips PROVE rewards'[u] + Cardinality(OwedTo(u)') <= charges'[u]
      <4>1. Cardinality(OwedTo(u)') = Cardinality(OwedTo(u))
        BY <1>1, <3>1, IdleFits, OwedMoves DEF IInv, At, Idle
      <4> QED BY <2>1, <2>5, <4>1, OwedIsFinite
    <3>5. rewards' \in [Trips -> Nat]
      BY <2>4 DEF IInv, TypeOK
    <3> QED BY <2>2, <2>3, <2>4, <2>6, <3>1, <3>2, <3>3, <3>5, IdleFits, SettleStep
  <2> QED BY <1>2, <1>3, <2>7, <2>8 DEF DeductFare
<1> QED BY <1>2, <1>3 DEF DeductFare

LEMMA RewardInv == ASSUME IInv, NEW h \in Handlers, Reward(h) PROVE IInv'
<1> DEFINE t == req[h].trip
           q == [req[h] EXCEPT !.pc = "tell"]
<1>1. /\ req[h] \in Requests /\ t \in Trips /\ ReqFits(h) /\ completions[t] > 0
      /\ req[h].pc = "reward" /\ RiderOf[t] \in Users
  BY ConstantsOK DEF Reward, At, IInv, TypeOK, ReqFits, Requests
<1>2. UNCHANGED <<deploy, status, replica, traffic, ends, charges, told>>
  BY DEF Reward
<1>3. \A u \in Trips : /\ charges[u] \in Nat /\ rewards[u] \in Nat /\ charges'[u] = charges[u]
                       /\ rewards[u] + Cardinality(OwedTo(u)) <= charges[u]
  BY <1>2 DEF IInv, TypeOK, TripFits
<1>4. /\ rewards' \in [Trips -> Nat]
      /\ \A u \in Trips : rewards'[u] <= IF u = t THEN rewards[u] + 1 ELSE rewards[u]
  <2>1. CASE rewards' = Count(rewards, t)
    BY <1>1, <2>1 DEF IInv, TypeOK, Count
  <2>2. CASE UNCHANGED rewards
    BY <1>1, <2>2 DEF IInv, TypeOK
  <2> QED BY <2>1, <2>2 DEF Reward
<1>5. /\ balance' \in [Users -> Nat] /\ points' \in [Users -> Nat]
      /\ books' \in [Users -> [Ledger!Types -> Nat]]
  <2>1. CASE Ledger!Reward(RiderOf[t], Points)
    <3>1. Points \in Nat
      BY ConstantsOK DEF Points, IInv, TypeOK
    <3> QED BY <1>1, <2>1, <3>1, WalletTypes DEF IInv
  <2>2. CASE UNCHANGED wallet
    BY <2>2 DEF wallet, IInv, TypeOK
  <2> QED BY <2>1, <2>2 DEF Reward
<1>6. PICK r \in {q, Idle} : req' = [req EXCEPT ![h] = r] /\ ReqFits(h)'
  <2>1. CASE Goto(h, "tell")
    <3>1. req' = [req EXCEPT ![h] = q] /\ req'[h] = q
      BY <2>1 DEF Goto, IInv, TypeOK
    <3>2. ReqFits(h)'
      BY <1>1, <1>2, <3>1 DEF ReqFits, Requests, ends, Changing
    <3> QED BY <2>1, <3>1, <3>2 DEF IInv, TypeOK
  <2>2. CASE Lost(h)
    BY <2>2, FinishFits DEF Lost, Finish, IInv
  <2> QED BY <2>1, <2>2 DEF Reward
<1>7. r \in Requests /\ r.pc # "reward"
  BY <1>1, IdleFits DEF Requests, Pcs, Idle
<1>8. ASSUME NEW u \in Trips PROVE rewards'[u] + Cardinality(OwedTo(u)') <= charges'[u]
  <2>1. Cardinality(OwedTo(u)') = IF u = t THEN Cardinality(OwedTo(u)) - 1
                                  ELSE Cardinality(OwedTo(u))
    BY <1>1, <1>6, <1>7, OwedMoves DEF IInv, At
  <2> QED BY <1>3, <1>4, <2>1, OwedIsFinite
<1>9. /\ \A u \in Trips : charges'[u] > charges[u] => completions[u] > 0
      /\ charges' \in [Trips -> Nat]
  BY <1>2, <1>3 DEF IInv, TypeOK
<1> QED BY <1>2, <1>4, <1>5, <1>6, <1>7, <1>8, <1>9, SettleStep

LEMMA TellInv == ASSUME IInv, NEW h \in Handlers, Tell(h) PROVE IInv'
<1> DEFINE t == req[h].trip
<1>1. /\ req[h] \in Requests /\ t \in Trips /\ req[h].pc = "tell"
      /\ req[h].next \in TripStatuses
      /\ req[h].next = "completed" => completions[t] > 0
  BY DEF Tell, At, IInv, TypeOK, ReqFits, Requests, Changing
<1>2. /\ UNCHANGED <<deploy, status, replica, wallet, traffic, ends, charges, rewards>>
      /\ told' = [told EXCEPT ![t] = @ \cup {req[h].next}]
      /\ req' = [req EXCEPT ![h] = Idle]
  BY DEF Tell, Finish
<1>3. /\ TypeOK /\ \A g \in Handlers : ReqFits(g)
      /\ completions' \in [Trips -> Nat] /\ \A u \in Trips : completions'[u] >= completions[u]
  BY <1>2 DEF IInv, TypeOK, ends
<1>4. (\A g \in Handlers : ReqFits(g)') /\ req' \in [Handlers -> Requests]
  BY <1>2, <1>3, OthersFit, FinishFits, IdleFits DEF Tell
<1>5. TypeOK'
  <2>1. told' \in [Trips -> SUBSET TripStatuses]
    BY <1>1, <1>2, <1>3 DEF TypeOK
  <2> QED BY <1>2, <1>3, <1>4, <2>1 DEF TypeOK, Requests, wallet, traffic, ends
<1>6. ASSUME NEW u \in Trips PROVE TripFits(u)'
  <2>1. Cardinality(OwedTo(u)') = Cardinality(OwedTo(u))
    BY <1>1, <1>2, <1>3, IdleFits, OwedMoves DEF At, Idle
  <2>2. TripFits(u) /\ (told'[u] = IF u = t THEN told[u] \cup {req[h].next} ELSE told[u])
    BY <1>1, <1>2, <1>3 DEF IInv, TypeOK
  <2> QED BY <1>1, <1>2, <2>1, <2>2 DEF TripFits, ends
<1> QED BY <1>4, <1>5, <1>6 DEF IInv

LEMMA FailInv == ASSUME IInv, NEW h \in Handlers, Fail(h) PROVE IInv'
  BY FinishInv DEF Fail

LEMMA ReplicateInv == ASSUME IInv, NEW t \in Trips, Replicate(t) PROVE IInv'
<1>1. UNCHANGED <<deploy, status, balance, points, books, req, moves, overlapped,
                  completions, settlements, charges, rewards, told>>
  BY DEF Replicate, wallet, history, traffic, ends
<1>2. TypeOK'
  BY <1>1 DEF Replicate, IInv, TypeOK
<1>3. \A h \in Handlers : ReqFits(h)'
  BY <1>1 DEF IInv, ReqFits
<1>4. ASSUME NEW u \in Trips PROVE TripFits(u)'
  <2>1. OwedTo(u)' = OwedTo(u)
    BY <1>1 DEF OwedTo, At
  <2>2. replica'[u] \in {replica[u], status[u]}
    BY DEF Replicate, IInv, TypeOK
  <2> QED BY <1>1, <2>1, <2>2 DEF IInv, TripFits
<1> QED BY <1>2, <1>3, <1>4 DEF IInv

LEMMA TopUpInv ==
  ASSUME IInv, NEW u \in Users, NEW a \in TopUps, TopUp(u, a) PROVE IInv'
<1>1. UNCHANGED <<deploy, status, replica, req, moves, overlapped, completions, settlements,
                  charges, rewards, told>>
  BY DEF TopUp, history, traffic, ends
<1>2. TypeOK'
  <2>1. a \in Nat
    BY ConstantsOK
  <2>2. /\ balance' \in [Users -> Nat] /\ points' \in [Users -> Nat]
        /\ books' \in [Users -> [Ledger!Types -> Nat]]
    BY <2>1, WalletTypes DEF TopUp, IInv
  <2> QED BY <1>1, <2>2 DEF IInv, TypeOK
<1>3. \A h \in Handlers : ReqFits(h)'
  BY <1>1 DEF IInv, ReqFits
<1>4. ASSUME NEW t \in Trips PROVE TripFits(t)'
  <2>1. OwedTo(t)' = OwedTo(t)
    BY <1>1 DEF OwedTo, At
  <2> QED BY <1>1, <2>1 DEF IInv, TripFits
<1> QED BY <1>2, <1>3, <1>4 DEF IInv

LEMMA StutterInv == IInv /\ UNCHANGED vars => IInv'
<1> SUFFICES ASSUME IInv, UNCHANGED vars PROVE IInv'
  OBVIOUS
<1>1. TypeOK'
  BY DEF vars, IInv, TypeOK
<1>2. \A h \in Handlers : ReqFits(h)'
  BY DEF vars, IInv, ReqFits
<1>3. ASSUME NEW t \in Trips PROVE TripFits(t)'
  <2>1. OwedTo(t)' = OwedTo(t)
    BY DEF OwedTo, At, vars
  <2> QED BY <2>1 DEF vars, IInv, TripFits
<1> QED BY <1>1, <1>2, <1>3 DEF IInv

LEMMA NextIInv == IInv /\ [Next]_vars => IInv'
<1> SUFFICES ASSUME IInv, [Next]_vars PROVE IInv'
  OBVIOUS
<1>1. ASSUME NEW h \in Handlers, NEW t \in Trips,
             \/ StartCreate(h, t)
             \/ \E next \in Targets : StartUpdate(h, t, next) \/ StartDriver(h, t, next)
      PROVE  IInv'
  BY <1>1, StartCreateInv, AskInv DEF StartUpdate, StartDriver
<1>2. ASSUME NEW h \in Handlers, Step(h) \/ Fail(h) PROVE IInv'
  BY <1>2, EnsureBalanceInv, CreateTripInv, ReadInv, WriteStatusInv, DriverWriteInv, DeductFareInv,
     RewardInv, TellInv, FailInv DEF Step
<1> QED BY <1>1, <1>2, ReplicateInv, TopUpInv, StutterInv DEF Next

LEMMA IInvAlways == Spec => []IInv
  BY InitIInv, NextIInv, PTL DEF Spec

-----------------------------------------------------------------------------
(* The types of booking and settling hold in every state.                  *)
THEOREM TypeCorrect == Spec => []TypeOK
  BY IInvAlways, PTL DEF IInv

(* Points are given for fares that were taken, never for none.             *)
THEOREM RewardsAlwaysEarned == Spec => []RewardsAreEarned
<1>1. IInv => RewardsAreEarned
  <2> SUFFICES ASSUME IInv, NEW t \in Trips PROVE rewards[t] <= charges[t]
    BY DEF RewardsAreEarned
  <2>1. rewards[t] \in Nat /\ charges[t] \in Nat
    BY DEF IInv, TypeOK
  <2>2. rewards[t] + Cardinality(OwedTo(t)) <= charges[t]
    BY DEF IInv, TripFits
  <2> QED BY <2>1, <2>2, OwedIsFinite
<1> QED BY <1>1, IInvAlways, PTL

(* A fare is taken only for a trip that has turned completed.              *)
THEOREM ChargesFollowCompletions == Spec => []ChargeFollowsCompletion
<1>1. IInv => ChargeFollowsCompletion
  BY DEF IInv, TripFits, ChargeFollowsCompletion
<1> QED BY <1>1, IInvAlways, PTL

(* The sockets are told of a completion only after it was written.         *)
THEOREM CompletionsToldAreTrue == Spec => []ToldCompletions
<1>1. IInv => ToldCompletions
  BY DEF IInv, TripFits, ToldCompletions
<1> QED BY <1>1, IInvAlways, PTL

-----------------------------------------------------------------------------
(* Where GetTrip reads the primary, a trip whose requests come one at a     *)
(* time has its completions settled once: nobody writes between a snapshot  *)
(* and the write that is judged on it.                                      *)

Alone ==
  \A g, h \in Handlers :
    g # h /\ Serves(g, req[h].trip) /\ ~At(h, "idle") => req[h].trip \in overlapped

Judging(h) == At(h, "write") /\ req[h].next = "completed"

SnapshotsHold ==
  \A h \in Handlers :
    Judging(h) /\ req[h].trip \notin overlapped => req[h].snap = status[req[h].trip]

SettleInv == ~HasReplica => Alone /\ SnapshotsHold /\ SettledOnce

(* A request moves on to q, and it is alone with its trip or was before;    *)
(* what is written is written to the trip it was about.                     *)
LEMMA SettleFrame ==
  ASSUME TypeOK, Alone, SnapshotsHold, NEW h \in Handlers, NEW q \in Requests,
         req' = [req EXCEPT ![h] = q],
         overlapped \subseteq overlapped',
         q.pc # "idle" =>
           \/ ~At(h, "idle") /\ q.trip = req[h].trip
           \/ \A g \in Handlers \ {h} : Serves(g, q.trip) => q.trip \in overlapped',
         \/ UNCHANGED status
         \/ ~At(h, "idle") /\ \A t \in Trips : t # req[h].trip => status'[t] = status[t],
         q.pc = "write" /\ q.next = "completed" /\ q.trip \notin overlapped'
           => q.snap = status'[q.trip],
         \A g \in Handlers : ~At(g, "idle") => req[g].trip \in Trips
  PROVE  Alone' /\ SnapshotsHold'
<1>1. \A g \in Handlers : req'[g] = IF g = h THEN q ELSE req[g]
  BY DEF TypeOK
<1>2. Alone'
  <2> SUFFICES ASSUME NEW g \in Handlers, NEW f \in Handlers, g # f,
                      req'[g].pc # "idle", req'[f].pc # "idle", req'[g].trip = req'[f].trip
               PROVE  req'[f].trip \in overlapped'
    BY DEF Alone, Serves, At
  <2>1. CASE g # h /\ f # h
    BY <1>1, <2>1 DEF Alone, Serves, At
  <2>2. CASE g = h /\ f # h
    BY <1>1, <2>2 DEF Alone, Serves, At
  <2>3. CASE f = h /\ g # h
    BY <1>1, <2>3 DEF Alone, Serves, At
  <2> QED BY <2>1, <2>2, <2>3
<1>3. ASSUME NEW g \in Handlers, Judging(g)', req'[g].trip \notin overlapped'
      PROVE  req'[g].snap = status'[req'[g].trip]
  <2>1. CASE g = h
    BY <1>1, <1>3, <2>1 DEF Judging, At
  <2>2. CASE g # h
    <3>1. req'[g] = req[g] /\ req[g].trip \in Trips /\ Judging(g) /\ req[g].trip \notin overlapped
      BY <1>1, <1>3, <2>2 DEF Judging, At
    <3>2. ~At(h, "idle") => req[g].trip # req[h].trip
      BY <2>2, <3>1 DEF Alone, Serves, Judging, At
    <3> QED BY <3>1, <3>2 DEF SnapshotsHold
  <2> QED BY <2>1, <2>2
<1> QED BY <1>2, <1>3 DEF SnapshotsHold

LEMMA StepSettle == ASSUME IInv, SettleInv, [Next]_vars PROVE SettleInv'
<1>0. /\ TypeOK /\ \A h \in Handlers : ReqFits(h) /\ req[h] \in Requests
      /\ \A h \in Handlers : ~At(h, "idle") => req[h].trip \in Trips
  BY DEF IInv, TypeOK, ReqFits, At, Requests
<1>1. deploy' = deploy
  BY DEF Next, Step, StartCreate, StartUpdate, StartDriver, Ask, EnsureBalance, CreateTrip,
     GetTrip, WriteStatus, DeductFare, Reward, Tell, DriverGet, DriverWrite, Fail, Replicate,
     TopUp, vars
<1> SUFFICES ASSUME ~HasReplica PROVE Alone' /\ SnapshotsHold' /\ SettledOnce'
  BY <1>1 DEF SettleInv, HasReplica
<1>2. Alone /\ SnapshotsHold /\ \A t \in Trips \ overlapped : settlements[t] <= completions[t]
  BY DEF SettleInv, SettledOnce
<1>3. ASSUME overlapped \subseteq overlapped', UNCHANGED ends PROVE SettledOnce'
  BY <1>2, <1>3 DEF SettledOnce, ends
<1>4. ASSUME NEW h \in Handlers, NEW pc \in Pcs, Goto(h, pc), ~At(h, "idle"),
             UNCHANGED <<status, overlapped>>, pc # "write"
      PROVE  Alone' /\ SnapshotsHold'
  <2> DEFINE q == [req[h] EXCEPT !.pc = pc]
  <2>1. q \in Requests /\ q.pc = pc /\ q.trip = req[h].trip /\ req' = [req EXCEPT ![h] = q]
    BY <1>0, <1>4 DEF Goto, TypeOK, Requests
  <2> HIDE DEF q
  <2> QED BY <1>0, <1>2, <1>4, <2>1, SettleFrame
<1>5. ASSUME NEW h \in Handlers, Finish(h), ~At(h, "idle"), UNCHANGED <<status, overlapped>>
      PROVE  Alone' /\ SnapshotsHold'
  <2>1. Idle.pc = "idle"
    BY DEF Idle
  <2> QED BY <1>0, <1>2, <1>5, <2>1, SettleFrame, IdleFits DEF Finish
<1>6. ASSUME NEW h \in Handlers, NEW t \in Trips, StartCreate(h, t)
      PROVE  Alone' /\ SnapshotsHold' /\ SettledOnce'
  <2> DEFINE q == [pc |-> "ensureBalance", trip |-> t, next |-> "requested", snap |-> "none"]
  <2>1. q \in Requests /\ q.pc = "ensureBalance" /\ q.trip = t /\ req' = [req EXCEPT ![h] = q]
    BY <1>6 DEF StartCreate, Serve, Requests, Pcs, TripStatuses
  <2>2. UNCHANGED <<status, overlapped, ends>> /\ \A g \in Handlers : ~Serves(g, t)
    BY <1>6 DEF StartCreate, history, traffic
  <2> HIDE DEF q
  <2> QED BY <1>0, <1>2, <1>3, <2>1, <2>2, SettleFrame
<1>7. ASSUME NEW h \in Handlers, NEW t \in Trips, NEW next \in Targets,
             NEW pc \in {"getTrip", "write", "driverGet", "driverWrite"}, Ask(h, t, next, pc),
             pc = "write" => next # "completed"
      PROVE  Alone' /\ SnapshotsHold' /\ SettledOnce'
  <2> DEFINE q == [pc |-> pc, trip |-> t, next |-> next, snap |-> "none"]
  <2>1. /\ q \in Requests /\ q.pc = pc /\ q.trip = t /\ q.next = next
        /\ req' = [req EXCEPT ![h] = q]
    BY <1>7, ConstantsOK DEF Ask, Serve, Requests, Pcs
  <2>2. UNCHANGED <<status, ends>> /\ overlapped \subseteq overlapped'
    BY <1>7 DEF Ask
  <2>3. \A g \in Handlers : Serves(g, t) => t \in overlapped'
    BY <1>7 DEF Ask
  <2> HIDE DEF q
  <2> QED BY <1>0, <1>2, <1>3, <1>7, <2>1, <2>2, <2>3, SettleFrame
<1>8. ASSUME NEW h \in Handlers, GetTrip(h) \/ DriverGet(h)
      PROVE  Alone' /\ SnapshotsHold' /\ SettledOnce'
  <2>1. UNCHANGED <<status, overlapped, ends>> /\ ~At(h, "idle")
    BY <1>8 DEF GetTrip, DriverGet, history, traffic, At
  <2>2. ASSUME NEW pc \in {"write", "driverWrite"},
               req' = [req EXCEPT ![h].snap = Seen(req[h].trip), ![h].pc = pc]
        PROVE  Alone' /\ SnapshotsHold'
    <3> DEFINE q == [req[h] EXCEPT !.snap = status[req[h].trip], !.pc = pc]
    <3>1. status[req[h].trip] \in TripStatuses \cup {"none"}
      BY <1>0, <2>1 DEF TypeOK
    <3>2. /\ q \in Requests /\ q.pc = pc /\ q.trip = req[h].trip /\ q.snap = status[q.trip]
          /\ req' = [req EXCEPT ![h] = q]
      BY <1>0, <2>2, <3>1 DEF Requests, Pcs, Seen, TypeOK
    <3> HIDE DEF q
    <3> QED BY <1>0, <1>2, <2>1, <3>2, SettleFrame
  <2> QED BY <1>3, <1>5, <1>8, <2>1, <2>2 DEF GetTrip, DriverGet
<1>9. ASSUME NEW h \in Handlers, NEW pc \in {"deduct", "tell"}, Goto(h, pc), ~At(h, "idle"),
             UpdateTripStatus(req[h].trip, req[h].next), UNCHANGED overlapped
      PROVE  Alone' /\ SnapshotsHold' /\ \A t \in Trips : completions'[t] >= completions[t]
  <2> DEFINE q == [req[h] EXCEPT !.pc = pc]
  <2>1. q \in Requests /\ q.pc = pc /\ q.trip = req[h].trip /\ req' = [req EXCEPT ![h] = q]
    BY <1>0, <1>9 DEF Goto, TypeOK, Requests, Pcs
  <2>2. \A t \in Trips : t # req[h].trip => status'[t] = status[t]
    BY <1>0, <1>9 DEF UpdateTripStatus, TypeOK
  <2>3. \A t \in Trips : completions'[t] >= completions[t]
    BY <1>0, <1>9 DEF UpdateTripStatus, Count, TypeOK
  <2> HIDE DEF q
  <2> QED BY <1>0, <1>2, <1>9, <2>1, <2>2, <2>3, SettleFrame
<1>10. ASSUME NEW h \in Handlers, WriteStatus(h)
       PROVE  Alone' /\ SnapshotsHold' /\ SettledOnce'
  <2> DEFINE t == req[h].trip
  <2>1. /\ At(h, "write") /\ ~At(h, "idle") /\ t \in Trips
        /\ UpdateTripStatus(t, req[h].next) /\ UNCHANGED overlapped
    BY <1>0, <1>10 DEF WriteStatus, At, traffic
  <2>2. Goto(h, "deduct") \/ Goto(h, "tell")
    BY <1>10, Zenon DEF WriteStatus
  <2>3. Alone' /\ SnapshotsHold' /\ \A u \in Trips : completions'[u] >= completions[u]
    BY <1>9, <2>1, <2>2
  <2>4. CASE Settles(h)
    <3>1. settlements' = [settlements EXCEPT ![t] = @ + 1]
      BY <1>10, <2>4 DEF WriteStatus, Count
    <3>2. t \notin overlapped => status[t] # "completed"
      BY <1>2, <2>1, <2>4 DEF SnapshotsHold, Judging, Settles
    <3>3. t \notin overlapped => completions'[t] = completions[t] + 1
      BY <1>0, <2>1, <2>4, <3>2 DEF UpdateTripStatus, Count, Settles, TypeOK
    <3>4. \A u \in Trips : /\ settlements[u] \in Nat /\ completions[u] \in Nat
                           /\ completions'[u] \in Nat
                           /\ settlements'[u] = IF u = t THEN settlements[u] + 1 ELSE settlements[u]
      <4>1. \A u \in Trips : completions'[u] \in Nat
        BY <1>0, <2>1 DEF UpdateTripStatus, Count, TypeOK
      <4> QED BY <1>0, <3>1, <4>1 DEF TypeOK
    <3> QED BY <1>2, <2>1, <2>3, <3>3, <3>4 DEF SettledOnce
  <2>5. CASE ~Settles(h)
    <3>1. settlements' = settlements
      BY <1>10, <2>5 DEF WriteStatus
    <3>2. \A u \in Trips : /\ settlements[u] \in Nat /\ completions[u] \in Nat
                           /\ completions'[u] \in Nat
      BY <1>0, <2>1 DEF UpdateTripStatus, Count, TypeOK
    <3> QED BY <1>2, <2>1, <2>3, <3>1, <3>2 DEF SettledOnce
  <2> QED BY <2>3, <2>4, <2>5
<1>11. ASSUME NEW h \in Handlers, DriverWrite(h)
       PROVE  Alone' /\ SnapshotsHold' /\ SettledOnce'
  <2>1. /\ ~At(h, "idle") /\ Goto(h, "tell") /\ UpdateTripStatus(req[h].trip, req[h].next)
        /\ UNCHANGED <<overlapped, settlements>>
    BY <1>11 DEF DriverWrite, At, traffic
  <2>2. Alone' /\ SnapshotsHold' /\ \A u \in Trips : completions'[u] >= completions[u]
    BY <1>9, <2>1
  <2>3. \A u \in Trips : /\ settlements[u] \in Nat /\ completions[u] \in Nat
                         /\ completions'[u] \in Nat
    BY <1>0, <2>1 DEF UpdateTripStatus, Count, TypeOK
  <2> QED BY <1>2, <2>1, <2>2, <2>3 DEF SettledOnce
<1>12. ASSUME NEW h \in Handlers,
              EnsureBalance(h) \/ DeductFare(h) \/ Reward(h) \/ Tell(h) \/ Fail(h)
       PROVE  Alone' /\ SnapshotsHold' /\ SettledOnce'
  <2>1. UNCHANGED <<status, overlapped, ends>> /\ ~At(h, "idle")
    BY <1>12 DEF EnsureBalance, DeductFare, Reward, Tell, Fail, history, traffic, At
  <2>2. Finish(h) \/ Goto(h, "create") \/ Goto(h, "reward") \/ Goto(h, "tell")
    BY <1>12, Zenon DEF EnsureBalance, DeductFare, Reward, Tell, Fail, Lost
  <2> QED BY <1>3, <1>4, <1>5, <2>1, <2>2 DEF Pcs
<1>13. ASSUME NEW h \in Handlers, CreateTrip(h)
       PROVE  Alone' /\ SnapshotsHold' /\ SettledOnce'
  <2>1. /\ ~At(h, "idle") /\ req' = [req EXCEPT ![h] = Idle]
        /\ \A t \in Trips : t # req[h].trip => status'[t] = status[t]
        /\ UNCHANGED <<overlapped, ends>> /\ Idle.pc = "idle"
    BY <1>0, <1>13 DEF CreateTrip, Finish, history, traffic, TypeOK, At, Idle
  <2> QED BY <1>0, <1>2, <1>3, <2>1, SettleFrame, IdleFits
<1>14. CASE UNCHANGED <<req, status, overlapped, ends>>
  BY <1>2, <1>3, <1>14 DEF Alone, SnapshotsHold, Judging, Serves, At
<1>15. ASSUME NEW h \in Handlers, NEW t \in Trips, NEW next \in Targets,
              StartUpdate(h, t, next) \/ StartDriver(h, t, next)
       PROVE  Alone' /\ SnapshotsHold' /\ SettledOnce'
  BY <1>7, <1>15 DEF StartUpdate, StartDriver
<1>16. ASSUME NEW t \in Trips, Replicate(t) PROVE UNCHANGED <<req, status, overlapped, ends>>
  BY <1>16 DEF Replicate, history, traffic
<1>17. ASSUME NEW u \in Users, NEW a \in TopUps, TopUp(u, a)
       PROVE  UNCHANGED <<req, status, overlapped, ends>>
  BY <1>17 DEF TopUp, history, traffic
<1>18. CASE UNCHANGED vars
  BY <1>14, <1>18 DEF vars, ends
<1> QED
  BY <1>6, <1>8, <1>10, <1>11, <1>12, <1>13, <1>14, <1>15, <1>16, <1>17, <1>18 DEF Next, Step

(* A completion is settled once where the requests of a trip come one at a  *)
(* time and GetTrip reads the primary, whatever fails.                      *)
THEOREM CompletionsSettledOnce == Spec => []SettledOnce
<1>1. Init => SettleInv
  BY DEF Init, SettleInv, Alone, SnapshotsHold, Judging, SettledOnce, At, Idle
<1>2. IInv /\ SettleInv /\ [Next]_vars => SettleInv'
  BY StepSettle
<1>3. SettleInv => SettledOnce
  BY DEF SettleInv, SettledOnce
<1> QED BY IInvAlways, <1>1, <1>2, <1>3, PTL DEF Spec
=============================================================================
