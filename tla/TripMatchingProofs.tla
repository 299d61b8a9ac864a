------------------------- MODULE TripMatchingProofs -------------------------
(***************************************************************************)
(* Proofs about TripMatching, for any sets of trips, drivers and consumers *)
(* and any number of faults: type correctness, that only stored trips are  *)
(* handled, that SQS loses no event and that the Redis list and the        *)
(* monolith's direct call never give a trip a second driver.               *)
(***************************************************************************)
EXTENDS TripMatching, TLAPS

(* A handling that still has work to do is about a trip, and that of a     *)
(* createTrip request is about its own trip.                               *)
Held ==
  /\ \A m \in Matchers :
       work[m].pc \in {"new", "publish", "pick", "assign", "delete"}
         => work[m].trip \in Trips
  /\ \A t \in Trips : work[t].trip = t

Base == TypeOK /\ Held

USE DEF Matchers, Backend, Inline

(* The services are not put together anew while they run.                  *)
LEMMA StepDeploy == [Next]_vars => UNCHANGED deploy
  BY DEF Next, Consume, Match, Create, Publish, PublishFails, Take, DeleteMessage,
     DeleteFails, PickDriver, AssignTrip, HandlerFails, VisibilityExpires, RequestDies,
     EndAssignment, Crash, Restart, vars

LEMMA InitBase == Init => Base
  BY ConstantsOK DEF Init, Base, TypeOK, Held, Booking, Nothing, Pcs

-----------------------------------------------------------------------------
(* What returning from a handling does, whoever the handling belongs to.   *)

LEMMA RestIsIdle ==
  ASSUME Base, NEW m \in Matchers
  PROVE  /\ Rest(m) \in [pc : Pcs, trip : Trips \cup {NoTrip},
                         driver : Drivers \cup {NoDriver}]
         /\ Rest(m).pc = "idle"
         /\ Rest(m).trip = IF m \in Trips THEN m ELSE NoTrip
  BY DEF Rest, Nothing, Pcs

LEMMA NilKeepsBase ==
  ASSUME Base, NEW m \in Matchers, At(m, "pick") \/ At(m, "assign"), ReturnNil(m)
  PROVE  /\ answered' \subseteq Trips
         /\ work' \in [Matchers -> [pc : Pcs, trip : Trips \cup {NoTrip},
                                    driver : Drivers \cup {NoDriver}]]
         /\ Held'
<1>1. work[m].trip \in Trips
  BY DEF Base, Held, At
<1>2. CASE m \in Workers /\ Backend = "sqs"
  <2>1. work' = [work EXCEPT ![m].pc = "delete", ![m].driver = NoDriver]
    BY <1>2 DEF ReturnNil
  <2>2. m \notin Trips
    BY <1>2, ConstantsOK
  <2>3. \A n \in Matchers : work'[n] = IF n = m
          THEN [pc |-> "delete", trip |-> work[m].trip, driver |-> NoDriver] ELSE work[n]
    BY <2>1 DEF Base, TypeOK
  <2>4. work' \in [Matchers -> [pc : Pcs, trip : Trips \cup {NoTrip},
                                driver : Drivers \cup {NoDriver}]]
    BY <1>1, <2>1, <2>3 DEF Base, TypeOK, Pcs
  <2>5. Held'
    BY <1>1, <2>2, <2>3 DEF Base, Held
  <2> QED BY <1>1, <2>4, <2>5 DEF Base, TypeOK, ReturnNil
<1>3. CASE ~(m \in Workers /\ Backend = "sqs")
  <2>1. work' = [work EXCEPT ![m] = Rest(m)]
    BY <1>3 DEF ReturnNil
  <2> QED BY <1>1, <2>1, RestIsIdle DEF Base, TypeOK, Held, ReturnNil
<1> QED BY <1>2, <1>3

LEMMA ErrorKeepsBase ==
  ASSUME Base, NEW m \in Matchers, work' = [work EXCEPT ![m] = Rest(m)]
  PROVE  /\ work' \in [Matchers -> [pc : Pcs, trip : Trips \cup {NoTrip},
                                    driver : Drivers \cup {NoDriver}]]
         /\ Held'
<1>1. \A n \in Matchers : work'[n] = IF n = m THEN Rest(m) ELSE work[n]
  BY DEF Base, TypeOK
<1>2. work' \in [Matchers -> [pc : Pcs, trip : Trips \cup {NoTrip},
                              driver : Drivers \cup {NoDriver}]]
  BY <1>1, RestIsIdle DEF Base, TypeOK
<1>3. Held'
  BY <1>1, RestIsIdle DEF Base, Held
<1> QED BY <1>2, <1>3

LEMMA GiveKeepsTypes ==
  ASSUME Base, NEW m \in Matchers, GiveDriver(m)
  PROVE  driver' \in [Trips -> Drivers \cup {NoDriver}] /\ taken' \in [Trips -> Nat]
<1>1. work[m].driver \in Drivers \cup {NoDriver}
  BY DEF Base, TypeOK
<1>2. driver' \in [Trips -> Drivers \cup {NoDriver}]
  BY <1>1 DEF Base, TypeOK, GiveDriver
<1>3. taken \in [Trips -> Nat] /\ taken' = [taken EXCEPT ![work[m].trip] = @ + 1]
  BY DEF Base, TypeOK, GiveDriver
<1>4. \A t \in Trips : taken'[t] \in Nat
  BY <1>3
<1> QED BY <1>2, <1>3, <1>4

LEMMA StepBase == Base /\ [Next]_vars => Base'
<1> SUFFICES ASSUME Base, [Next]_vars PROVE Base'
  OBVIOUS
<1> USE DEF Base, TypeOK
<1>1. ASSUME NEW t \in Trips, Create(t) PROVE Base'
  BY <1>1, ConstantsOK DEF Create, Goto, At, Held, AfterCreate, Pcs
<1>2. ASSUME NEW t \in Trips, Publish(t) PROVE Base'
  BY <1>2, ConstantsOK DEF Publish, Goto, At, Held, Pcs
<1>3. ASSUME NEW t \in Trips, PublishFails(t) PROVE Base'
  BY <1>3, ConstantsOK DEF PublishFails, Fault, Goto, At, Held, Pcs
<1>4. ASSUME NEW w \in Workers, NEW t \in Trips, Take(w, t) PROVE Base'
  BY <1>4, ConstantsOK DEF Take, At, Held, Pcs
<1>5. ASSUME NEW w \in Workers, DeleteMessage(w) PROVE Base'
  BY <1>5, ConstantsOK DEF DeleteMessage, At, Held, Nothing, Pcs
<1>6. ASSUME NEW w \in Workers, DeleteFails(w) PROVE Base'
  BY <1>6, ConstantsOK DEF DeleteFails, Fault, At, Held, Nothing, Pcs
<1>7. ASSUME NEW m \in Matchers, PickDriver(m) PROVE Base'
  <2>1. ASSUME NEW d \in FreeDrivers, UNCHANGED answered,
               work' = [work EXCEPT ![m].pc = "assign", ![m].driver = d]
        PROVE  Base'
    BY <1>7, <2>1, ConstantsOK DEF PickDriver, At, Held, Pcs, FreeDrivers
  <2>2. CASE ReturnNil(m)
    BY <1>7, <2>2, NilKeepsBase DEF PickDriver
  <2> QED BY <1>7, <2>1, <2>2 DEF PickDriver
<1>8. ASSUME NEW m \in Matchers, AssignTrip(m) PROVE Base'
  <2>1. CASE GiveDriver(m) /\ ReturnNil(m) /\ UNCHANGED queue
    BY <1>8, <2>1, NilKeepsBase, GiveKeepsTypes DEF AssignTrip
  <2>2. CASE ReturnError(m) /\ UNCHANGED <<driver, taken>>
    BY <1>8, <2>2, ErrorKeepsBase DEF AssignTrip, ReturnError
  <2> QED BY <1>8, <2>1, <2>2 DEF AssignTrip
<1>9. ASSUME NEW m \in Matchers, HandlerFails(m) PROVE Base'
  <2>1. driver' \in [Trips -> Drivers \cup {NoDriver}] /\ taken' \in [Trips -> Nat]
    BY <1>9, GiveKeepsTypes DEF HandlerFails
  <2>2. faults' \in 0 .. MaxFaults
    BY <1>9, ConstantsOK DEF HandlerFails, Fault
  <2>3. work' = [work EXCEPT ![m] = Rest(m)]
    BY <1>9 DEF HandlerFails, ReturnError
  <2> QED BY <1>9, <2>1, <2>2, <2>3, ErrorKeepsBase DEF HandlerFails, ReturnError
<1>11. ASSUME NEW t \in Trips, VisibilityExpires(t) PROVE Base'
  BY <1>11, ConstantsOK DEF VisibilityExpires, Fault, Held
<1>12. ASSUME NEW t \in Trips, RequestDies(t) PROVE Base'
  <2>1. faults' \in 0 .. MaxFaults
    BY <1>12, ConstantsOK DEF RequestDies, StopsAt, Fault
  <2> QED BY <1>12, <2>1, ErrorKeepsBase DEF RequestDies
<1>13. ASSUME NEW t \in Trips, EndAssignment(t) PROVE Base'
  BY <1>13 DEF EndAssignment, Held
<1>14. ASSUME NEW w \in Workers, Crash(w) PROVE Base'
  BY <1>14, ConstantsOK DEF Crash, StopsAt, Fault, Held, Nothing, Pcs
<1>15. ASSUME NEW w \in Workers, Restart(w) PROVE Base'
  BY <1>15, ConstantsOK DEF Restart, Held, Nothing, Pcs
<1>16. CASE UNCHANGED vars
  BY <1>16 DEF vars, Held
<1> QED
  BY <1>1, <1>2, <1>3, <1>4, <1>5, <1>6, <1>7, <1>8, <1>9, <1>11, <1>12,
     <1>13, <1>14, <1>15, <1>16 DEF Next, Consume, Match

(* Type correctness of the matching, for every backend.                    *)
THEOREM TypeCorrect == Spec => []TypeOK
<1>1. Base => TypeOK
  BY DEF Base
<1> QED BY InitBase, StepBase, <1>1, PTL DEF Spec

-----------------------------------------------------------------------------
(* Every handling is about a stored trip.  Beyond the property itself the  *)
(* induction needs that a request which is about to publish has stored its *)
(* trip.                                                                   *)

Stored == \A t \in Trips : At(t, "publish") => t \in rows
StoredInv == EventsHaveTrips /\ Stored

LEMMA StepStored == Base /\ StoredInv /\ [Next]_vars => StoredInv'
<1> SUFFICES ASSUME Base, StoredInv, [Next]_vars PROVE StoredInv'
  OBVIOUS
<1> USE DEF StoredInv, EventsHaveTrips, Stored, At
<1>0. /\ work \in [Matchers -> [pc : Pcs, trip : Trips \cup {NoTrip},
                               driver : Drivers \cup {NoDriver}]]
      /\ Workers \cap Trips = {}
  BY ConstantsOK DEF Base, TypeOK
<1>1. ASSUME NEW t \in Trips, Create(t) PROVE StoredInv'
  BY <1>0, <1>1 DEF Create, Goto
<1>2. ASSUME NEW t \in Trips, Publish(t) \/ PublishFails(t) PROVE StoredInv'
  BY <1>0, <1>2 DEF Publish, PublishFails, Goto
<1>3. ASSUME NEW w \in Workers, NEW t \in Trips, Take(w, t) PROVE StoredInv'
  BY <1>0, <1>3 DEF Take
<1>4. ASSUME NEW w \in Workers, DeleteMessage(w) \/ DeleteFails(w) PROVE StoredInv'
  BY <1>0, <1>4 DEF DeleteMessage, DeleteFails, Nothing
<1>5. ASSUME NEW m \in Matchers, work' = [work EXCEPT ![m] = Rest(m)],
             UNCHANGED <<rows, queue, hidden>>
      PROVE  StoredInv'
  BY <1>0, <1>5 DEF Rest, Nothing
<1>6. ASSUME NEW m \in Matchers, ReturnNil(m), UNCHANGED <<rows, queue, hidden>>
      PROVE  StoredInv'
  <2>1. CASE m \in Workers /\ Backend = "sqs"
    BY <1>0, <1>6, <2>1 DEF ReturnNil
  <2>2. CASE ~(m \in Workers /\ Backend = "sqs")
    BY <1>5, <1>6, <2>2 DEF ReturnNil
  <2> QED BY <2>1, <2>2
<1>7. ASSUME NEW m \in Matchers, PickDriver(m) PROVE StoredInv'
  <2>1. ASSUME NEW d \in FreeDrivers,
               work' = [work EXCEPT ![m].pc = "assign", ![m].driver = d]
        PROVE  StoredInv'
    BY <1>0, <1>7, <2>1 DEF PickDriver
  <2> QED BY <1>6, <1>7, <2>1 DEF PickDriver
<1>8. ASSUME NEW m \in Matchers, AssignTrip(m) PROVE StoredInv'
  BY <1>5, <1>6, <1>8 DEF AssignTrip, ReturnError
<1>9. ASSUME NEW m \in Matchers, HandlerFails(m) PROVE StoredInv'
  BY <1>5, <1>9 DEF HandlerFails, ReturnError
<1>11. ASSUME NEW t \in Trips, VisibilityExpires(t) \/ EndAssignment(t)
       PROVE  StoredInv'
  BY <1>11 DEF VisibilityExpires, EndAssignment
<1>12. ASSUME NEW t \in Trips, RequestDies(t) PROVE StoredInv'
  BY <1>5, <1>12 DEF RequestDies
<1>13. ASSUME NEW w \in Workers, Crash(w) \/ Restart(w) PROVE StoredInv'
  BY <1>0, <1>13 DEF Crash, Restart, Nothing
<1>14. CASE UNCHANGED vars
  BY <1>14 DEF vars
<1> QED
  BY <1>1, <1>2, <1>3, <1>4, <1>7, <1>8, <1>9, <1>11, <1>12, <1>13, <1>14
     DEF Next, Consume, Match

(* A consumer only ever handles trips that are in the trips table: with    *)
(* any backend and under every fault.                                      *)
THEOREM HandledTripsAreStored == Spec => []EventsHaveTrips
<1>1. Init => StoredInv
  BY ConstantsOK DEF Init, StoredInv, EventsHaveTrips, Stored, At, Booking, Nothing
<1>2. StoredInv => EventsHaveTrips
  BY DEF StoredInv
<1> QED BY InitBase, StepBase, StepStored, <1>1, <1>2, PTL DEF Spec

-----------------------------------------------------------------------------
(* SQS loses nothing.  The strengthening: a message is only deleted for a  *)
(* trip that has been answered.                                            *)

DeletesAnswered == \A w \in Workers : At(w, "delete") => work[w].trip \in answered
KeptInv == Backend = "sqs" => NothingLost /\ DeletesAnswered

LEMMA StepKept == Base /\ KeptInv /\ [Next]_vars => KeptInv'
<1> SUFFICES ASSUME Backend = "sqs", UNCHANGED deploy, Base, KeptInv, [Next]_vars
             PROVE  KeptInv'
  BY StepDeploy DEF KeptInv
<1> USE DEF KeptInv, NothingLost, DeletesAnswered, At
<1>0. /\ work \in [Matchers -> [pc : Pcs, trip : Trips \cup {NoTrip},
                               driver : Drivers \cup {NoDriver}]]
      /\ Workers \cap Trips = {}
  BY ConstantsOK DEF Base, TypeOK
<1>1. ASSUME NEW t \in Trips, Create(t) PROVE KeptInv'
  BY <1>0, <1>1 DEF Create, Goto
<1>2. ASSUME NEW t \in Trips, Publish(t) \/ PublishFails(t) PROVE KeptInv'
  BY <1>0, <1>2 DEF Publish, PublishFails, Goto
<1>3. ASSUME NEW w \in Workers, NEW t \in Trips, Take(w, t) PROVE KeptInv'
  BY <1>0, <1>3 DEF Take
<1>4. ASSUME NEW w \in Workers, DeleteMessage(w) \/ DeleteFails(w) PROVE KeptInv'
  BY <1>0, <1>4 DEF DeleteMessage, DeleteFails, Nothing
<1>5. ASSUME NEW m \in Matchers, work' = [work EXCEPT ![m] = Rest(m)],
             UNCHANGED <<published, queue, hidden>>, answered \subseteq answered'
      PROVE  KeptInv'
  BY <1>0, <1>5 DEF Rest, Nothing
<1>6. ASSUME NEW m \in Matchers, ReturnNil(m), UNCHANGED <<published, queue, hidden>>
      PROVE  KeptInv'
  <2>1. CASE m \in Workers /\ Backend = "sqs"
    BY <1>0, <1>6, <2>1 DEF ReturnNil
  <2>2. CASE ~(m \in Workers /\ Backend = "sqs")
    BY <1>5, <1>6, <2>2 DEF ReturnNil
  <2> QED BY <2>1, <2>2
<1>7. ASSUME NEW m \in Matchers, PickDriver(m) PROVE KeptInv'
  <2>1. ASSUME NEW d \in FreeDrivers, UNCHANGED answered,
               work' = [work EXCEPT ![m].pc = "assign", ![m].driver = d]
        PROVE  KeptInv'
    BY <1>0, <1>7, <2>1 DEF PickDriver
  <2> QED BY <1>6, <1>7, <2>1 DEF PickDriver
<1>8. ASSUME NEW m \in Matchers, AssignTrip(m) PROVE KeptInv'
  BY <1>5, <1>6, <1>8 DEF AssignTrip, ReturnError
<1>9. ASSUME NEW m \in Matchers, HandlerFails(m) PROVE KeptInv'
  BY <1>5, <1>9 DEF HandlerFails, ReturnError
<1>11. ASSUME NEW t \in Trips, VisibilityExpires(t) \/ EndAssignment(t)
       PROVE  KeptInv'
  BY <1>11 DEF VisibilityExpires, EndAssignment
<1>12. ASSUME NEW t \in Trips, RequestDies(t) PROVE KeptInv'
  BY <1>5, <1>12 DEF RequestDies
<1>13. ASSUME NEW w \in Workers, Crash(w) \/ Restart(w) PROVE KeptInv'
  BY <1>0, <1>13 DEF Crash, Restart, Nothing
<1>14. CASE UNCHANGED vars
  BY <1>14 DEF vars
<1> QED
  BY <1>1, <1>2, <1>3, <1>4, <1>7, <1>8, <1>9, <1>11, <1>12, <1>13, <1>14
     DEF Next, Consume, Match

(* With SQS no accepted event is ever lost, however many consumers there   *)
(* are and however many crashes, errors and visibility timeouts happen.    *)
THEOREM SqsLosesNothing == Spec => []NothingLost
<1>1. Init => KeptInv
  BY ConstantsOK DEF Init, KeptInv, NothingLost, DeletesAnswered, At, Nothing
<1>2. KeptInv => NothingLost
  BY DEF KeptInv, NothingLost
<1>3. Base /\ KeptInv /\ [Next]_vars => KeptInv'
  BY StepKept
<1> QED BY InitBase, StepBase, <1>1, <1>2, <1>3, PTL DEF Spec

-----------------------------------------------------------------------------
(* Without SQS a trip is given a driver at most once.  The right to give a *)
(* driver to a trip is held by its booking request, by its event in the    *)
(* list or by the one handling that took the event, never by two of them,  *)
(* and it is spent when the driver is given.                               *)

Busy(m) == work[m].pc \in {"new", "publish", "pick", "assign"}

OneHolder ==
  /\ \A m \in Matchers : Busy(m) => taken[work[m].trip] = 0 /\ work[m].trip \notin queue
  /\ \A m, n \in Matchers :
       Busy(m) /\ Busy(n) /\ work[m].trip = work[n].trip => m = n
  /\ \A t \in queue : taken[t] = 0
PublishesOnly == \A m \in Matchers : At(m, "publish") => Backend # "none"
OnceInv == TakenForGood => AtMostOnce /\ OneHolder /\ PublishesOnly

LEMMA StepOnce == Base /\ OnceInv /\ [Next]_vars => OnceInv'
<1> SUFFICES ASSUME TakenForGood, UNCHANGED deploy, Base, OnceInv, [Next]_vars
             PROVE  OnceInv'
  BY StepDeploy DEF OnceInv, TakenForGood
<1> USE DEF TakenForGood, OnceInv, AtMostOnce, OneHolder, PublishesOnly, Busy, At
<1>0. /\ work \in [Matchers -> [pc : Pcs, trip : Trips \cup {NoTrip},
                               driver : Drivers \cup {NoDriver}]]
      /\ taken \in [Trips -> Nat]
      /\ hidden = {} /\ queue \subseteq Trips
      /\ Workers \cap Trips = {}
      /\ \A t \in Trips : work[t].trip = t
      /\ \A m \in Matchers : Busy(m) => work[m].trip \in Trips
  BY ConstantsOK DEF Base, TypeOK, Held
<1>1. ASSUME NEW t \in Trips, Create(t) PROVE OnceInv'
  <2>1. \A n \in Matchers : n # t => work'[n] = work[n]
    BY <1>0, <1>1 DEF Create, Goto
  <2>2. work'[t].trip = t /\ work'[t].pc \in {AfterCreate, "idle"} /\ Busy(t)
    BY <1>0, <1>1 DEF Create, Goto
  <2>3. work'[t].pc = "publish" => Backend # "none"
    BY <2>2 DEF AfterCreate
  <2> QED BY <1>0, <1>1, <2>1, <2>2, <2>3 DEF Create
<1>2. ASSUME NEW t \in Trips, Publish(t) \/ PublishFails(t) PROVE OnceInv'
  <2>1. work' = [work EXCEPT ![t].pc = "idle"]
    BY <1>2 DEF Publish, PublishFails, Goto
  <2>2. \A n \in Matchers : n # t => work'[n] = work[n]
    BY <1>0, <2>1
  <2>3. ~Busy(t)' /\ Busy(t) /\ work[t].trip = t
    BY <1>0, <1>2, <2>1 DEF Publish, PublishFails
  <2>4. queue' \subseteq queue \cup {t} /\ taken' = taken
    BY <1>2 DEF Publish, PublishFails
  <2> QED BY <1>0, <2>2, <2>3, <2>4
<1>3. ASSUME NEW w \in Workers, NEW t \in Trips, Take(w, t) PROVE OnceInv'
  <2>1. \A n \in Matchers : n # w => work'[n] = work[n]
    BY <1>0, <1>3 DEF Take
  <2>2. work'[w].trip = t /\ work'[w].pc = "pick"
    BY <1>0, <1>3 DEF Take
  <2>3. queue' = queue \ {t} /\ taken' = taken /\ t \in queue
    BY <1>3 DEF Take
  <2> QED BY <1>0, <2>1, <2>2, <2>3
<1>4. ASSUME NEW m \in Matchers, ~Busy(m)', queue' \subseteq queue, UNCHANGED taken,
             \A n \in Matchers : n # m => work'[n] = work[n]
      PROVE  OnceInv'
  BY <1>0, <1>4
<1>5. ASSUME NEW m \in Matchers, work' = [work EXCEPT ![m] = Rest(m)]
      PROVE  ~Busy(m)' /\ \A n \in Matchers : n # m => work'[n] = work[n]
  BY <1>0, <1>5 DEF Rest, Nothing
<1>6. ASSUME NEW m \in Matchers, Busy(m), GiveDriver(m), UNCHANGED queue,
             work' = [work EXCEPT ![m] = Rest(m)]
      PROVE  OnceInv'
  <2> DEFINE t == work[m].trip
  <2>1. t \in Trips /\ taken[t] = 0 /\ t \notin queue
    BY <1>0, <1>6
  <2>2. taken' = [taken EXCEPT ![t] = 1]
    BY <1>0, <1>6, <2>1 DEF GiveDriver
  <2>3. \A u \in Trips : taken'[u] = IF u = t THEN 1 ELSE taken[u]
    BY <1>0, <2>2
  <2>4. ~Busy(m)' /\ \A n \in Matchers : n # m => work'[n] = work[n]
    BY <1>5, <1>6
  <2>5. \A n \in Matchers : n # m /\ Busy(n) => work[n].trip # t
    BY <1>6
  <2> QED BY <1>0, <1>6, <2>1, <2>3, <2>4, <2>5
<1>7. ASSUME NEW m \in Matchers, PickDriver(m) PROVE OnceInv'
  <2>1. ASSUME NEW d \in FreeDrivers,
               work' = [work EXCEPT ![m].pc = "assign", ![m].driver = d]
        PROVE  OnceInv'
    <3>1. \A n \in Matchers : n # m => work'[n] = work[n]
      BY <1>0, <2>1
    <3>2. work'[m].pc = "assign" /\ work'[m].trip = work[m].trip /\ Busy(m)
      BY <1>0, <1>7, <2>1 DEF PickDriver
    <3> QED BY <1>0, <1>7, <3>1, <3>2 DEF PickDriver
  <2>2. CASE ReturnNil(m)
    BY <1>4, <1>5, <1>7, <2>2 DEF PickDriver, ReturnNil
  <2> QED BY <1>7, <2>1, <2>2 DEF PickDriver
<1>8. ASSUME NEW m \in Matchers, AssignTrip(m) PROVE OnceInv'
  <2>1. CASE GiveDriver(m) /\ ReturnNil(m) /\ UNCHANGED queue
    BY <1>6, <1>8, <2>1 DEF AssignTrip, ReturnNil
  <2>2. CASE ReturnError(m) /\ UNCHANGED <<driver, taken>>
    BY <1>4, <1>5, <2>2 DEF ReturnError
  <2> QED BY <1>8, <2>1, <2>2 DEF AssignTrip
<1>9. ASSUME NEW m \in Matchers, HandlerFails(m) PROVE OnceInv'
  <2>1. CASE GiveDriver(m)
    BY <1>6, <1>9, <2>1 DEF HandlerFails, ReturnError
  <2>2. CASE UNCHANGED <<driver, taken>>
    BY <1>4, <1>5, <1>9, <2>2 DEF HandlerFails, ReturnError
  <2> QED BY <1>9, <2>1, <2>2 DEF HandlerFails
<1>10. ASSUME NEW w \in Workers,
              DeleteMessage(w) \/ DeleteFails(w) \/ Crash(w) \/ Restart(w)
       PROVE  OnceInv'
  <2>1. ~Busy(w)' /\ \A n \in Matchers : n # w => work'[n] = work[n]
    BY <1>0, <1>10 DEF DeleteMessage, DeleteFails, Crash, Restart, Nothing
  <2> QED BY <1>4, <1>10, <2>1 DEF DeleteMessage, DeleteFails, Crash, Restart
<1>12. ASSUME NEW t \in Trips, VisibilityExpires(t) \/ EndAssignment(t)
       PROVE  OnceInv'
  BY <1>0, <1>12 DEF VisibilityExpires, EndAssignment
<1>13. ASSUME NEW t \in Trips, RequestDies(t) PROVE OnceInv'
  BY <1>4, <1>5, <1>13 DEF RequestDies
<1>14. CASE UNCHANGED vars
  BY <1>14 DEF vars
<1> QED
  BY <1>1, <1>2, <1>3, <1>7, <1>8, <1>9, <1>10, <1>12, <1>13, <1>14
     DEF Next, Consume, Match

(* The Redis list and the monolith's direct call give a trip a driver at   *)
(* most once, whatever crashes or fails: such a matching may give up, it   *)
(* never takes a trip away from the driver it was given to.                *)
THEOREM RedisGivesOnce == Spec => []AtMostOnce
<1>1. Init => OnceInv
  BY ConstantsOK
     DEF Init, OnceInv, AtMostOnce, OneHolder, PublishesOnly, Busy, At, Booking, Nothing
<1>2. OnceInv => AtMostOnce
  BY DEF OnceInv, AtMostOnce
<1>3. Base /\ OnceInv /\ [Next]_vars => OnceInv'
  BY StepOnce
<1> QED BY InitBase, StepBase, <1>1, <1>2, <1>3, PTL DEF Spec
=============================================================================
