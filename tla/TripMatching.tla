---------------------------- MODULE TripMatching ----------------------------
(***************************************************************************)
(* Matching of new trips with drivers through the queue between services:  *)
(* createTrip of the trip-service persists a trip and publishes a          *)
(* TripEvent; the consumers of the driver-service take events and call     *)
(* AssignNextAvailableDriver (internal/matching, handlers/trips.go,        *)
(* driver_service/internal/server/server.go).                              *)
(*                                                                         *)
(* A handling is the run of one function on one trip: that of a consumer   *)
(* process (a member of Workers, one consumer loop per process) or that of *)
(* the createTrip request of trip t, which is named t.  What one call of   *)
(* AssignTrip does to the two tables, step by step, is module Dispatch;    *)
(* here it is one step that takes or refuses the driver that was picked.   *)
(*                                                                         *)
(* An event is its trip.  The order in which messages are delivered is     *)
(* left open: BRPOP after RPUSH takes the newest, SQS takes any.           *)
(***************************************************************************)
EXTENDS Naturals, FiniteSets

CONSTANTS
  Trips,       \* trips riders may book
  Drivers,     \* drivers on shift
  Workers,     \* consumer processes of the driver-service
  NoTrip,      \* the trip of an idle consumer
  NoDriver,    \* no driver
  Deployments, \* the ways the services are put together that are looked at
  TripsWired,  \* FALSE where DriverService was built with a nil trip repository
  MaxFaults    \* bound: crashes, failed calls and visibility timeouts in mid-work

ASSUME ConstantsOK ==
  /\ NoTrip \notin Trips
  /\ NoDriver \notin Drivers
  /\ Workers \cap Trips = {}
  /\ Deployments \subseteq [backend : {"redis", "sqs", "none"}, inline : BOOLEAN]
  /\ TripsWired \in BOOLEAN
  /\ MaxFaults \in Nat

VARIABLES
  deploy,     \* the deployment: fixed when the services start
  rows,       \* trips persisted in the trips table
  queue,      \* events waiting in the Redis list or visible in SQS
  hidden,     \* events SQS has delivered and neither deleted nor shown again
  work,       \* the handling of each consumer and of each createTrip request
  driver,     \* the driver whose active assignment row names the trip
  published,  \* history: trips whose event the queue has accepted
  answered,   \* history: trips for which a handling returned nil
  taken,      \* history: how many times a driver was given to each trip
  faults      \* how many of MaxFaults have happened

vars == <<deploy, rows, queue, hidden, work, driver, published, answered, taken, faults>>

Matchers == Workers \cup Trips
Pcs == {"idle", "new", "publish", "pick", "assign", "delete", "down"}

Backend == deploy.backend  \* MATCH_QUEUE_BACKEND; "none" where no dispatcher exists
Inline  == deploy.inline   \* TRUE where createTrip holds a DriverService (cmd/server)

At(m, pc) == work[m].pc = pc
Goto(m, pc) == work' = [work EXCEPT ![m].pc = pc]

Nothing == [pc |-> "idle", trip |-> NoTrip, driver |-> NoDriver]
Booking(t) == [pc |-> "new", trip |-> t, driver |-> NoDriver]

Init ==
  /\ deploy \in Deployments
  /\ rows = {} /\ queue = {} /\ hidden = {}
  /\ work = [m \in Matchers |-> IF m \in Trips THEN Booking(m) ELSE Nothing]
  /\ driver = [t \in Trips |-> NoDriver]
  /\ published = {} /\ answered = {}
  /\ taken = [t \in Trips |-> 0]
  /\ faults = 0

Fault == faults < MaxFaults /\ faults' = faults + 1

FreeDrivers == Drivers \ {driver[t] : t \in Trips}

-----------------------------------------------------------------------------
(* createTrip: TripService.Create, then Publish, then the fallback.        *)

AfterCreate == IF Backend # "none" THEN "publish"
               ELSE IF Inline THEN "pick" ELSE "idle"

\* Mutant of Create: the event is sent before the trip is stored.
CreateLater(t) ==
  /\ At(t, "new")
  /\ \/ Goto(t, AfterCreate) /\ UNCHANGED rows
     \/ rows' = rows \cup {t} /\ Goto(t, AfterCreate)
     \/ Goto(t, "idle") /\ UNCHANGED rows
  /\ UNCHANGED <<deploy, queue, hidden, driver, published, answered, taken, faults>>

Create(t) ==
  /\ At(t, "new")
  /\ \/ rows' = rows \cup {t} /\ Goto(t, AfterCreate)
     \/ Goto(t, "idle") /\ UNCHANGED rows         \* insufficient wallet balance
  /\ UNCHANGED <<deploy, queue, hidden, driver, published, answered, taken, faults>>

Publish(t) ==
  /\ At(t, "publish")
  /\ queue' = queue \cup {t}
  /\ published' = published \cup {t}
  /\ Goto(t, "idle")
  /\ UNCHANGED <<deploy, rows, hidden, driver, answered, taken, faults>>

(* Publish returns an error; the event may have reached the queue anyway.  *)
PublishFails(t) ==
  /\ At(t, "publish") /\ Fault
  /\ \/ UNCHANGED <<queue, published>>
     \/ queue' = queue \cup {t} /\ published' = published \cup {t}
  /\ Goto(t, IF Inline THEN "pick" ELSE "idle")
  /\ UNCHANGED <<deploy, rows, hidden, driver, answered, taken>>

-----------------------------------------------------------------------------
(* The consumer loops.                                                     *)

\* Mutant of Take: the message is deleted when it is received.
TakeAndDelete(w, t) ==
  /\ At(w, "idle") /\ t \in queue
  /\ queue' = queue \ {t}
  /\ work' = [work EXCEPT ![w] = [pc |-> "pick", trip |-> t, driver |-> NoDriver]]
  /\ UNCHANGED <<deploy, rows, hidden, driver, published, answered, taken, faults>>

(* BRPOP takes the event out of the list; ReceiveMessage hides it.         *)
Take(w, t) ==
  /\ At(w, "idle") /\ t \in queue
  /\ queue' = queue \ {t}
  /\ hidden' = IF Backend = "sqs" THEN hidden \cup {t} ELSE hidden
  /\ work' = [work EXCEPT ![w] = [pc |-> "pick", trip |-> t, driver |-> NoDriver]]
  /\ UNCHANGED <<deploy, rows, driver, published, answered, taken, faults>>

(* Where a handling goes when its function returns nil, and when it returns *)
(* an error: only processSQSMessage has anything left to do, and only after *)
(* nil; the loops and createTrip log an error and go on.                    *)
Rest(m) == [Nothing EXCEPT !.trip = IF m \in Trips THEN m ELSE NoTrip]

ReturnNil(m) ==
  /\ answered' = answered \cup {work[m].trip}
  /\ IF m \in Workers /\ Backend = "sqs"
     THEN work' = [work EXCEPT ![m].pc = "delete", ![m].driver = NoDriver]
     ELSE work' = [work EXCEPT ![m] = Rest(m)]

\* Mutant of ReturnError: a failed event is pushed back.
ReturnErrorAndRequeue(m) ==
  /\ work' = [work EXCEPT ![m] = Rest(m)]
  /\ queue' = IF m \in Workers THEN queue \cup {work[m].trip} ELSE queue
  /\ UNCHANGED answered

ReturnError(m) ==
  /\ work' = [work EXCEPT ![m] = Rest(m)]
  /\ UNCHANGED <<answered, queue>>

\* Mutant of PickDriver: no driver is an error, so the message comes back.
PickDriverOrFail(m) ==
  /\ At(m, "pick")
  /\ \/ \E d \in FreeDrivers :
          /\ work' = [work EXCEPT ![m].pc = "assign", ![m].driver = d]
          /\ UNCHANGED <<answered, queue>>
     \/ FreeDrivers = {} /\ ReturnError(m)
  /\ UNCHANGED <<deploy, rows, hidden, driver, published, taken, faults>>

(* AssignNextAvailableDriver: FindAvailable; ErrNoDriversAvailable is nil   *)
(* to the consumer.                                                         *)
PickDriver(m) ==
  /\ At(m, "pick")
  /\ \/ /\ \E d \in FreeDrivers :
             work' = [work EXCEPT ![m].pc = "assign", ![m].driver = d]
        /\ UNCHANGED answered
     \/ FreeDrivers = {} /\ ReturnNil(m)
  /\ UNCHANGED <<deploy, rows, queue, hidden, driver, published, taken, faults>>

GiveDriver(m) ==
  /\ driver' = [driver EXCEPT ![work[m].trip] = work[m].driver]
  /\ taken' = [taken EXCEPT ![work[m].trip] = @ + 1]

(* AssignTrip: the driver is refused (ErrAssignmentConflict) if he has an   *)
(* active assignment of another trip by now.  The check and the write are   *)
(* two statements, so a driver who is being lost may also still be given.   *)
AssignTrip(m) ==
  /\ At(m, "assign") /\ TripsWired
  /\ \/ GiveDriver(m) /\ ReturnNil(m) /\ UNCHANGED queue
     \/ /\ \E u \in Trips \ {work[m].trip} : driver[u] = work[m].driver
        /\ ReturnError(m) /\ UNCHANGED <<driver, taken>>
  /\ UNCHANGED <<deploy, rows, hidden, published, faults>>

(* A repository call fails, before or after the assignment row is written.  *)
HandlerFails(m) ==
  /\ At(m, "pick") \/ At(m, "assign")
  /\ Fault
  /\ \/ UNCHANGED <<driver, taken>>
     \/ At(m, "assign") /\ TripsWired /\ GiveDriver(m)
  /\ ReturnError(m)
  /\ UNCHANGED <<deploy, rows, hidden, published>>

DeleteMessage(w) ==
  /\ At(w, "delete")
  /\ queue' = queue \ {work[w].trip}
  /\ hidden' = hidden \ {work[w].trip}
  /\ work' = [work EXCEPT ![w] = Nothing]
  /\ UNCHANGED <<deploy, rows, driver, published, answered, taken, faults>>

(* The call fails, or its receipt handle is out of date: only logged.       *)
DeleteFails(w) ==
  /\ At(w, "delete") /\ Fault
  /\ work' = [work EXCEPT ![w] = Nothing]
  /\ UNCHANGED <<deploy, rows, queue, hidden, driver, published, answered, taken>>

-----------------------------------------------------------------------------
(* Around the services.                                                     *)

(* SQS shows a message again when its visibility timeout ends, which is a   *)
(* fault only when it ends before the handling does.                        *)
VisibilityExpires(t) ==
  /\ t \in hidden
  /\ IF \E w \in Workers : work[w].trip = t THEN Fault ELSE UNCHANGED faults
  /\ hidden' = hidden \ {t}
  /\ queue' = queue \cup {t}
  /\ UNCHANGED <<deploy, rows, work, driver, published, answered, taken>>

(* AssignTrip begins with a call on the trip repository.  Where that is nil *)
(* the call panics: gin.Recovery ends the request, and nothing catches the  *)
(* panic of the consumer goroutine, so the process stops.                   *)
Panics(m) == At(m, "assign") /\ ~TripsWired

StopsAt(m) == IF Panics(m) THEN UNCHANGED faults ELSE Fault

Crash(w) ==
  /\ ~At(w, "down") /\ StopsAt(w)
  /\ work' = [work EXCEPT ![w] = [Nothing EXCEPT !.pc = "down"]]
  /\ UNCHANGED <<deploy, rows, queue, hidden, driver, published, answered, taken>>

Restart(w) ==
  /\ At(w, "down")
  /\ work' = [work EXCEPT ![w] = Nothing]
  /\ UNCHANGED <<deploy, rows, queue, hidden, driver, published, answered, taken, faults>>

(* createTrip panics, or its process stops between two of its calls.        *)
RequestDies(t) ==
  /\ At(t, "publish") \/ At(t, "pick") \/ At(t, "assign")
  /\ StopsAt(t)
  /\ work' = [work EXCEPT ![t] = Rest(t)]
  /\ UNCHANGED <<deploy, rows, queue, hidden, driver, published, answered, taken>>

(* The driver declines, completes or cancels; his assignment ends.          *)
EndAssignment(t) ==
  /\ driver[t] # NoDriver
  /\ driver' = [driver EXCEPT ![t] = NoDriver]
  /\ UNCHANGED <<deploy, rows, queue, hidden, work, published, answered, taken, faults>>

Match(m) == PickDriver(m) \/ AssignTrip(m) \/ HandlerFails(m)

Consume(w) ==
  \/ \E t \in Trips : Take(w, t)
  \/ DeleteMessage(w) \/ DeleteFails(w)

Next ==
  \/ \E t \in Trips : Create(t) \/ Publish(t) \/ PublishFails(t)
  \/ \E w \in Workers : Consume(w)
  \/ \E m \in Matchers : Match(m)
  \/ \E t \in Trips : VisibilityExpires(t) \/ RequestDies(t) \/ EndAssignment(t)
  \/ \E w \in Workers : Crash(w) \/ Restart(w)

Spec == Init /\ [][Next]_vars

(* A consumer loop always goes on, if only to its panic, a stopped process  *)
(* is started again, and SQS ends a visibility timeout.  Riders, drivers    *)
(* and faults are not fair.                                                 *)
FairSpec ==
  /\ Spec
  /\ \A w \in Workers :
       WF_vars(Consume(w) \/ Match(w) \/ (Panics(w) /\ Crash(w)) \/ Restart(w))
  /\ \A t \in Trips : WF_vars(VisibilityExpires(t))

-----------------------------------------------------------------------------
(* Type invariant: SQS alone hides messages, and only consumers and         *)
(* createTrip requests in the right states carry trips and drivers.         *)
TypeOK ==
  /\ deploy \in Deployments
  /\ rows \subseteq Trips /\ queue \subseteq Trips
  /\ hidden \subseteq Trips /\ (Backend # "sqs" => hidden = {})
  /\ published \subseteq Trips /\ answered \subseteq Trips
  /\ work \in [Matchers -> [pc : Pcs, trip : Trips \cup {NoTrip},
                            driver : Drivers \cup {NoDriver}]]
  /\ driver \in [Trips -> Drivers \cup {NoDriver}]
  /\ taken \in [Trips -> Nat]
  /\ faults \in 0 .. MaxFaults

(* A consumer never looks for a trip that is not stored: every event that   *)
(* waits, is hidden or is being handled belongs to a persisted trip,        *)
(* whatever fails or is delivered again.                                    *)
EventsHaveTrips ==
  /\ queue \cup hidden \subseteq rows
  /\ \A w \in Workers : work[w].trip \in rows \cup {NoTrip}

(* "Failure isolation": an event the queue accepted is still held by the    *)
(* queue until a handling of it has returned nil, across crashes, errors,   *)
(* lost races for a driver, late and failed deletes.  True of SQS alone.    *)
NothingLost == Backend = "sqs" => published \subseteq queue \cup hidden \cup answered

(* Where an event is taken for good and nothing else looks for a driver.    *)
TakenForGood == Backend # "sqs" /\ (Inline => Backend = "none")

(* At most once: popping is destructive, so no trip is given a driver a     *)
(* second time, which would take it away from the driver who has it or      *)
(* give a driver to a trip that is over.                                    *)
AtMostOnce == TakenForGood => \A t \in Trips : taken[t] <= 1

(* Every event is answered in the end: "riders see status searching until   *)
(* workers recover".  True of SQS alone.                                    *)
EveryEventAnswered ==
  \A t \in Trips : (Backend = "sqs" /\ t \in published) ~> (t \in answered)
=============================================================================
