--------------------------- MODULE TripCompletion ---------------------------
(***************************************************************************)
(* TripService (internal/domain/service.go): booking a trip, moving its    *)
(* status and settling the fare when it is completed; and the drivers'     *)
(* requests of DriverService, which write the same trips.status and settle *)
(* nothing.  What else those requests do is in module Dispatch.            *)
(*                                                                         *)
(* Three stores take part and no transaction spans them: the trips table,  *)
(* its read replica, which GetTrip reads where one is configured, and the  *)
(* rider's wallet, local in the monolith and behind HTTP in trip-service.  *)
(* The wallet is its abstraction WalletLedger, which module Wallet shows   *)
(* the wallet service to implement.                                        *)
(*                                                                         *)
(* Fares and points are 0 as shipped (DefaultWalletConfig): the wallet     *)
(* refuses such a deduction as an invalid amount, so that a request which  *)
(* completes a trip ends in an error once the status is written.           *)
(***************************************************************************)
EXTENDS Integers, FiniteSets

CONSTANTS
  Trips, Users, Handlers,
  RiderOf,      \* whose trip each is
  Targets,      \* the statuses clients ask for
  Deployments,  \* replica, drivers, fare and points that there may be
  TopUps,       \* amounts riders top up
  MaxBalance,   \* bound of the model: riders top up no further
  MaxMoves,     \* bound of the model: status requests per trip
  Faulty        \* TRUE where a call may fail, or time out after it took effect

TripStatuses == {"requested", "accepted", "arriving", "in_ride", "completed", "cancelled"}

ASSUME ConstantsOK ==
  /\ IsFiniteSet(Handlers) /\ RiderOf \in [Trips -> Users]
  /\ Targets \subseteq TripStatuses
  /\ Deployments \subseteq [replica : BOOLEAN, drivers : BOOLEAN, fare : Nat, points : Nat]
  /\ TopUps \subseteq Nat \ {0}
  /\ MaxBalance \in Nat /\ MaxMoves \in Nat /\ Faulty \in BOOLEAN

VARIABLES
  deploy,     \* the deployment: fixed when the services start
  status,     \* trips.status on the primary, "none" before CreateTrip
  replica,    \* trips.status on the read replica
  balance, points, books,     \* the wallets, as WalletLedger has them
  req,        \* the request each handler is serving
  moves,      \* history: status requests sent per trip
  overlapped,    \* history: trips that two requests were about at once
  completions,   \* history: writes that turned a trip completed
  settlements,   \* history: requests per trip that went on to ask for the fare
  charges,    \* history: fares taken per trip
  rewards,    \* history: rewards given per trip
  told        \* history: statuses announced to the trip's sockets

wallet  == <<balance, points, books>>
traffic == <<moves, overlapped>>
ends    == <<completions, settlements>>
history == <<traffic, ends, charges, rewards, told>>
vars    == <<deploy, status, replica, balance, points, books, req, moves, overlapped,
             completions, settlements, charges, rewards, told>>

HasReplica == deploy.replica   \* TRIP_DB_REPLICA_DSN is set (trip-service only)
HasDrivers == deploy.drivers   \* trip routes with a DriverService (cmd/server only)
Fare       == deploy.fare      \* fareForService
Points     == deploy.points    \* WalletServiceConfig.RewardPointsPerTrip

Ledger == INSTANCE WalletLedger
            WITH Amounts <- TopUps \cup UNION {{d.fare, d.points} : d \in Deployments}

(* allowedDriverTransition, as pairs.                                      *)
DriverMoves ==
  {"accepted"} \X {"arriving", "cancelled", "completed"}
    \cup {"arriving"} \X {"in_ride", "cancelled", "completed"}
    \cup {"in_ride", "requested"} \X {"cancelled", "completed"}

Idle == [pc |-> "idle", trip |-> "none", next |-> "none", snap |-> "none"]

Init ==
  /\ deploy \in Deployments
  /\ status = [t \in Trips |-> "none"]
  /\ replica = status
  /\ Ledger!Init
  /\ req = [h \in Handlers |-> Idle]
  /\ moves = [t \in Trips |-> 0]
  /\ overlapped = {}
  /\ completions = [t \in Trips |-> 0]
  /\ settlements = [t \in Trips |-> 0]
  /\ charges = [t \in Trips |-> 0]
  /\ rewards = [t \in Trips |-> 0]
  /\ told = [t \in Trips |-> {}]

At(h, pc)   == req[h].pc = pc
Goto(h, pc) == req' = [req EXCEPT ![h].pc = pc]
Finish(h)   == req' = [req EXCEPT ![h] = Idle]
Count(f, t) == [f EXCEPT ![t] = @ + 1]

Serves(h, t) == ~At(h, "idle") /\ req[h].trip = t

(* tripRepository.GetTrip reads what reader() returns.                     *)
Seen(t) == IF HasReplica THEN replica[t] ELSE status[t]

Serve(h, t, next, pc) ==
  /\ At(h, "idle")
  /\ req' = [req EXCEPT ![h] = [pc |-> pc, trip |-> t, next |-> next, snap |-> "none"]]

-----------------------------------------------------------------------------
(* TripService.Create                                                      *)

StartCreate(h, t) ==
  /\ status[t] = "none" /\ ~\E g \in Handlers : Serves(g, t)
  /\ Serve(h, t, "requested", "ensureBalance")
  /\ UNCHANGED <<deploy, status, replica, wallet, history>>

EnsureBalance(h) ==
  /\ At(h, "ensureBalance")
  /\ IF balance[RiderOf[req[h].trip]] >= Fare THEN Goto(h, "create")
                                              ELSE Finish(h)    \* insufficient funds
  /\ UNCHANGED <<deploy, status, replica, wallet, history>>

CreateTrip(h) ==
  /\ At(h, "create")
  /\ status' = [status EXCEPT ![req[h].trip] = "requested"]
  /\ Finish(h)
  /\ UNCHANGED <<deploy, replica, wallet, history>>

-----------------------------------------------------------------------------
(* TripService.UpdateStatus and the announcement that follows it, for the  *)
(* PATCH and internal POST routes and for a driver's "status" frame.       *)

(* A request about a trip whose status it is to move.                      *)
Ask(h, t, next, pc) ==
  /\ status[t] # "none" /\ moves[t] < MaxMoves
  /\ Serve(h, t, next, pc)
  /\ moves' = Count(moves, t)
  /\ overlapped' = IF \E g \in Handlers : Serves(g, t) THEN overlapped \cup {t} ELSE overlapped
  /\ UNCHANGED <<deploy, status, replica, wallet, ends, charges, rewards, told>>

StartUpdate(h, t, next) ==
  Ask(h, t, next, IF next \in {"arriving", "completed"} THEN "getTrip" ELSE "write")

GetTrip(h) ==
  LET seen == Seen(req[h].trip)
  IN  /\ At(h, "getTrip")
      /\ IF seen = "none" THEN Finish(h)                        \* ErrTripNotFound
                          ELSE req' = [req EXCEPT ![h].snap = seen, ![h].pc = "write"]
      /\ UNCHANGED <<deploy, status, replica, wallet, history>>

\* Mutant of Settles: whatever the trip was, its completion is settled.
SettlesAgain(h) == req[h].next = "completed"

Settles(h) == req[h].next = "completed" /\ req[h].snap # "completed"

(* tripRepository.UpdateTripStatus, which writes the primary.              *)
UpdateTripStatus(t, next) ==
  /\ status' = [status EXCEPT ![t] = next]
  /\ completions' = IF next = "completed" /\ status[t] # "completed"
                    THEN Count(completions, t) ELSE completions

\* Mutant of WriteStatus: the sockets are told before the row is written.
TellThenWrite(h) ==
  LET t == req[h].trip
  IN  /\ At(h, "write")
      /\ told' = [told EXCEPT ![t] = @ \cup {req[h].next}]
      /\ Goto(h, IF Settles(h) THEN "deduct" ELSE "tell")
      /\ UNCHANGED <<deploy, status, replica, wallet, traffic, ends, charges, rewards>>

\* Mutant of WriteStatus: the fare is taken before the row is written.
DeductThenWrite(h) ==
  LET t == req[h].trip
  IN  /\ At(h, "write")
      /\ IF Settles(h) /\ Fare > 0 /\ balance[RiderOf[t]] >= Fare
         THEN Ledger!Deduct(RiderOf[t], Fare) /\ charges' = Count(charges, t)
         ELSE UNCHANGED <<wallet, charges>>
      /\ Goto(h, "tell")
      /\ UNCHANGED <<deploy, status, replica, traffic, ends, rewards, told>>

WriteStatus(h) ==
  LET t == req[h].trip
  IN  /\ At(h, "write")
      /\ UpdateTripStatus(t, req[h].next)
      /\ settlements' = IF Settles(h) THEN Count(settlements, t) ELSE settlements
      /\ Goto(h, IF Settles(h) THEN "deduct" ELSE "tell")
      /\ UNCHANGED <<deploy, replica, wallet, traffic, charges, rewards, told>>

(* The wallet did its part and the answer is lost.                         *)
Lost(h) == Faulty /\ Finish(h)

(* wallets.DeductTripFare: an amount of 0 is ErrWalletInvalidAmount, and   *)
(* every error ends the request with the status already written.           *)
Payable(h) == Fare > 0 /\ balance[RiderOf[req[h].trip]] >= Fare

\* Mutant of DeductFare: its error is logged and the reward still given.
DeductOrElse(h) ==
  /\ At(h, "deduct")
  /\ IF Payable(h)
     THEN Ledger!Deduct(RiderOf[req[h].trip], Fare) /\ charges' = Count(charges, req[h].trip)
     ELSE UNCHANGED <<wallet, charges>>
  /\ Goto(h, "reward")
  /\ UNCHANGED <<deploy, status, replica, traffic, ends, rewards, told>>

DeductFare(h) ==
  LET t == req[h].trip
  IN  /\ At(h, "deduct")
      /\ \/ /\ Payable(h)
            /\ Ledger!Deduct(RiderOf[t], Fare)
            /\ charges' = Count(charges, t)
            /\ Goto(h, "reward") \/ Lost(h)
         \/ ~Payable(h) /\ Finish(h) /\ UNCHANGED <<wallet, charges>>
      /\ UNCHANGED <<deploy, status, replica, traffic, ends, rewards, told>>

(* wallets.RewardTripCompletion: without points it only reads the wallet.  *)
Reward(h) ==
  LET t == req[h].trip
  IN  /\ At(h, "reward")
      /\ IF Points > 0
         THEN Ledger!Reward(RiderOf[t], Points) /\ rewards' = Count(rewards, t)
         ELSE UNCHANGED <<wallet, rewards>>
      /\ Goto(h, "tell") \/ Lost(h)
      /\ UNCHANGED <<deploy, status, replica, traffic, ends, charges, told>>

(* NotifyRiderStatusChange, whose errors are logged, and BroadcastStatus.  *)
Tell(h) ==
  /\ At(h, "tell")
  /\ told' = [told EXCEPT ![req[h].trip] = @ \cup {req[h].next}]
  /\ Finish(h)
  /\ UNCHANGED <<deploy, status, replica, wallet, traffic, ends, charges, rewards>>

-----------------------------------------------------------------------------
(* DriverService.AcceptTrip and UpdateTripStatus as far as trips.status    *)
(* goes: an accept writes without looking, a move is judged on GetTrip.    *)

StartDriver(h, t, next) ==
  /\ HasDrivers
  /\ next \in {"accepted", "arriving", "in_ride", "completed", "cancelled"}
  /\ Ask(h, t, next, IF next = "accepted" THEN "driverWrite" ELSE "driverGet")

DriverGet(h) ==
  LET seen == Seen(req[h].trip)
  IN  /\ At(h, "driverGet")
      /\ IF <<seen, req[h].next>> \in DriverMoves
         THEN req' = [req EXCEPT ![h].snap = seen, ![h].pc = "driverWrite"]
         ELSE Finish(h)                                         \* ErrInvalidStatus
      /\ UNCHANGED <<deploy, status, replica, wallet, history>>

DriverWrite(h) ==
  /\ At(h, "driverWrite")
  /\ UpdateTripStatus(req[h].trip, req[h].next)
  /\ Goto(h, "tell")
  /\ UNCHANGED <<deploy, replica, wallet, traffic, settlements, charges, rewards, told>>

-----------------------------------------------------------------------------
(* A call that fails before it took effect, or the process stops.          *)
Fail(h) ==
  /\ Faulty /\ ~At(h, "idle")
  /\ Finish(h)
  /\ UNCHANGED <<deploy, status, replica, wallet, history>>

(* Replication reaches trip t.                                             *)
Replicate(t) ==
  /\ HasReplica /\ replica[t] # status[t]
  /\ replica' = [replica EXCEPT ![t] = status[t]]
  /\ UNCHANGED <<deploy, status, wallet, req, history>>

TopUp(u, a) ==
  /\ balance[u] + a <= MaxBalance
  /\ Ledger!TopUp(u, a)
  /\ UNCHANGED <<deploy, status, replica, req, history>>

Step(h) ==
  \/ EnsureBalance(h) \/ CreateTrip(h)
  \/ GetTrip(h) \/ WriteStatus(h) \/ DeductFare(h) \/ Reward(h) \/ Tell(h)
  \/ DriverGet(h) \/ DriverWrite(h)

Next ==
  \/ \E h \in Handlers, t \in Trips :
       \/ StartCreate(h, t)
       \/ \E next \in Targets : StartUpdate(h, t, next) \/ StartDriver(h, t, next)
  \/ \E h \in Handlers : Step(h) \/ Fail(h)
  \/ \E t \in Trips : Replicate(t)
  \/ \E u \in Users, a \in TopUps : TopUp(u, a)

Spec == Init /\ [][Next]_vars

-----------------------------------------------------------------------------
Pcs == {"idle", "ensureBalance", "create", "getTrip", "write", "deduct", "reward", "tell",
        "driverGet", "driverWrite"}

(* Type invariant.                                                         *)
TypeOK ==
  /\ deploy \in Deployments
  /\ status \in [Trips -> TripStatuses \cup {"none"}]
  /\ replica \in [Trips -> TripStatuses \cup {"none"}]
  /\ balance \in [Users -> Nat] /\ points \in [Users -> Nat]
  /\ books \in [Users -> [Ledger!Types -> Nat]]
  /\ req \in [Handlers -> [pc : Pcs, trip : Trips \cup {"none"},
                           next : TripStatuses \cup {"none"},
                           snap : TripStatuses \cup {"none"}]]
  /\ moves \in [Trips -> Nat] /\ overlapped \subseteq Trips
  /\ completions \in [Trips -> Nat] /\ settlements \in [Trips -> Nat]
  /\ charges \in [Trips -> Nat] /\ rewards \in [Trips -> Nat]
  /\ told \in [Trips -> SUBSET TripStatuses]

(* Points are given for fares: a lost answer, a refused deduction or a race *)
(* may cost the rider points and never hands out points for no fare.        *)
RewardsAreEarned == \A t \in Trips : rewards[t] <= charges[t]

(* A fare is taken only for a trip the trips table has shown as completed. *)
ChargeFollowsCompletion == \A t \in Trips : charges[t] > 0 => completions[t] > 0

(* What the sockets of a trip are told has been true: a completion is       *)
(* announced only after it was written, even when a race overwrites it at   *)
(* once.                                                                    *)
ToldCompletions ==
  \A t \in Trips : "completed" \in told[t] => completions[t] > 0

(* UpdateStatus compares its snapshot with "completed" so that a completion *)
(* is settled once, however often it is asked for and whichever drivers'    *)
(* requests, which settle nothing, come in between.  Where GetTrip reads    *)
(* the primary that is enough for a trip whose requests come one at a time, *)
(* failed ones included.                                                    *)
SettledOnce ==
  ~HasReplica => \A t \in Trips \ overlapped : settlements[t] <= completions[t]

(* What UpdateStatus judges a transition on is what the trips table has, as *)
(* long as no other request is there to write in between.                   *)
JudgedOnPrimary ==
  \A h \in Handlers :
    LET t == req[h].trip
    IN  At(h, "write") /\ req[h].snap # "none" /\ t \notin overlapped
          => req[h].snap = status[t]
=============================================================================
