# UITGo in TLA+

UITGo is a ride-hailing system: riders book trips, drivers are found for them,
trips move from `requested` to `completed`, fares are taken from wallets, and
both sides follow the trip over WebSockets. This directory holds TLA+ modules
for the parts of it in which steps of several actors meet, the TLC
configurations that check them on small instances, and TLAPS proofs for every
size of the instance.

All paths below are relative to the repository; `backend/` stands for
`src/backend/`. `PROJECT.json` maps every definition to the lines it models.

## The system

The Go code runs in two deployments:

- **monolith** (`backend/cmd/server`): one process, one database. The driver
  service has the trip repository, the trip handler has the driver service, the
  wallet is called directly; there is no match queue and no read replica.
- **services** (`user_service`, `trip_service`, `driver_service` behind nginx):
  a database each, without foreign keys between them. The trip-service may read
  from a replica, publishes to the match queue, and calls the wallet in the
  user-service over HTTP. The driver-service consumes the queue, keeps the Redis
  GEO index and serves `assign`, `accept`, `decline` and `status`; its
  `DriverService` is built **without** a trip repository.

| component | state | operations | meets others through |
|---|---|---|---|
| dispatch (`driver_service.go`) | `trip_assignments`, `trips.driver_id`, `trips.status` | assign, assign next, accept, decline, status | three repositories, no transaction across two calls |
| matching (`internal/matching`) | Redis list or SQS queue | publish, consume, delete | trip-service → queue → driver-service |
| wallet (`wallet_repository.go`, `wallet_service.go`) | `wallets`, `wallet_transactions` | top up, deduct, reward, read | row locks of one SQL transaction |
| trips and settlement (`service.go`) | `trips.status`, its replica | create, change status | wallet client, replica, hub |
| WebSocket hub (`ws.go`) | hubs, clients, channels, the log of positions | connect, register, broadcast, report a position, unregister | goroutines and channels |
| driver supply (`driver_service.go`, `auth.go`, `redis_index.go`) | `users`, `drivers`, `vehicles`, `driver_status`, GEO set | sign up, register, update, on/offline, locate, search | HTTP from the user- and trip-service, Redis |
| session (`auth.go`, `refresh_token_repo.go`, rider app) | `refresh_tokens`, the app's token storage | log in, refresh, rotate, log out | Dio interceptors, `/auth/*` |
| rate limiter (`rate_limit.go`) | a map of token buckets in memory | find or make a bucket, sweep, allow | every request of the limited routes |
| routing proxy (`osrm.go`) | a map of routes in memory | look up, ask the upstream, store | OSRM over HTTP |
| home feed (`home_cache.go`, `home_repository.go`) | `promotions`, `news_items`, Redis keys | list, create, deactivate | cache-aside, deletion after writes |
| notifications (`notification/service.go`) | `notifications`, `device_tokens` | register a device, notify, push, read | one SQL transaction, FCM |
| trip lists, saved places, audit, configuration, interfaces, infrastructure | | | not modelled, see the end |

What makes each of them hard, and what makes it right:

- **dispatch**: a request is up to nine separate SQL statements; accepts,
  declines and assignments by different drivers meet on one row. Right means a
  trip never names a driver without an assignment, nobody's assignment is
  accepted by somebody else, the two tables agree, nobody is booked twice.
- **matching**: consumers crash between taking and answering, SQS delivers
  again. Right means no accepted event is lost, none is answered for a trip that
  was not stored, none is handled twice where that is promised.
- **wallet**: two transactions of one user, the first of which creates the row.
  Right means that it behaves as a ledger of indivisible transactions.
- **settlement**: the status is written first and paid for later, judged on a
  snapshot; drivers write the same status and settle nothing. Right means that a
  completion is settled once however often it is asked for, points only for fares.
- **hub**: bounded channels, slow and dead clients, two snapshots read while
  statuses and positions go on changing. Right means no send on a closed
  channel, no gaps, no position missed, no caller held up.
- **supply**: accounts and profiles in two databases, a rollback by a further
  call, an index beside the table. Right means no driver without an account, no
  orphans, and no offers of drivers who have gone offline.
- **session**: many calls meet an expired token at once and the server rotates
  the refresh token. Right means one refresh, a session that survives it, a
  logout that lasts until the next login.
- **rate limiter**: the map's lock is given back before the bucket is used, and
  a sweep drops buckets. Right means that nobody notices: a client has one
  bucket for ever.
- **routing**: a straight line that stands in for a failing upstream is kept like
  a road, and calls store their answers in any order. Right means that roads
  come back, and that one which is there is not lost to a later failure.
- **home feed**: a reader may store a list that a write has overtaken, a deletion
  may fail, some writes delete nothing. Right means that a change that met no
  reader is seen, and that whatever is stale goes away in time.
- **notifications**: devices change hands while pushes are on their way, under
  two different schemas. Right means that a device belongs to whoever
  registered it last, and that a push goes to the right devices.

`PROJECT.json` lists the hazards of the code line by line, with the properties
that guard them or the reason why none does.

## Modules

| module | models | theorems |
|---|---|---|
| `Dispatch` | `DriverService`'s trip operations, one repository call a step | `DispatchProofs` |
| `DispatchWorlds` | `Dispatch` with requests one at a time, or overlapping and failing | `DispatchProofs` |
| `TripMatching` | `createTrip`'s publish and fallback, both queues, the consumers | `TripMatchingProofs` |
| `Wallet` | `ApplyTransaction` and `Get`, one SQL statement a step | `WalletProofs` |
| `WalletLedger` | what the wallet promises: an abstract specification | |
| `TripCompletion` | `TripService.Create` and `UpdateStatus`, and the drivers' writes of `trips.status`; its wallet is `WalletLedger` | `TripCompletionProofs` |
| `TripHub` | `Hub`, `HubManager`, read and write pumps of one trip, drivers' frames, riders' snapshots | `TripFrontProofs` |
| `DriverSupply` | sign-up, `Register`, `UpdateProfile`, availability, location, search | `DriverSupplyProofs` |
| `AppSession` | the rider app's 401 interceptor and storage; `Login`, `Register` and `Refresh` of `AuthHandler` | `AppSessionProofs` |
| `TokenBucket` | what the rate limiter promises: an abstract specification | |
| `RateLimiter` | the map of buckets, its sweep, and what a request does outside the lock | `TripFrontProofs` |
| `RouteCache` | `GetRoute`, its cache and its fallback | `TripFrontProofs` |
| `TripFront` | the composition of the two in one process: they share the clock and a restart | `TripFrontProofs` |
| `HomeCache` | the decorated promotion and news repositories over their tables and Redis | `UserPagesProofs` |
| `Notifications` | registration of devices, notes and pushes | `UserPagesProofs` |

`Wallet` implements `WalletLedger` (`ImplementsLedger`, checked and proved),
which is why `TripCompletion` may use the ledger in the wallet's place: a
deduction seen from the trip-service is one step of the ledger, followed by an
answer that may be lost. `RateLimiter` implements `TokenBucket`
(`ImplementsBucket`, checked and proved) under the mapping that a client without
a bucket in the map has a full one.

`DispatchWorlds` chooses in the initial state between a world in which
operations of every kind are served one at a time and none fails, and one in
which those that write assignments overlap and calls fail. Every behaviour of it
is one of `Dispatch`; `TablesAgree` is about the first world.

The `MC` modules are for TLC: values of constants, symmetry, and in two of them a
choice in the initial state that keeps the instance small. `MCTripFront` and
`MCUserPages` let either of two parts be used while the other is at rest, since
the two share no more than time and restarts, or a process.

**State and steps.** A handler, a session, a consumer or an API call is a record
with a program counter `pc`; what it has read is in the record. One database
statement, queue call, channel operation or awaited call is one step, so a value
read is as old as the code's would be. `Start...` actions are requests arriving,
with any arguments; `Fail` and its relatives are calls that return an error,
panic or never happen because the process stopped, and take the error path of
the code. A request that ends leaves its handler idle for the next one. Where
time matters (`RateLimiter`, `RouteCache`, `HomeCache`) it goes by in ticks;
every bound on how long a step may take (`Stall`, `SaveStall`) is a constant,
the properties say what they owe to it, and an entry's age is counted no further
than anything can tell apart.

**Histories.** Variables commented `history` record what happened for the sake of
a property (`spoke`, `published`, `taken`, `charges`, `settlements`, `answered`, `away`,
`spent`, `calm`, `gone`, `settled`, `owner`, ...). No guard of a modelled
operation reads them, other than to bound a run.

**Data left out.** Ids, names, coordinates, timestamps, JSON and HTTP codes.
Amounts stay numbers in the wallet, and statuses stay statuses. In `TripHub` a
status or a position is how many of its kind there have been, which tells every
message from every other; in `HomeCache` a table is how often it was written.

### Notes on single modules

- `Dispatch`: `PatchStatus` is the rider's `PATCH` and the driver's `status`
  frame, an unconditional write. `FindAvailable` orders by
  `driver_status.updated_at`; the model takes any free driver. `TripsWired =
  FALSE` is the driver-service: the first call on the nil repository panics,
  `gin.Recovery` ends the request.
- `TripMatching`: `deploy`, chosen once from `Deployments`, says which queue
  there is (`redis`, `sqs` or `none`) and whether the handler itself assigns a
  driver (`inline`, the monolith). A fault is a failing call, a crash, or a
  visibility timeout that ends during the handling.
- `Wallet`: `holder` is the row lock of `SELECT ... FOR UPDATE`, or the unique
  key of an uncommitted `INSERT`. A transaction changes the committed rows only
  in `Commit`.
- `TripCompletion`: `deploy`, chosen once from `Deployments`, says whether
  `GetTrip` reads a replica (the trip-service can), whether drivers' requests
  are served beside the riders' (the monolith), and what a trip costs and earns.
  Every server passes `DefaultWalletConfig` (`wallet_client.go:35`, `router.go:56`,
  the user-service's `server.go:81`), whose fares and points are 0
  (`wallet_service.go:68-83`). `DeductTripFare` refuses an amount of 0
  (`wallet_service.go:177`), so as shipped the request that first completes a
  trip writes the status and then ends in an error: nothing is taken, rewarded
  or announced. `WithWalletConfig` or other defaults would give a fare, and the
  instance has both. A driver's accept or move is its read of the trip and its
  write; a move is judged in the step that reads, and the rest of these requests
  is in `Dispatch`. `Lost` is a wallet transaction that took effect and whose
  answer never came.
- `TripHub`: the hub in the map is number 1; a second one would be the result of
  a race in `HubManager.get`. A rider is sent the status he was let in with and
  then the latest position, which a read replica may be up to `Lag` behind on.
  `log` is all that the hub's loop has taken, and a copy in a client's channel
  carries its number in the log (`nth`, a history; 0 for a snapshot), which is
  what `NoGaps` compares.
- `DriverSupply`: `LoseAnswer` is the 5 s timeout of the user-service's client,
  which cancels the registration in the driver-service, so that every further
  call of it, the rollback included, may fail. `banned` holds the drivers a
  search must not offer, or the driver a request to go offline will settle.
- `AppSession`: session `n` is the `n`-th pair of tokens. Expiry is an event
  that may happen at any time. A login is granted or refused at will. The app's
  storage does not fail in the model. In the program it may: the call that
  refreshes catches the exception and gets `false`, but the others await the
  shared future outside the `try` (`dio_client.dart:88-90`) and the exception
  leaves their interceptor. `CallsEnd` is about failing calls to the server and
  failing repositories only.
- `RateLimiter`: a level counts ticks, `Interval` of them a token, so that a
  bucket refills one by one as `rate.Limiter` does. `Watch` restarts the count of
  what was granted at any moment.
- `RouteCache`: a call that hits changes nothing. `passed` marks a call that
  missed and was then passed by a road another call stored.
- `HomeCache`: `caching` holds the processes that reached Redis when they
  started; the others read and write plainly. Only the monolith serves the
  routes that change promotions, over a plain repository, so decorated changes
  stand for the code of the repository as it would serve them, and
  `SettledIsSeen` is about code that no server at this commit calls; it leaves
  out a change that overtakes a reader, whose list may then be stored. What the
  deployed servers meet is `OutsideWrite`, the monolith, seeds and SQL, and
  `StaleOnlyForTtl` is about that.
- `Notifications`: `unique` is the schema, by which the monolith's
  `device_tokens` and the user-service's differ. `DELETE` and `INSERT` wait for
  other transactions as PostgreSQL does at `READ COMMITTED`.

## Runs

Every passing run finishes with all states explored. States are distinct states
found.

| run | instance | shows | states |
|---|---|---|---|
| `dispatch` | 2 drivers, 1 trip; all operations one at a time, or 2 requests at a time with failing calls | `RowBeforeDriver`, `AcceptanceIsOwn`, `TablesAgree`, `StatusIsOwn` | 1,301,015 |
| `dispatch_workers` | 2 drivers, 2 trips, 2 workers | **violates** `NoDoubleBooking` | |
| `matching` | the monolith, Redis and SQS; 2 trips, 2 drivers, 2 consumers, 3 faults, fair | `AtMostOnce`, `EventsHaveTrips`, `NothingLost`, `EveryEventAnswered` | 75,405 |
| `matching_unwired` | the deployed driver-service, fair | **violates** `EveryEventAnswered` | |
| `wallet` | 1 user, 2 sessions, fair | `BooksBalance`, `NoOverdraft`, `ImplementsLedger`, `RequestsEnd` | 8,643 |
| `completion` | monolith and trip-service with a replica, each at a fare of 0 (as shipped) and of 2; 1 trip, 2 requests at a time, failing calls | `RewardsAreEarned`, `ChargeFollowsCompletion`, `ToldCompletions`, `SettledOnce` | 295,749 |
| `completion_replica` | both as shipped, 1 request at a time | **violates** `JudgedOnPrimary` | |
| `hub` | 1 rider, 1 driver, 1 HTTP request, channels of 1, a change of status and a position, fair | `ListedIsOpen`, `OneHub`, `NoGaps`, `NoPositionMissed`, `BroadcastsEnd`, `ConnectionsEnd` | 250,861 |
| `supply` | 2 users, 2 plates, 2 requests at a time, 4 in all, 1 fault | `DriversHaveAccounts`, `AnsweredIsWhole`, `NoStrayDrivers`, `SearchHonoursOffline`, `OfflineLeavesIndex` | 295,437 |
| `session` | 2 calls, which log in, refresh and retry, 2 faults, fair | `OneRefresh`, `SessionKept`, `LogoutSticks`, `CallsEnd` | 47,139 |
| `home` | feed: 1 process, 2 calls, 2 writes, a time to live of 2; notifications: 2 users, 2 devices, 2 jobs, both schemas | `SettledIsSeen`, `StaleOnlyForTtl`, `DeviceHasItsOwner`, `PushesReachOwners` | 1,018,404 |
| `front` | limiter: 2 clients, 2 requests, 3 buckets, 6 ticks; routes: 2 pairs, 2 lookups | `OneBucket`, `NeverOverRate`, `ImplementsBucket`, `RoadsReturn`, `RoadsAreKept` | 231,102 |

The runs spend no property on types: the type invariants of `Dispatch`,
`TripMatching`, `TripCompletion`, `DriverSupply`, `TripHub` and `AppSession` are
theorems, and those of `Wallet`, `RateLimiter`, `RouteCache`, `HomeCache` and
`Notifications` are conjuncts of the inductive invariants proved of them. Every
property has a mutant of
the model, a plausible bug such as a forgotten `WHERE` column or a missing
second look, under which TLC finds it violated; the mutants stand before the
definitions they change.

**Why the bounds suffice.** The properties relate at most two drivers, two
sessions, two consumers or two requests that race on one row, one user or one
trip, and a third actor would only repeat what one of the two does. Channels of
capacity one fill and overflow with two messages. Two faults let a retry fail
again. Four registrations or searches cover a sign-up, its rollback, the retry
and a search. Two devices and multicasts of one (500 in the code) make a push of
two parts. `Stall = 3` against two windows of 4 ticks lets a request hold a
bucket while the sweep comes close to it, `MaxWatch = 6` is longer than a
window, and three buckets leave one to make while two are in use. Two ticks of
life, a reader that may take one more, and two writes let a list be overtaken
twice and expire in between. The proofs below carry what is proved to every
size.

**Deadlock** is checked for `dispatch`, `dispatch_workers`, `wallet`, `front` and
`home`, where clients never stop sending requests or time goes on. In the other
runs requests, trips and faults are bounded and the model comes to rest.

**Symmetry** is used where no liveness property is checked and no definition
tells the permuted values apart.

### The three disagreements

- `dispatch_workers`: `docs/moduleA_scalability.md:15` and `ARCHITECTURE.md:112`
  describe a short-lived lock per driver before `AssignNextAvailableDriver`.
  There is none (`driver_service.go:208`): two workers pick the same driver and
  book him for two trips.
- `matching_unwired`: `docs/moduleA_scalability.md:16` promises that riders see
  "searching" until workers recover. `consumeTripQueue` runs on a
  `DriverService` with a nil trip repository; the panic of that goroutine stops
  the process, and the event comes back to stop it again.
- `completion_replica`: `docs/moduleA_scalability.md:62` promises strong
  consistency of critical updates. `UpdateStatus` takes its snapshot with
  `GetTrip`, which reads the replica (`trip_repository.go:128`), so that with no
  other request about, a completion asked for again is judged on a status the
  trips table no longer has, and is settled again. At the shipped fare of 0 the
  wallet refuses it, as it did the first time; a fare would be taken twice.

Seen while modelling, and consequences of the same code rather than runs of
their own: with Redis an event that was popped is gone if its consumer stops
(`NothingLost` holds for SQS only); an accept by another driver takes the trip
over; at the shipped fare of 0 a rider's completion is written and answered with
an error, and no fare is ever taken; a driver's completion
(`driver_service.go:387`) settles nothing at any fare, so that completed trips
need not be paid for; a logout in the middle of a refresh is undone by the refresh
(`LogoutSticks` is about logouts that end with no refresh running); a rider's
handler may wait for ever to send the first snapshot once the write pump is gone
(`ConnectionsEnd` is about drivers' connections). A rider's status is fetched
before he is registered and a change in between never reaches him, while his
position is fetched afterwards and none is missed. "10 requests per minute" is a
burst of 10 and a refill, so up to twice that in one minute. A client who hangs
up in the middle of a lookup leaves a straight line for everybody, for as long
as a road. Under the user-service's schema two simultaneous registrations may
leave a device to two users. The trip-service's database has no notifications
table, so what it would notify of ends in an error that is logged.

## Fairness

- `TripMatching!FairSpec`: a consumer loop has no way to stop but the end of the
  process, the orchestrator restarts the process, and SQS ends a visibility
  timeout. Riders, drivers' answers and faults need not happen.
- `Wallet!FairSpec`: PostgreSQL goes on with a statement whose lock is free.
  A session waiting for a lock gets it in the end (strong fairness where steps
  are disabled in between), as lock queues see to.
- `TripHub!FairSpec`: Go runs every goroutine that can run. The cases of the
  hub's `select` that stay ready are all taken in the end, since `select`
  chooses at random; therefore strong fairness for registering and
  unregistering. Write deadlines keep a write pump going.
- `AppSession!FairSpec`: awaited calls come back, by Dio's timeouts of 10 s and
  15 s. Starting calls, logging in, expiry and logout are not fair.

The modules with time have no fairness: `RoadsReturn`, `StaleOnlyForTtl` and
`NeverOverRate` bound what may be found at any moment, which says more than that
something happens eventually.

## Proofs

`tlapm` proves these for every value of the constants that satisfies the named
assumptions of the modules (`ConstantsOK`, `LimiterOK`, `RoutesOK`,
`NotificationsOK`) and, where it says so, of the theorem. All follow one plan:
an invariant that is inductive, one lemma for each action, lemmas on the frame
of a step for the requests that do not move, and the property as a conjunct or
a consequence.

**`DispatchProofs`**: `TypeCorrect`, `RowsComeFirst`, `AcceptancesAreOwn`,
`StatusesAreOwn`, `TablesAlwaysAgree`. `IInv` adds `HandlerFits(h)`: what a
request has established by the step it is at. It is needed because the
invariants alone do not say that a request about to write `trips.driver_id` has
seen or written the row, or that a request at a step that accepts a row was made
by the driver in whose name it accepts. `TablesAlwaysAgree` is about the world
of one request at a time. Its `SerialInv` says that the tables agree on every
trip but that of the request in flight, and there unless the request has written
the row and not yet the trip (`PairFits`). It also shows that there the second
auto-assign of `UpdateTripStatus` (the row names another driver than the trip)
never runs: it is for overlapping requests only.

**`WalletProofs`**: `BooksAlwaysBalance`, `NeverOverdrawn`,
`WalletImplementsLedger`. `IInv` adds `Fits(s)`: a session past its `SELECT`
holds the lock, so the row in its memory is the committed row changed by its own
transaction. For the refinement, every step but `Commit` leaves the mapped
ledger alone (a wallet of zeros in place of no row included), and `Commit` is a
top-up, deduction or reward of the ledger.

**`TripMatchingProofs`**: `TypeCorrect`, `HandledTripsAreStored`,
`SqsLosesNothing` (for deployments with SQS), `RedisGivesOnce` (for those
without). They share `Base`, types and whom a handling is about. `AtMostOnce`
needs that an event exists in one place only: in the list, in one consumer's
hands or in its request's, and nowhere once a driver was given.

**`TripCompletionProofs`**: `TypeCorrect`, `RewardsAlwaysEarned`,
`ChargesFollowCompletions`, `CompletionsToldAreTrue`, `CompletionsSettledOnce`.
`IInv` counts: the points given for a trip and the requests still to give them
(`OwedTo`) are together no more than its charges. `CompletionsSettledOnce` says
that where `GetTrip` reads the primary a completion is settled once, on trips
whose requests come one at a time, for any fare and with or without drivers. Its
`SettleInv` adds that such a trip has one request at most (`Alone`), so that the
status on which a completion is judged is the one it overwrites
(`SnapshotsHold`).

**`DriverSupplyProofs`**: `TypeCorrect` and all five properties of the run:
`ProfilesHaveAccounts`, `AnswersAreKept`, `RefusedLeaveNothing`,
`SearchesSkipOffline`, `OfflineStaysOut`. `IInv` says of every request what its
registration has established so far (`RegistrationFits`) and whom it holds to be
offline (`PresenceFits`); of any two, that they never register the same row
(`OwnRow`), which is why a rollback takes nobody else's row away, and that
nobody is held to be offline whose request to be online is at work
(`StaysOff`); and of all, that ids do not run out (`IdsLeft`, a count of the
requests that may still draw one).

**`TripFrontProofs`**: `RoadsAlwaysReturn`, `RoadsStay`, `ClientsHaveOneBucket`,
`GrantsAreLimited`, `LimiterImplementsBucket`. For the routes, an entry or a
call that holds a straight line is no older than the last failure
(`LinesAreRecent`). For the limiter, a bucket in somebody's hands was looked up
within `Stall` and so is not dropped (`HeldIsFresh`), one idle for a window is
full (`IdleIsFull`), which makes dropping it invisible, and what was spent and
what is left is never more than a bucket and the refill (`GrantsAreSpent`).
`FrontKeepsBoth` shows that a behaviour of `TripFront` is one of either part, so
all of this holds of the composition.

The same module has the proofs of `TripHub`: `HubTypeCorrect`, `ListedAreOpen`,
`HubIsOne`, `NobodyHasGaps`, `NoPositionLost`. `HubInv` says that only hub 1 is
ever used (`OthersRest`, and `ProcFits` for whoever has looked it up), that who
is not registered yet has been handed nothing (`NotYet`), that the broadcasts a
connection has been handed are those numbered from its registration up to a last
one, which for a listed connection is the end of the log (`Covers`), and that
they come in the order of the log (`InOrder`). `NoPositionMissed` needs to know
where the position is that a snapshot just read would miss (`Reached`): it is
the snapshot itself or no older than the replica, or it is in a writer's hands,
in the hub's channel, or in the log after the rider's registration; for a listed
rider with nothing on its way only the snapshot and the log are left.

**`AppSessionProofs`**: `TypeCorrect`, `RefreshesAreOne`, `SessionsAreKept`,
`LogoutsStick`. `IInv` says that the one refresh in flight is the call at a step
of a refresh (`OneRefresh`), that a call refreshes once and then retries
(`RefreshesOnce`), that the token it is about to store was issued since the last
logout (`GrantIsNew`), and, while nothing has failed, which token the server
still takes at every step of a refresh or a login (`Kept`). Types need a count:
the sessions there may be are never exceeded because each call still to refresh
or to log in has one left (`SessionsLeft`).

**`UserPagesProofs`**: `SettledAlwaysSeen`, `StaleListsExpire`,
`DevicesHaveOwners`, `PushesGoToOwners`. Of the home feed, the version a table
has is not gone (`NewestIsFresh`); what a reader holds has been gone no longer
than he holds it and is no older than what is settled (`Fits`), and so what is
stored has been gone no longer than its age and `Stall` (`EntryFits`). Of
notifications, a transaction touches rows of its token only (`RegFits`), two
that overlap on one token know of each other and never both have a row to commit
that the schema lets only one have (`Apart`), a registration that met no other
leaves its own row and no other (`OwnersHold`), under one of the schemas a token
has one row at most (`TokensUnique`), and what is left to be sent and what was
sent cover what the user has had throughout (`PushFits`).

**Only model-checked**: the liveness properties (`EveryEventAnswered`,
`RequestsEnd`, `BroadcastsEnd`, `ConnectionsEnd`, `CallsEnd`): they need
fairness, and TLAPS 1.4.5 has no `ENABLED`. Every other property of a passing
run is a theorem.

## Not modelled

Trip lists (read-only pages; the log of positions is in `TripHub`), saved places
and an administrator's changes of a user's role and state (single rows, each
written by one statement on behalf of one person), authentication, CORS and
audit middleware (per request, no shared state), the internal routes that purge
trips and assignments of a demonstration, configuration, logging, metrics
and tracing, migrations and seeds (their constraints are in the modules that
rely on them), the apps' widgets, Terraform, Kubernetes and load tests. Of the
apps only the rider's session is modelled; the driver app has a client of its
own.

## Plan

1. A composition of `Dispatch` and `TripMatching`, with the promise "a published
   trip has a pending assignment or was answered" as its abstract specification:
   it would replace the single step that takes or refuses a driver.
2. The driver app's session beside the rider's in `AppSession`.
