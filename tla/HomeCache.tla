------------------------------ MODULE HomeCache -----------------------------
(***************************************************************************)
(* The home feed and its Redis cache: the decorated promotion and news     *)
(* repositories (internal/cache/home_cache.go) over the promotions and     *)
(* news_items tables (internal/db/home_repository.go), and the handlers    *)
(* that list and change them (handlers/home.go, handlers/admin.go).        *)
(*                                                                         *)
(* A list is cached aside: a reader looks in Redis, on a miss or an error  *)
(* reads the table, and stores what it read with a time to live.  A write  *)
(* of promotions goes to the table and then deletes the one key that holds *)
(* the list; nothing deletes a list of news, which is kept once for every  *)
(* limit a client asks for.  Redis is optional: its errors are logged, and *)
(* a process that cannot reach it when it starts runs without the cache.   *)
(*                                                                         *)
(* Only the monolith registers the routes that change promotions           *)
(* (router.go:103), over a repository that its own cache does not decorate; *)
(* decorated changes stand for the repository's code as it would serve them. *)
(*                                                                         *)
(* What a table holds is its version, the number of writes it has seen.    *)
(***************************************************************************)
EXTENDS Naturals

CONSTANTS
  Promotions,  \* the promotions table, and "home:promotions", its key
  News,        \* the news_items table
  NewsKeys,    \* "home:news:<limit>", for the limits clients ask for
  Procs,       \* processes on this database and this Redis
  Calls,       \* concurrent requests
  NoProc,      \* the process of an idle call
  Ttl,         \* HomeCacheTTL, in ticks
  Stall,       \* bound: ticks a reader may hold a list before Redis has it
  MaxWrites    \* bound: writes of each table

Keys   == {Promotions} \cup NewsKeys
Tables == {Promotions, News}

ASSUME ConstantsOK ==
  /\ Promotions \notin NewsKeys \cup {News}
  /\ NoProc \notin Procs
  /\ Ttl \in Nat \ {0} /\ Stall \in Nat /\ MaxWrites \in Nat

VARIABLES
  table,    \* the version of each table
  cache,    \* what Redis holds under each key
  caching,  \* processes whose repositories are decorated
  call,     \* the request each goroutine serves
  gone,     \* history: ticks since a version of a table was overwritten
  settled   \* history: a promotions version no cached list may fall behind

vars == <<table, cache, caching, call, gone, settled>>

Versions == 0 .. MaxWrites
Table(k) == IF k = Promotions THEN Promotions ELSE News

NoEntry == [val |-> 0, age |-> Ttl]      \* a key that has expired is no key
Entries == [val : Versions, age : 0 .. Ttl]
Found(k) == cache[k].age < Ttl

Idle == [pc |-> "idle", proc |-> NoProc, key |-> Promotions, val |-> 0, held |-> 0]

At(c, pc) == call[c].pc = pc
Goto(c, pc) == call' = [call EXCEPT ![c].pc = pc]
Answer(c) == call' = [call EXCEPT ![c] = Idle]

Init ==
  /\ table = [t \in Tables |-> 0]
  /\ cache = [k \in Keys |-> NoEntry]
  /\ caching \in SUBSET Procs
  /\ call = [c \in Calls |-> Idle]
  /\ gone = [t \in Tables |-> [v \in Versions |-> 0]]
  /\ settled = 0

-----------------------------------------------------------------------------
(* ListActive and ListLatest                                               *)

Begin(c, p, k, pc) ==
  /\ At(c, "idle")
  /\ call' = [call EXCEPT ![c] = [pc |-> pc, proc |-> p, key |-> k, val |-> 0, held |-> 0]]
  /\ UNCHANGED <<table, cache, caching, gone, settled>>

List(c, p, k) == Begin(c, p, k, IF p \in caching THEN "get" ELSE "read")

\* Mutant of Get: a hit gives the list a new time to live.
GetAndTouch(c) ==
  /\ At(c, "get")
  /\ IF Found(call[c].key)
     THEN cache' = [cache EXCEPT ![call[c].key].age = 0] /\ Answer(c)
     ELSE UNCHANGED cache /\ Goto(c, "read")
  /\ UNCHANGED <<table, caching, gone, settled>>

Get(c) ==
  /\ At(c, "get")
  /\ IF Found(call[c].key) THEN Answer(c) ELSE Goto(c, "read")
  /\ UNCHANGED <<table, cache, caching, gone, settled>>

(* Redis does not answer, or what it holds does not decode.                *)
GetFails(c) ==
  /\ At(c, "get")
  /\ Goto(c, "read")
  /\ UNCHANGED <<table, cache, caching, gone, settled>>

Read(c) ==
  /\ At(c, "read")
  /\ IF call[c].proc \in caching
     THEN call' = [call EXCEPT ![c].pc = "set", ![c].val = table[Table(call[c].key)]]
     ELSE Answer(c)
  /\ UNCHANGED <<table, cache, caching, gone, settled>>

Store(k, v) == cache' = [cache EXCEPT ![k] = [val |-> v, age |-> 0]]

Set(c) ==
  /\ At(c, "set")
  /\ Store(call[c].key, call[c].val)
  /\ Answer(c)
  /\ UNCHANGED <<table, caching, gone, settled>>

-----------------------------------------------------------------------------
(* Create and Deactivate of promotions: the decorated ones delete the key  *)
(* when the table is written, the plain ones have nothing to delete.       *)

\* Mutant of After: the key is deleted before the table is written.
AfterDelFirst(p, pc) ==
  CASE pc = "start" -> IF p \in caching THEN "del" ELSE "write"
    [] pc = "del"   -> "write"
    [] pc = "write" -> "done"

After(p, pc) ==
  CASE pc = "start" -> "write"
    [] pc = "write" -> IF p \in caching THEN "del" ELSE "done"
    [] pc = "del"   -> "done"

Change(c, p) == Begin(c, p, Promotions, After(p, "start"))

(* A reader has read promotions older than v and not yet stored them.      *)
Overtaken(v) ==
  \E c \in Calls : At(c, "set") /\ call[c].key = Promotions /\ call[c].val < v

(* The call has done pc.  A decorated change that has done all it does is  *)
(* settled, unless a reader was overtaken by it.                           *)
Done(c, pc) ==
  LET p == call[c].proc
      v == table'[Promotions]
  IN  IF After(p, pc) # "done"
      THEN Goto(c, After(p, pc)) /\ UNCHANGED settled
      ELSE /\ Answer(c)
           /\ settled' = IF p \in caching /\ ~Overtaken(v) THEN v ELSE settled

(* The version that is overwritten is gone from now on.                    *)
Bump(t) ==
  /\ table[t] < MaxWrites
  /\ table' = [table EXCEPT ![t] = @ + 1]

Write(c) ==
  /\ At(c, "write")
  /\ Bump(Promotions)
  /\ Done(c, "write")
  /\ UNCHANGED <<cache, caching, gone>>

Del(c) ==
  /\ At(c, "del")
  /\ cache' = [cache EXCEPT ![Promotions] = NoEntry]
  /\ UNCHANGED table
  /\ Done(c, "del")
  /\ UNCHANGED <<caching, gone>>

(* The call ends early: the database refuses (500, or 404 for a promotion  *)
(* that is not there), Redis does not answer a Set or a Del (only logged), *)
(* or the client gives up.  What was asked may have been done all the same. *)
Fails(c) ==
  /\ ~At(c, "idle")
  /\ Answer(c)
  /\ \/ UNCHANGED <<table, cache>>
     \/ At(c, "write") /\ Bump(Promotions) /\ UNCHANGED cache
     \/ At(c, "set") /\ Store(call[c].key, call[c].val) /\ UNCHANGED table
     \/ At(c, "del") /\ cache' = [cache EXCEPT ![Promotions] = NoEntry] /\ UNCHANGED table
  /\ UNCHANGED <<caching, gone, settled>>

-----------------------------------------------------------------------------
(* Around the repositories.                                                *)

(* Seed data, SQL and the plain repositories of other programs.            *)
OutsideWrite(t) ==
  /\ Bump(t)
  /\ UNCHANGED <<cache, caching, call, gone, settled>>

(* A process stops with its requests and starts again, with the cache if   *)
(* it is configured and Redis answers the ping.                            *)
Restart(p) ==
  /\ \/ caching' = caching \cup {p}
     \/ caching' = caching \ {p}
  /\ call' = [c \in Calls |-> IF call[c].proc = p THEN Idle ELSE call[c]]
  /\ UNCHANGED <<table, cache, gone, settled>>

(* Redis evicts the key or loses its memory.                               *)
Forget(k) ==
  /\ Found(k)
  /\ cache' = [cache EXCEPT ![k] = NoEntry]
  /\ UNCHANGED <<table, caching, call, gone, settled>>

(* Time passes, for a reader on its way to Redis at most Stall times.      *)
Older(n, bound) == IF n < bound THEN n + 1 ELSE n

Tick ==
  /\ \A c \in Calls : At(c, "set") => call[c].held < Stall
  /\ cache' = [k \in Keys |-> IF cache[k].age + 1 < Ttl
                              THEN [cache[k] EXCEPT !.age = @ + 1] ELSE NoEntry]
  /\ call' = [c \in Calls |-> IF At(c, "set") THEN [call[c] EXCEPT !.held = @ + 1]
                              ELSE call[c]]
  /\ gone' = [t \in Tables |-> [v \in Versions |->
                IF v < table[t] THEN Older(gone[t][v], Ttl + Stall + 1) ELSE 0]]
  /\ UNCHANGED <<table, caching, settled>>

Serve(c) ==
  \/ \E p \in Procs : Change(c, p) \/ \E k \in Keys : List(c, p, k)
  \/ Get(c) \/ GetFails(c) \/ Read(c) \/ Set(c)
  \/ Write(c) \/ Del(c) \/ Fails(c)

Next ==
  \/ \E c \in Calls : Serve(c)
  \/ \E t \in Tables : OutsideWrite(t)
  \/ \E p \in Procs : Restart(p)
  \/ \E k \in Keys : Forget(k)
  \/ Tick

Spec == Init /\ [][Next]_vars

-----------------------------------------------------------------------------
Pcs == {"idle", "get", "read", "set", "write", "del"}

(* Type invariant: Redis holds lists of versions the tables have had.      *)
TypeOK ==
  /\ table \in [Tables -> Versions]
  /\ cache \in [Keys -> Entries]
  /\ caching \in SUBSET Procs
  /\ call \in [Calls -> [pc : Pcs, proc : Procs \cup {NoProc}, key : Keys,
                         val : Versions, held : 0 .. Stall]]
  /\ gone \in [Tables -> [Versions -> 0 .. Ttl + Stall + 1]]
  /\ settled \in Versions

(* Invalidation holds: once a change of the promotions has written the     *)
(* table and deleted the key, and no reader was between its two steps at   *)
(* that moment, no list older than the change is found in Redis, whatever  *)
(* readers, writers, failures and restarts follow.                         *)
SettledIsSeen == Found(Promotions) => cache[Promotions].val >= settled

(* Whatever goes wrong with the invalidation (a reader overtaken by a      *)
(* write, a Del that failed or was never asked for, news), a list that has *)
(* been out of date for the time to live, and the time its reader took to  *)
(* store it, is not found any more.                                        *)
StaleOnlyForTtl ==
  \A k \in Keys : Found(k) => gone[Table(k)][cache[k].val] < Ttl + Stall
=============================================================================
