----------------------------- MODULE RateLimiter ----------------------------
(***************************************************************************)
(* The rate limiter of the login, registration and trip routes             *)
(* (internal/http/middleware/rate_limit.go): a map of token buckets, one   *)
(* for every client address and route, made when the client is first seen  *)
(* and dropped when he has not been seen for two windows.                  *)
(*                                                                         *)
(* The map is locked while a request looks its bucket up and no longer:    *)
(* the request then spends a token of the bucket it holds a pointer to,    *)
(* whatever has become of the map meanwhile.  A bucket is a rate.Limiter   *)
(* of golang.org/x/time, which is made full.                               *)
(*                                                                         *)
(* Time goes by in ticks; a token comes back every Interval ticks and      *)
(* counts Interval, so a bucket is a number of ticks.                      *)
(***************************************************************************)
EXTENDS Naturals

CONSTANTS
  Clients,   \* "<route>:<client address>", the keys of the map
  Requests,  \* concurrent request goroutines
  Buckets,   \* addresses of rate.Limiter objects
  None,      \* no client, no bucket
  Burst,     \* requests per window
  Interval,  \* ticks from one token to the next: window / requests
  Stall,     \* bound: ticks from the lookup of a bucket to its use
  MaxWatch   \* bound: ticks over which the grants of a client are counted

Cap    == Burst * Interval
Window == Burst * Interval
Ttl    == 2 * Window

(* Allow follows getLimiter with no call in between that could wait; two   *)
(* windows are two minutes.                                                *)
ASSUME LimiterOK ==
  /\ None \notin Clients \cup Buckets
  /\ Burst \in Nat \ {0} /\ Interval \in Nat \ {0}
  /\ Stall \in Nat /\ MaxWatch \in Nat
  /\ Stall + Window <= Ttl

VARIABLES
  limiters,  \* the map: for each client a bucket and the ticks since lastHit
  level,     \* what each bucket holds, in ticks
  req,       \* the request each goroutine serves
  spent,     \* history: what each client was granted since the watch began
  watched,   \* history: how many ticks ago the watch began
  run        \* history: which run of the process this is, 0 and 1 in turn

limiterVars == <<limiters, level, req, spent, watched, run>>

Absent == [bucket |-> None, idle |-> 0]
Unheld == [client |-> None, bucket |-> None, age |-> 0]

Seen(c) == limiters[c].bucket # None
Holds(r) == req[r].bucket # None

InUse == {limiters[c].bucket : c \in Clients} \cup {req[r].bucket : r \in Requests}

LimiterInit ==
  /\ limiters = [c \in Clients |-> Absent]
  /\ level = [b \in Buckets |-> Cap]
  /\ req = [r \in Requests |-> Unheld]
  /\ spent = [c \in Clients |-> 0]
  /\ watched = 0
  /\ run = 0

Hold(r, c, b) == req' = [req EXCEPT ![r] = [client |-> c, bucket |-> b, age |-> 0]]
Finish(r)     == req' = [req EXCEPT ![r] = Unheld]

-----------------------------------------------------------------------------
(* getLimiter                                                              *)

\* Mutant of FindLimiter: lastHit stays the time the bucket was made.
FindLimiterOnly(r, c) ==
  /\ ~Holds(r) /\ Seen(c)
  /\ Hold(r, c, limiters[c].bucket)
  /\ UNCHANGED <<limiters, level, spent, watched, run>>

FindLimiter(r, c) ==
  /\ ~Holds(r) /\ Seen(c)
  /\ limiters' = [limiters EXCEPT ![c].idle = 0]
  /\ Hold(r, c, limiters[c].bucket)
  /\ UNCHANGED <<level, spent, watched, run>>

\* Mutant of Outdated: buckets are dropped after one window.
OutdatedAfterWindow(c) == Seen(c) /\ limiters[c].idle > Window

Outdated(c) == Seen(c) /\ limiters[c].idle > Ttl

(* Only a request that makes a bucket sweeps the map.                      *)
NewLimiter(r, c) ==
  /\ ~Holds(r) /\ ~Seen(c)
  /\ \E b \in Buckets \ InUse :
       /\ level' = [level EXCEPT ![b] = Cap]
       /\ limiters' = [d \in Clients |->
            IF d = c THEN [bucket |-> b, idle |-> 0]
            ELSE IF Outdated(d) THEN Absent ELSE limiters[d]]
       /\ Hold(r, c, b)
  /\ UNCHANGED <<spent, watched, run>>

(* limiter.Allow(): the request goes on to its handler or is answered 429. *)
Allow(r) ==
  LET c == req[r].client
      b == req[r].bucket
  IN  /\ Holds(r)
      /\ IF level[b] >= Interval
         THEN /\ level' = [level EXCEPT ![b] = @ - Interval]
              /\ spent' = [spent EXCEPT ![c] = @ + Interval]
         ELSE UNCHANGED <<level, spent>>
      /\ Finish(r)
      /\ UNCHANGED <<limiters, watched, run>>

-----------------------------------------------------------------------------
UpTo(n, bound) == IF n < bound THEN n + 1 ELSE n

(* Time passes.  Nothing tells ages above Ttl apart.                       *)
LimiterTick ==
  /\ \A r \in Requests : Holds(r) => req[r].age < Stall
  /\ watched < MaxWatch
  /\ level' = [b \in Buckets |-> UpTo(level[b], Cap)]
  /\ limiters' = [c \in Clients |->
       IF Seen(c) THEN [limiters[c] EXCEPT !.idle = UpTo(@, Ttl + 1)] ELSE Absent]
  /\ req' = [r \in Requests |-> IF Holds(r) THEN [req[r] EXCEPT !.age = @ + 1] ELSE Unheld]
  /\ watched' = watched + 1
  /\ UNCHANGED <<spent, run>>

(* The watch may begin at any time.                                        *)
Watch ==
  /\ spent' = [c \in Clients |-> 0]
  /\ watched' = 0
  /\ UNCHANGED <<limiters, level, req, run>>

(* The process stops and starts again: its map is empty.                   *)
LimiterRestart ==
  /\ limiters' = [c \in Clients |-> Absent]
  /\ level' = [b \in Buckets |-> Cap]
  /\ req' = [r \in Requests |-> Unheld]
  /\ spent' = [c \in Clients |-> 0]
  /\ watched' = 0
  /\ run' = 1 - run

Limit(r) ==
  \/ \E c \in Clients : FindLimiter(r, c) \/ NewLimiter(r, c)
  \/ Allow(r)

LimiterNext ==
  \/ \E r \in Requests : Limit(r)
  \/ LimiterTick \/ Watch \/ LimiterRestart

LimiterSpec == LimiterInit /\ [][LimiterNext]_limiterVars

-----------------------------------------------------------------------------
(* Type invariant.                                                         *)
LimiterTypeOK ==
  /\ limiters \in [Clients -> [bucket : Buckets, idle : 0 .. Ttl + 1] \cup {Absent}]
  /\ level \in [Buckets -> 0 .. Cap]
  /\ req \in [Requests -> [client : Clients, bucket : Buckets, age : 0 .. Stall]
                            \cup {Unheld}]
  /\ spent \in [Clients -> Nat]
  /\ watched \in 0 .. MaxWatch
  /\ run \in {0, 1}

(* However requests, sweeps and the clock interleave, a client never has   *)
(* two buckets: the one a request holds outside the lock is the one the    *)
(* map has for its client, and no other client's.                          *)
OneBucket ==
  /\ \A r \in Requests : Holds(r) => limiters[req[r].client].bucket = req[r].bucket
  /\ \A c, d \in Clients : Seen(c) /\ limiters[c].bucket = limiters[d].bucket => c = d

(* "allows <requests> per <window>", as far as a token bucket can: since   *)
(* any moment, a client was granted no more than a full bucket and what    *)
(* came back meanwhile.  In one window that is at most twice <requests>.   *)
NeverOverRate == \A c \in Clients : spent[c] <= Cap + watched

(* Dropping and making buckets is not noticed: the limiter implements one  *)
(* bucket for every client for ever.  A bucket not in the map is full.     *)
Promise ==
  INSTANCE TokenBucket WITH
    tokens <- [c \in Clients |-> IF Seen(c) THEN level[limiters[c].bucket] ELSE Cap]

ImplementsBucket == Promise!Spec
=============================================================================
