----------------------------- MODULE RouteCache -----------------------------
(***************************************************************************)
(* The routing proxy: routing.Client (internal/routing/osrm.go) behind     *)
(* POST /routes (handlers/routes.go).  A route found by the upstream is    *)
(* kept in the memory of the process.  When the upstream cannot be asked,  *)
(* a straight line between the two points is answered instead and kept     *)
(* just as long; so is the line of a client who hung up in the middle, and *)
(* every other client then gets it.                                        *)
(*                                                                         *)
(* The lock is held to look an entry up and to store one, not in between.  *)
(* An entry is never deleted; one past its time is not found.              *)
(***************************************************************************)
EXTENDS Naturals

CONSTANTS
  Pairs,      \* origins and destinations, as far as cacheKey tells them apart
  Lookups,    \* concurrent GetRoute calls
  NoPair,     \* the pair of an idle call
  RouteTtl,   \* cacheTTL in ticks; 0 turns the cache off
  SaveStall   \* bound: ticks from the upstream's answer to saveCache

ASSUME RoutesOK ==
  /\ NoPair \notin Pairs
  /\ RouteTtl \in Nat /\ SaveStall \in Nat

VARIABLES
  routes,  \* the cache: for each pair what is stored and for how many ticks
  lookup,  \* the GetRoute calls
  calm     \* history: ticks since an upstream request last failed

routeVars == <<routes, lookup, calm>>

NoRoute == [kind |-> "none", age |-> 0]
NoCall  == [pc |-> "idle", pair |-> NoPair, got |-> "none", held |-> 0, passed |-> FALSE]

LongCalm == RouteTtl + SaveStall + 1   \* nothing tells longer times apart

RoutesInit ==
  /\ routes = [p \in Pairs |-> NoRoute]
  /\ lookup = [l \in Lookups |-> NoCall]
  /\ calm = LongCalm

Doing(l, pc) == lookup[l].pc = pc
EndCall(l)   == lookup' = [lookup EXCEPT ![l] = NoCall]

(* now.After(expiresAt) is false up to and at the last tick.               *)
Cached(p) == RouteTtl > 0 /\ routes[p].kind # "none" /\ routes[p].age <= RouteTtl

-----------------------------------------------------------------------------
(* GetRoute.  A hit changes nothing.                                       *)

AskUpstream(l, p) ==
  lookup' = [lookup EXCEPT ![l] = [NoCall EXCEPT !.pc = "fetch", !.pair = p]]

\* Mutant of Ask: a route that is about to expire is fetched anew.
AskEarly(l, p) ==
  /\ Doing(l, "idle")
  /\ ~Cached(p) \/ routes[p].age = RouteTtl
  /\ AskUpstream(l, p)
  /\ UNCHANGED <<routes, calm>>

\* Mutant of Ask: a hit gives the route its whole time again.
AskAndTouch(l, p) ==
  /\ Doing(l, "idle")
  /\ IF Cached(p) THEN routes' = [routes EXCEPT ![p].age = 0] /\ UNCHANGED lookup
                  ELSE AskUpstream(l, p) /\ UNCHANGED routes
  /\ UNCHANGED calm

Ask(l, p) ==
  /\ Doing(l, "idle")
  /\ ~Cached(p)
  /\ AskUpstream(l, p)
  /\ UNCHANGED <<routes, calm>>

Got(l, kind) == lookup' = [lookup EXCEPT ![l].pc = "save", ![l].got = kind]

(* 200 with a route; with none, another code or a 404 the call ends in     *)
(* ErrRouteNotFound, and that answer is not kept.                          *)
UpstreamAnswers(l) ==
  /\ Doing(l, "fetch")
  /\ Got(l, "road") \/ EndCall(l)
  /\ UNCHANGED <<routes, calm>>

(* No connection, a timeout, a client who hangs up, another status or a    *)
(* body that does not decode: syntheticRoute, which refuses two equal      *)
(* points.                                                                 *)
UpstreamFails(l) ==
  /\ Doing(l, "fetch")
  /\ Got(l, "straight") \/ EndCall(l)
  /\ calm' = 0
  /\ UNCHANGED routes

(* saveCache.  Other calls in flight that were told to find the pair       *)
(* themselves have been passed by a road.                                  *)
Save(l) ==
  LET p == lookup[l].pair
      road == lookup[l].got = "road"
  IN  /\ Doing(l, "save")
      /\ routes' = IF RouteTtl = 0 THEN routes
                   ELSE [routes EXCEPT ![p] = [kind |-> lookup[l].got, age |-> 0]]
      /\ lookup' = [m \in Lookups |->
           IF m = l THEN NoCall
           ELSE IF road /\ lookup[m].pair = p THEN [lookup[m] EXCEPT !.passed = TRUE]
           ELSE lookup[m]]
      /\ UNCHANGED calm

-----------------------------------------------------------------------------
Later(n, bound) == IF n < bound THEN n + 1 ELSE n

RoutesTick ==
  /\ \A l \in Lookups : Doing(l, "save") => lookup[l].held < SaveStall
  /\ routes' = [p \in Pairs |-> IF routes[p] = NoRoute THEN NoRoute
                ELSE [routes[p] EXCEPT !.age = Later(@, RouteTtl + 1)]]
  /\ lookup' = [l \in Lookups |-> IF Doing(l, "save")
                THEN [lookup[l] EXCEPT !.held = @ + 1] ELSE lookup[l]]
  /\ calm' = Later(calm, LongCalm)

(* The process stops and starts again.                                     *)
RoutesRestart ==
  /\ routes' = [p \in Pairs |-> NoRoute]
  /\ lookup' = [l \in Lookups |-> NoCall]
  /\ UNCHANGED calm

GetRoute(l) ==
  \/ \E p \in Pairs : Ask(l, p)
  \/ UpstreamAnswers(l) \/ UpstreamFails(l) \/ Save(l)

RoutesNext ==
  \/ \E l \in Lookups : GetRoute(l)
  \/ RoutesTick \/ RoutesRestart

RoutesSpec == RoutesInit /\ [][RoutesNext]_routeVars

-----------------------------------------------------------------------------
(* Type invariant.                                                         *)
RoutesTypeOK ==
  /\ routes \in [Pairs -> [kind : {"none", "road", "straight"}, age : 0 .. RouteTtl + 1]]
  /\ lookup \in [Lookups -> [pc : {"idle", "fetch", "save"}, pair : Pairs \cup {NoPair},
                             got : {"none", "road", "straight"}, held : 0 .. SaveStall,
                             passed : BOOLEAN]]
  /\ calm \in 0 .. LongCalm

(* The proxy recovers: a straight line is answered only while a request to *)
(* the upstream has failed within the time an entry is kept, however often *)
(* the pair is asked for meanwhile and whoever stores what in which order. *)
RoadsReturn ==
  \A p \in Pairs :
    Cached(p) /\ routes[p].kind = "straight" => calm <= RouteTtl + SaveStall

(* A road that is still good gives way to a straight line only by a call   *)
(* that missed it before it was stored: two calls on their way at once,    *)
(* never a failure that came later.                                        *)
RoadsAreKept ==
  [][\A p \in Pairs :
       Cached(p) /\ routes[p].kind = "road" /\ routes'[p].kind = "straight" =>
         \E l \in Lookups : Doing(l, "save") /\ lookup[l].pair = p /\ lookup[l].passed
    ]_routeVars
=============================================================================
