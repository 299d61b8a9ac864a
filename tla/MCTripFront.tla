----------------------------- MODULE MCTripFront ----------------------------
(* Small instances of TripFront.  The two parts share no more than time    *)
(* and restarts, so each is explored with the other at rest: the clients   *)
(* either ask for routes or call the limited routes.                       *)
EXTENDS TripFront, TLC

VARIABLE asked  \* what the clients call

FrontSymmetry ==
  Permutations(Clients) \cup Permutations(Requests) \cup Permutations(Buckets)
    \cup Permutations(Pairs) \cup Permutations(Lookups)

CallLimited(r) == asked = "limited" /\ Limit(r) /\ UNCHANGED <<routeVars, asked>>
CallRoutes(l)  == asked = "routes" /\ GetRoute(l) /\ UNCHANGED <<limiterVars, asked>>
BeginWatch     == asked = "limited" /\ Watch /\ UNCHANGED <<routeVars, asked>>

(* Where nobody is limited nothing is watched.                             *)
Age == /\ IF asked = "limited" THEN LimiterTick ELSE UNCHANGED limiterVars
       /\ RoutesTick /\ UNCHANGED asked

StartAgain == Restart /\ UNCHANGED asked

AskedInit == FrontInit /\ asked \in {"limited", "routes"}

AskedNext ==
  \/ \E r \in Requests : CallLimited(r)
  \/ \E l \in Lookups : CallRoutes(l)
  \/ BeginWatch \/ Age \/ StartAgain

AskedSpec == AskedInit /\ [][AskedNext]_<<frontVars, asked>>
=============================================================================
