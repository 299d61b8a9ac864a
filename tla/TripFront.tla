------------------------------ MODULE TripFront -----------------------------
(***************************************************************************)
(* What a server process keeps in memory in front of its handlers: the     *)
(* rate limiter's buckets and the routing client's routes.  They share the *)
(* clock and the process: time passes for both at once, and a crash takes  *)
(* both.                                                                   *)
(***************************************************************************)
EXTENDS RateLimiter, RouteCache

frontVars == <<limiterVars, routeVars>>

FrontInit == LimiterInit /\ RoutesInit

Tick    == LimiterTick /\ RoutesTick
Restart == LimiterRestart /\ RoutesRestart

FrontNext ==
  \/ \E r \in Requests : Limit(r) /\ UNCHANGED routeVars
  \/ Watch /\ UNCHANGED routeVars
  \/ \E l \in Lookups : GetRoute(l) /\ UNCHANGED limiterVars
  \/ Tick \/ Restart

FrontSpec == FrontInit /\ [][FrontNext]_frontVars
=============================================================================
