-------------------------- MODULE MCTripCompletion --------------------------
(* Small instances of TripCompletion: one rider, who books every trip, and  *)
(* the two deployments, with the fare of 0 they are shipped with and, where  *)
(* the run says so, with a configured one as well.                           *)
EXTENDS TripCompletion, TLC

MCRiderOf == [t \in Trips |-> CHOOSE u \in Users : TRUE]

Monolith(fare, pts) ==
  [replica |-> FALSE, drivers |-> TRUE, fare |-> fare, points |-> pts]
Services(fare, pts) ==
  [replica |-> TRUE, drivers |-> FALSE, fare |-> fare, points |-> pts]

ShippedServices == {Services(0, 0)}
ShippedOrPriced == {Monolith(0, 0), Services(0, 0), Monolith(2, 1), Services(2, 1)}
=============================================================================
