--------------------------- MODULE MCTripMatching ---------------------------
(* Small instances of TripMatching.                                         *)
EXTENDS TripMatching

(* cmd/server gives its router a DriverService and no dispatcher, the       *)
(* trip-service a dispatcher, by default the Redis one, and no driver       *)
(* service.                                                                 *)
Monolith == [backend |-> "none", inline |-> TRUE]
OnRedis  == [backend |-> "redis", inline |-> FALSE]
OnSqs    == [backend |-> "sqs", inline |-> FALSE]

EveryDeployment == {Monolith, OnRedis, OnSqs}
SqsDeployment   == {OnSqs}
=============================================================================
