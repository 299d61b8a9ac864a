----------------------------- MODULE MCTripHub -----------------------------
(* Small instances of TripHub.  Liveness is checked, so no symmetry.        *)
EXTENDS TripHub, TLC
=============================================================================
