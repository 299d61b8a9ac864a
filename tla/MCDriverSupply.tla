---------------------------- MODULE MCDriverSupply ----------------------------
(* Small instances of DriverSupply: requests are interchangeable, and so are *)
(* plates.                                                                  *)
EXTENDS DriverSupply, TLC

SupplySymmetry == Permutations(Handlers) \cup Permutations(Plates)
=============================================================================
