----------------------------- MODULE MCDispatch -----------------------------
(* Small instances of Dispatch.  Drivers and handlers are interchangeable: *)
(* no definition tells one from another.                                   *)
EXTENDS Dispatch, TLC

Symmetry == Permutations(Drivers) \cup Permutations(Handlers)
=============================================================================
