-------------------------- MODULE MCDispatchWorlds --------------------------
(* Small instances of DispatchWorlds, with the symmetry of MCDispatch: no  *)
(* definition of the worlds tells a driver or a handler from another.      *)
EXTENDS DispatchWorlds, MCDispatch
=============================================================================
