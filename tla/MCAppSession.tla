----------------------------- MODULE MCAppSession -----------------------------
(* Small instances of AppSession.  Liveness is checked, so no symmetry.     *)
EXTENDS AppSession, TLC
=============================================================================
