------------------------------ MODULE MCWallet ------------------------------
(* Small instances of Wallet.  Liveness is checked, so no symmetry.        *)
EXTENDS Wallet, TLC
=============================================================================
