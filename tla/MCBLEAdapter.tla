---------------------------- MODULE MCBLEAdapter ----------------------------
(* BLEAdapter for TLC.                                                     *)
EXTENDS BLEAdapter, TLC

CallerSymmetry == Permutations(Callers)
=============================================================================
