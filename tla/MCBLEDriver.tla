----------------------------- MODULE MCBLEDriver -----------------------------
(* BLEDriver for TLC.                                                      *)
EXTENDS BLEDriver, TLC

AppSymmetry == Permutations(Apps)
=============================================================================
