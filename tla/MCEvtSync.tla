------------------------------ MODULE MCEvtSync ------------------------------
(* EvtSync for TLC: the values of its constants are in the cfg.            *)
EXTENDS EvtSync
=============================================================================
