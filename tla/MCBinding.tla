----------------------------- MODULE MCBinding -----------------------------
(* Binding for TLC: two native threads of an adapter whose close waits for *)
(* them, one of an adapter whose close does not.                           *)
EXTENDS Binding

NativesOfTwo == [n \in {"n1", "n2", "n3"} |-> IF n = "n3" THEN "a2" ELSE "a1"]
=============================================================================
