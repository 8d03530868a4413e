----------------------------- MODULE MCWriteCmd -----------------------------
(* WriteCmd, with Authenticate, for TLC.                                   *)
EXTENDS WriteCmd

TwoCallers == {"c1", "c2"}
TwoConns == {1, 2}
CentralInOne == {1}
TransmitEvents == {"write_cmd_tx_complete"}

Pair(g) == <<"authenticate", g>>
Write(g) == <<"write_cmd", g>>

\* c1 makes the calls s and c2 the calls t; LESC is wanted on the connections l;
\* n transmit buffers of the first connection are full; m faults may come.
Run(s, t, l, n, m) ==
  [calls |-> [c \in Callers |-> IF c = "c1" THEN s ELSE t],
   lesc |-> [g \in Conns |-> g \in l],
   packets |-> [g \in Conns |-> IF g = 1 THEN n ELSE 0],
   faults |-> m]

\* Two pairings one after the other, on one connection or on two, with LESC and
\* without; two at once; two threads that write; a pairing and a write on one connection.
SmallPrograms == {
  Run(<<Pair(1), Pair(1)>>, <<>>, {1}, 0, 1),
  Run(<<Pair(2), Pair(2)>>, <<>>, {2}, 0, 1),
  Run(<<Pair(1), Pair(2)>>, <<>>, {1, 2}, 0, 1),
  Run(<<Pair(2), Pair(1)>>, <<>>, {2}, 0, 0),
  Run(<<Pair(1)>>, <<Pair(2)>>, {1}, 0, 0),
  Run(<<Write(1), Write(1)>>, <<Write(1)>>, {}, Buffers, 1),
  Run(<<Pair(1)>>, <<Write(1)>>, {1}, Buffers, 0)}
=============================================================================
