--------------------------- MODULE MCChopCircuit ---------------------------
(***************************************************************************)
(* ChopCircuit for TLC: how much each upstream program may send, and how   *)
(* often each side may send for want of anything better.  The suffix of a  *)
(* name gives the client's and the server's value.                         *)
(***************************************************************************)
EXTENDS ChopCircuit

Pair(c, v) == [s \in Sides |-> IF s = "client" THEN c ELSE v]

Pair00 == Pair(0, 0)
Pair10 == Pair(1, 0)
Pair11 == Pair(1, 1)
Pair20 == Pair(2, 0)
Pair21 == Pair(2, 1)
Pair30 == Pair(3, 0)
Pair31 == Pair(3, 1)
Pair32 == Pair(3, 2)
Pair41 == Pair(4, 1)
Pair90 == Pair(9, 0)
=============================================================================
