----------------------------- MODULE MCChopConn -----------------------------
(***************************************************************************)
(* ChopConn for TLC: connections are interchangeable.                      *)
(***************************************************************************)
EXTENDS ChopConn, TLC

ConnSymmetry == Permutations(Conns)
=============================================================================
