------------------------------ MODULE MCRelay ------------------------------
(***************************************************************************)
(* Relay for TLC: what the two programs may write.                         *)
(***************************************************************************)
EXTENDS Relay

Offer11 == [s \in Sides |-> 1]
Offer10 == [s \in Sides |-> IF s = "client" THEN 1 ELSE 0]
=============================================================================
