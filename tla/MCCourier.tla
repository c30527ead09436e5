----------------------------- MODULE MCCourier -----------------------------
(* Instances of Courier for TLC. *)
EXTENDS Courier

CONSTANTS j1, j2

MyAgent == {Me}
InOrder == [j \in {j1, j2} |-> IF j = j1 THEN 1 ELSE 2]
=============================================================================
