----------------------------- MODULE MCMaterials -----------------------------
(* Instances of Materials for TLC. *)
EXTENDS Materials, TLC

CONSTANTS s1, s2, j1

TwoSlots    == j1 :> (s1 :> 2 @@ s2 :> 1)
TwoReports  == {s1 :> 0 @@ s2 :> 0, s1 :> 1 @@ s2 :> 2}

MatSymmetry == Permutations(Mats)
=============================================================================
