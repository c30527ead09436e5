---------------------------- MODULE MCForgeClaim ----------------------------
(* Instances of ForgeClaim for TLC. *)
EXTENDS ForgeClaim, TLC

CONSTANTS j1, j2, j3, p1, p2, s1, c1, l1, l2

\* Both jobs for one printer that the server and a Courier can reach.
OnePrinter   == j1 :> p1 @@ j2 :> p1
\* A printer each, and a desktop slicer.
AllTargets   == j1 :> p1 @@ j2 :> p2 @@ j3 :> s1

ReachBoth    == {p1, p2} \X Agents
InOrder      == j1 :> 1 @@ j2 :> 2
\* The second and the third are created together.
WithTie      == j1 :> 1 @@ j2 :> 2 @@ j3 :> 2

LoopSymmetry == Permutations(Loops)
=============================================================================
