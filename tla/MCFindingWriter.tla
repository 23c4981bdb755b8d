--------------------------- MODULE MCFindingWriter ---------------------------
(* Instances of FindingWriter for TLC. *)
EXTENDS FindingReport, TLC

CONSTANTS k1, k2, d1, d2

OneDir == k1 :> d1 @@ k2 :> d1
OneKey == k1 :> d1
TwoDirs == k1 :> d1 @@ k2 :> d2

\* Bounds on the hits per group.
ThreeAndOne == k1 :> 3 @@ k2 :> 1
ThreeEach == k1 :> 3 @@ k2 :> 3
Three == k1 :> 3

\* Only the names of the exemplars tell inputs apart.
Symmetric == Permutations(Inputs)
=============================================================================
