--------------------------- MODULE MCMaintenance ---------------------------
(* Instances of Maintenance for TLC.                                       *)
EXTENDS Maintenance, TLC

EverythingFilter == {Items}
Symmetry == Permutations(Items) \cup Permutations(Sweepers)
=============================================================================
