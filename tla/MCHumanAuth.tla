---------------------------- MODULE MCHumanAuth ----------------------------
(* HumanAuth for TLC: one policy knows one person, the other two.           *)
EXTENDS HumanAuth, TLC

CONSTANTS g1, g2, ann, bob

Known == (g1 :> {ann}) @@ (g2 :> {ann, bob})

Symmetry == Permutations(Logins) \cup Permutations(Exchanges)
=============================================================================
