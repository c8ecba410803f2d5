------------------------------ MODULE MCLimits ------------------------------
(* Two replicas charge two buckets, one with a longer window than the other; *)
(* the longer one is charged together with an identity.                     *)
EXTENDS RateLimiter, TLC

CONSTANTS i, j

MCWindow == [short |-> 2, long |-> 3]
MCMaximum == [short |-> 1, long |-> 2]
MCCharges ==
    {[buckets |-> {"short"}, identities |-> {}],
     [buckets |-> {"long"}, identities |-> {i}],
     [buckets |-> {"long"}, identities |-> {j}]}

Symmetry == Permutations(Replicas) \cup Permutations(Sessions) \cup Permutations(Identities)
=============================================================================
