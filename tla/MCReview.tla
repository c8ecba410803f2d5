------------------------------ MODULE MCReview ------------------------------
(* Review on a small instance for TLC. *)
EXTENDS Review, TLC

RetainOnly == [q \in Items |-> "retain_request"]
MemoryOnly == [q \in Items |-> "recalled_memory"]

Symmetry == Permutations(Reviewers) \cup Permutations(Shas)
=============================================================================
