-------------------------- MODULE MC_Organizations --------------------------
(* Organizations on a small instance for TLC. *)
EXTENDS Organizations, TLC

Symmetry == Permutations(Req) \cup Permutations(Org) \cup Permutations(User)
=============================================================================
