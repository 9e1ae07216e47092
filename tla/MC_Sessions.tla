---------------------------- MODULE MC_Sessions -----------------------------
(* Sessions on a small instance for TLC. *)
EXTENDS Sessions, TLC

Symmetry == Permutations(Request) \cup Permutations(Session)
=============================================================================
