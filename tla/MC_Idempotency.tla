--------------------------- MODULE MC_Idempotency ---------------------------
(* The idempotency middleware on a small instance for TLC. *)
EXTENDS Idempotency, TLC

Symmetry == Permutations(Req) \cup Permutations(Payload)
=============================================================================
