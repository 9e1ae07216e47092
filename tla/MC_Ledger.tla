----------------------------- MODULE MC_Ledger ------------------------------
(* The ledger on a small instance for TLC. *)
EXTENDS Ledger, TLC

Symmetry == Permutations(Lot) \cup Permutations(Contract)
            \cup Permutations(Alloc) \cup Permutations(Shipment)

\* Corrections: one unit up or down.
UpAndDown == {-1, 1}
=============================================================================
