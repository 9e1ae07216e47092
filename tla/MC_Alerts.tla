----------------------------- MODULE MC_Alerts ------------------------------
(* The ledger with the contract-risk job on a small instance for TLC. *)
EXTENDS Alerts
=============================================================================
