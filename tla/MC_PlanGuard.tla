---------------------------- MODULE MC_PlanGuard ----------------------------
(* The plan limits on a small instance for TLC: the shape of PLAN_LIMITS with *)
(* numbers that few rows reach.                                               *)
EXTENDS PlanGuard, TLC

CONSTANTS starter, growth, enterprise

Limits == starter    :> [users |-> 2, lots |-> 1, api_keys |-> 0]
       @@ growth     :> [users |-> 3, lots |-> 2, api_keys |-> 1]
       @@ enterprise :> [users |-> Unlimited, lots |-> Unlimited, api_keys |-> Unlimited]

Symmetry == Permutations(Req)
=============================================================================
