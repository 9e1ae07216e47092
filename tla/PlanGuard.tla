------------------------------ MODULE PlanGuard -----------------------------
(***************************************************************************)
(* The plan limits of one organization: requests that add a user, a lot or *)
(* an API key pass the planGuard middleware, which reads the plan and then *)
(* counts the rows, each in a statement of its own; the handler inserts    *)
(* the row later.  Meanwhile administrators deactivate and reactivate      *)
(* users and revoke keys, and the back office changes the plan.            *)
(*                                                                         *)
(* Rows are only counted: which lot or user it is makes no difference.     *)
(***************************************************************************)
EXTENDS Integers, FiniteSets

CONSTANTS
    Req,            \* the requests the servers work on at a time
    Plan,           \* starter, growth, enterprise
    Unlimited,      \* Number.POSITIVE_INFINITY
    PlanLimits,     \* PLAN_LIMITS: the limit of each plan for each resource
    MaxRows         \* bound: no resource has more rows than this

Resource == {"users", "lots", "api_keys"}

ASSUME LimitsAssumption ==
    /\ Unlimited \notin Nat
    /\ PlanLimits \in [Plan -> [Resource -> Nat \cup {Unlimited}]]

ASSUME ReqAssumption == IsFiniteSet(Req) /\ Req # {} /\ MaxRows \in Nat \ {0}

VARIABLES
    plan,       \* subscriptions.plan of the organization
    rows,       \* how many active users, lots and live keys it has
    inactive,   \* how many inactive users it has
    requests,   \* where each request is, what it adds, the limit it has read
    had         \* history: every plan the organization has had

vars == <<plan, rows, inactive, requests, had>>

Idle == [at |-> "idle"]
Request == {Idle}
    \cup [at : {"plan", "handler"}, adds : Resource]
    \cup [at : {"count"}, adds : Resource, limit : Nat]

TypeOK ==
    /\ plan \in had /\ had \subseteq Plan
    /\ rows \in [Resource -> Nat]
    /\ inactive \in Nat
    /\ requests \in [Req -> Request]

\* createOrganization: an organization begins with its administrator.
Init ==
    /\ plan \in Plan
    /\ rows = [resource \in Resource |-> IF resource = "users" THEN 1 ELSE 0]
    /\ inactive = 0
    /\ requests = [r \in Req |-> Idle]
    /\ had = {plan}

------------------------------------------------------------------------------

At(r, where) == requests[r].at = where
Become(r, request) == requests' = [requests EXCEPT ![r] = request]

\* The guard's comparison, and a mutated form that lets one more through.
FullAbove(count, limit) == count > limit
Full(count, limit) == count >= limit

Arrive(r, resource) ==
    /\ At(r, "idle")
    /\ Become(r, [at |-> "plan", adds |-> resource])
    /\ UNCHANGED <<plan, rows, inactive, had>>

\* An unlimited resource is not counted; a mutated form counts it all the same.
Counted(resource, limit) == [at |-> "count", adds |-> resource, limit |-> limit]
Guarded(resource, limit) ==
    IF limit = Unlimited THEN [at |-> "handler", adds |-> resource]
    ELSE [at |-> "count", adds |-> resource, limit |-> limit]

ResolvePlan(r) ==
    LET resource == requests[r].adds
    IN  /\ At(r, "plan")
        /\ Become(r, Guarded(resource, PlanLimits[plan][resource]))
        /\ UNCHANGED <<plan, rows, inactive, had>>

CountResource(r) ==
    LET resource == requests[r].adds
        full == Full(rows[resource], requests[r].limit)
    IN  /\ At(r, "count")
        /\ \/ full /\ Become(r, Idle)
           \/ ~full /\ Become(r, [at |-> "handler", adds |-> resource])
        /\ UNCHANGED <<plan, rows, inactive, had>>

Existing(resource) == rows[resource] + (IF resource = "users" THEN inactive ELSE 0)

\* The INSERT of register, createAuctionLot, createDirectDelivery or
\* createApiKey.
Create(r) ==
    LET resource == requests[r].adds
    IN  /\ At(r, "handler")
        /\ Existing(resource) < MaxRows
        /\ rows' = [rows EXCEPT ![resource] = @ + 1]
        /\ Become(r, Idle)
        /\ UNCHANGED <<plan, inactive, had>>

\* The handler finds the request invalid, or fails.
Refuse(r) ==
    /\ At(r, "handler")
    /\ Become(r, Idle)
    /\ UNCHANGED <<plan, rows, inactive, had>>

\* updateUserStatus by another user; the route has no guard.
Deactivate ==
    /\ rows["users"] > 0
    /\ rows["users"] + inactive > 1
    /\ rows' = [rows EXCEPT !["users"] = @ - 1]
    /\ inactive' = inactive + 1
    /\ UNCHANGED <<plan, requests, had>>

Reactivate ==
    /\ inactive > 0
    /\ rows' = [rows EXCEPT !["users"] = @ + 1]
    /\ inactive' = inactive - 1
    /\ UNCHANGED <<plan, requests, had>>

RevokeApiKey ==
    /\ rows["api_keys"] > 0
    /\ rows' = [rows EXCEPT !["api_keys"] = @ - 1]
    /\ UNCHANGED <<plan, inactive, requests, had>>

UpdatePlan(p) ==
    /\ plan' = p
    /\ had' = had \cup {p}
    /\ UNCHANGED <<rows, inactive, requests>>

Next ==
    \/ \E r \in Req, resource \in Resource : Arrive(r, resource)
    \/ \E r \in Req : ResolvePlan(r) \/ CountResource(r) \/ Create(r) \/ Refuse(r)
    \/ Deactivate \/ Reactivate \/ RevokeApiKey
    \/ \E p \in Plan : UpdatePlan(p)

Spec == Init /\ [][Next]_vars

------------------------------------------------------------------------------
\* Properties

\* How many rows a limit and the requests that may all have counted before any
\* of them inserted allow; a plan without the resource lets none through.
Allowed(bound) == IF bound = 0 THEN 0 ELSE bound + Cardinality(Req) - 1

Within(resource, p) ==
    \/ PlanLimits[p][resource] = Unlimited
    \/ rows[resource] <= Allowed(PlanLimits[p][resource])

\* Lots and keys exceed the most generous plan the organization has had by at
\* most the requests that can be between their count and their insert at a
\* time, whatever downgrades, upgrades and revocations happen in between
\* (planGuard's three separate steps).
OvershootBounded ==
    \A resource \in {"lots", "api_keys"} : \E p \in had : Within(resource, p)

\* "The API enforces plan limits on write operations using planGuard
\* middleware: users (active users only)": the same holds of the active users,
\* whichever write made them active (register, updateUserStatus).
UsersWithinPlan == \E p \in had : Within("users", p)
=============================================================================
