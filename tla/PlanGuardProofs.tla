-------------------------- MODULE PlanGuardProofs ---------------------------
(***************************************************************************)
(* Proofs about the plan limits, for any plans and limits and any finite   *)
(* number of requests at a time.                                           *)
(***************************************************************************)
EXTENDS PlanGuard, FiniteSetTheorems, TLAPS

\* The requests that have passed the guard and not inserted yet.
Pending(resource) == {r \in Req : At(r, "handler") /\ requests[r].adds = resource}

\* A limit a request compares with is one of a plan the organization has had.
LimitRead ==
    \A r \in Req : At(r, "count") =>
        \E p \in had : PlanLimits[p][requests[r].adds] = requests[r].limit

\* The rows that exist and those about to exist: when a request passes the
\* guard there are fewer rows than its limit, and no more can be pending than
\* there are requests.
Bounded(resource, p) ==
    \/ PlanLimits[p][resource] = Unlimited
    \/ PlanLimits[p][resource] = 0 /\ rows[resource] = 0 /\ Pending(resource) = {}
    \/ /\ PlanLimits[p][resource] \in Nat \ {0}
       /\ rows[resource] + Cardinality(Pending(resource))
            <= PlanLimits[p][resource] + Cardinality(Req) - 1

Inv ==
    /\ TypeOK
    /\ LimitRead
    /\ \A resource \in {"lots", "api_keys"} : \E p \in had : Bounded(resource, p)

\* Every set of requests is finite and no larger than that of all of them.
LEMMA Counting ==
    ASSUME NEW S \in SUBSET Req
    PROVE  /\ IsFiniteSet(S)
           /\ Cardinality(S) \in Nat
           /\ Cardinality(S) <= Cardinality(Req)
           /\ Cardinality(Req) \in Nat \ {0}
  <1>1. IsFiniteSet(S) /\ Cardinality(S) <= Cardinality(Req)
    BY FS_Subset, ReqAssumption
  <1>2. Cardinality(S) \in Nat /\ Cardinality(Req) \in Nat
    BY <1>1, FS_CardinalityType, ReqAssumption
  <1>3. Cardinality(Req) # 0
    BY FS_EmptySet, ReqAssumption
  <1>4. QED
    BY <1>1, <1>2, <1>3

\* A request that neither leaves nor enters its handler leaves the pending
\* requests as they were.
LEMMA PendingKept ==
    ASSUME TypeOK, NEW r \in Req, NEW request, Become(r, request), NEW resource,
           ~At(r, "handler") \/ requests[r].adds # resource,
           request.at # "handler" \/ request.adds # resource
    PROVE  Pending(resource)' = Pending(resource)
  BY DEF TypeOK, Become, Pending, At

\* An organization begins within its plan.
LEMMA InitInv == Init => Inv
  <1> SUFFICES ASSUME Init PROVE Inv
    OBVIOUS
  <1>1. TypeOK /\ LimitRead
    BY DEF Init, TypeOK, LimitRead, Request, Idle, At, Resource
  <1>2. ASSUME NEW resource \in {"lots", "api_keys"} PROVE Bounded(resource, plan)
    <2>1. rows[resource] = 0 /\ resource \in Resource
      BY DEF Init, Resource
    <2>2. Pending(resource) = {}
      BY DEF Init, Pending, At, Idle
    <2>3. PlanLimits[plan][resource] \in Nat \cup {Unlimited}
      BY <2>1, LimitsAssumption DEF Init
    <2>4. QED
      BY <2>1, <2>2, <2>3, FS_EmptySet, Counting DEF Bounded
  <1>3. QED
    BY <1>1, <1>2 DEF Inv, Init

\* Every step keeps the invariant.
LEMMA StepInv == Inv /\ [Next]_vars => Inv'
  <1> SUFFICES ASSUME Inv, [Next]_vars PROVE Inv'
    OBVIOUS
  <1> USE DEF Inv
  <1>1. ASSUME NEW r \in Req, NEW resource \in Resource, Arrive(r, resource) PROVE Inv'
    <2>1. TypeOK' /\ LimitRead'
      BY <1>1 DEF Arrive, Become, At, TypeOK, Request, LimitRead
    <2>2. \A guarded : Pending(guarded)' = Pending(guarded)
      BY <1>1, PendingKept DEF Arrive, At
    <2>3. QED
      BY <1>1, <2>1, <2>2 DEF Arrive, Bounded
  <1>2. ASSUME NEW r \in Req, ResolvePlan(r) PROVE Inv'
    <2> DEFINE resource == requests[r].adds
               limit == PlanLimits[plan][resource]
               request == Guarded(resource, limit)
    <2>1. /\ At(r, "plan") /\ Become(r, request)
          /\ UNCHANGED <<plan, rows, inactive, had>>
      BY <1>2 DEF ResolvePlan
    <2>2. resource \in Resource /\ limit \in Nat \cup {Unlimited} /\ plan \in had
      BY <2>1, LimitsAssumption DEF TypeOK, Request, At, Idle
    <2>3. /\ request \in Request /\ request.adds = resource
          /\ request.at = "handler" => limit = Unlimited
          /\ request.at = "count" => request.limit = limit
      BY <2>2, LimitsAssumption DEF Guarded, Request
    <2>4. TypeOK' /\ LimitRead'
      BY <2>1, <2>2, <2>3 DEF Become, At, TypeOK, LimitRead
    <2>5. ASSUME NEW guarded \in {"lots", "api_keys"}
          PROVE  \E p \in had : Bounded(guarded, p)'
      <3>1. CASE limit = Unlimited /\ guarded = resource
        BY <2>1, <2>2, <3>1 DEF Bounded
      <3>2. CASE ~(limit = Unlimited /\ guarded = resource)
        <4>1. Pending(guarded)' = Pending(guarded)
          BY <2>1, <2>3, <3>2, PendingKept DEF At
        <4>2. QED
          BY <2>1, <4>1 DEF Bounded
      <3>3. QED
        BY <3>1, <3>2
    <2>6. QED
      BY <2>1, <2>4, <2>5
  <1>3. ASSUME NEW r \in Req, CountResource(r) PROVE Inv'
    <2> DEFINE resource == requests[r].adds
               limit == requests[r].limit
    <2>1. At(r, "count") /\ UNCHANGED <<plan, rows, inactive, had>>
      BY <1>3 DEF CountResource
    <2>2. resource \in Resource /\ limit \in Nat /\ rows[resource] \in Nat
      BY <2>1 DEF TypeOK, Request, At, Idle
    <2>3. CASE rows[resource] >= limit /\ Become(r, Idle)
      <3>1. TypeOK' /\ LimitRead'
        BY <2>1, <2>3 DEF Become, At, TypeOK, LimitRead, Request, Idle
      <3>2. \A guarded : Pending(guarded)' = Pending(guarded)
        BY <2>1, <2>3, PendingKept DEF At, Idle
      <3>3. QED
        BY <2>1, <3>1, <3>2 DEF Bounded
    <2>4. CASE rows[resource] < limit /\ Become(r, [at |-> "handler", adds |-> resource])
      <3>1. TypeOK' /\ LimitRead'
        BY <2>1, <2>2, <2>4 DEF Become, At, TypeOK, LimitRead, Request
      <3>2. ASSUME NEW guarded \in {"lots", "api_keys"}
            PROVE  \E p \in had : Bounded(guarded, p)'
        <4>1. CASE guarded = resource
          <5>1. PICK p \in had : PlanLimits[p][guarded] = limit
            BY <2>1, <4>1 DEF LimitRead
          <5>2. Pending(guarded)' \in SUBSET Req
            BY DEF Pending
          <5>3. /\ Cardinality(Pending(guarded)') \in Nat
                /\ Cardinality(Pending(guarded)') <= Cardinality(Req)
                /\ Cardinality(Req) \in Nat \ {0}
            BY <5>2, Counting
          <5>4. rows[guarded] + Cardinality(Pending(guarded)') <= limit + Cardinality(Req) - 1
            BY <2>2, <2>4, <4>1, <5>3
          <5>5. limit \in Nat \ {0}
            BY <2>2, <2>4
          <5>6. Bounded(guarded, p)'
            BY <2>1, <5>1, <5>4, <5>5 DEF Bounded
          <5>7. QED
            BY <5>6
        <4>2. CASE guarded # resource
          <5>1. Pending(guarded)' = Pending(guarded)
            BY <2>1, <2>4, <4>2, PendingKept DEF At
          <5>2. QED
            BY <2>1, <5>1 DEF Bounded
        <4>3. QED
          BY <4>1, <4>2
      <3>3. QED
        BY <2>1, <3>1, <3>2
    <2>5. QED
      BY <1>3, <2>2, <2>3, <2>4 DEF CountResource, Full
  <1>4. ASSUME NEW r \in Req, Create(r) \/ Refuse(r) PROVE Inv'
    <2> DEFINE resource == requests[r].adds
    <2>1. /\ At(r, "handler") /\ Become(r, Idle) /\ UNCHANGED <<plan, inactive, had>>
          /\ UNCHANGED rows \/ rows' = [rows EXCEPT ![resource] = @ + 1]
      BY <1>4 DEF Create, Refuse
    <2>2. resource \in Resource
      BY <2>1 DEF TypeOK, Request, At, Idle
    <2>3. TypeOK' /\ LimitRead'
      BY <2>1, <2>2 DEF Become, At, TypeOK, LimitRead, Request, Idle
    <2>4. ASSUME NEW guarded \in {"lots", "api_keys"}
          PROVE  \E p \in had : Bounded(guarded, p)'
      <3>1. CASE guarded = resource
        <4>1. Pending(guarded)' = Pending(guarded) \ {r} /\ r \in Pending(guarded)
          BY <2>1, <3>1 DEF TypeOK, Become, Pending, At, Idle
        <4>2. IsFiniteSet(Pending(guarded)) /\ Cardinality(Pending(guarded)) \in Nat
          BY Counting DEF Pending
        <4>3. Cardinality(Pending(guarded)') = Cardinality(Pending(guarded)) - 1
          BY <4>1, <4>2, FS_RemoveElement
        <4>4. rows[guarded] \in Nat /\ rows'[guarded] \in {rows[guarded], rows[guarded] + 1}
          BY <2>1, <2>2, <3>1 DEF TypeOK
        <4>5. PICK p \in had : Bounded(guarded, p)
          OBVIOUS
        <4>6. PlanLimits[p][guarded] # 0 \/ PlanLimits[p][guarded] = Unlimited
          BY <4>1, <4>5 DEF Bounded
        <4>7. CASE PlanLimits[p][guarded] = Unlimited
          BY <2>1, <3>1, <4>7 DEF Bounded
        <4>8. CASE /\ PlanLimits[p][guarded] \in Nat \ {0}
                   /\ rows[guarded] + Cardinality(Pending(guarded))
                        <= PlanLimits[p][guarded] + Cardinality(Req) - 1
          <5>1. Cardinality(Req) \in Nat
            BY Counting
          <5>2. rows'[guarded] + Cardinality(Pending(guarded)')
                    <= PlanLimits[p][guarded] + Cardinality(Req) - 1
            BY <4>2, <4>3, <4>4, <4>8, <5>1
          <5>3. Bounded(guarded, p)'
            BY <2>1, <4>8, <5>2 DEF Bounded
          <5>4. QED
            BY <5>3
        <4>9. QED
          BY <4>5, <4>6, <4>7, <4>8 DEF Bounded
      <3>2. CASE guarded # resource
        <4>1. Pending(guarded)' = Pending(guarded)
          BY <2>1, <3>2, PendingKept DEF Idle
        <4>2. rows'[guarded] = rows[guarded]
          BY <2>1, <3>2 DEF TypeOK, Resource
        <4>3. QED
          BY <2>1, <4>1, <4>2 DEF Bounded
      <3>3. QED
        BY <3>1, <3>2
    <2>5. QED
      BY <2>1, <2>3, <2>4
  <1>5. CASE Deactivate \/ Reactivate
    <2>1. /\ UNCHANGED <<plan, requests, had>>
          /\ \A guarded \in {"lots", "api_keys"} : rows'[guarded] = rows[guarded]
      BY <1>5 DEF Deactivate, Reactivate, TypeOK, Resource
    <2>2. TypeOK' /\ LimitRead'
      BY <1>5 DEF Deactivate, Reactivate, TypeOK, LimitRead, At, Resource
    <2>3. \A guarded : Pending(guarded)' = Pending(guarded)
      BY <2>1 DEF Pending, At
    <2>4. QED
      BY <2>1, <2>2, <2>3 DEF Bounded
  <1>6. CASE RevokeApiKey
    <2>1. /\ UNCHANGED <<plan, inactive, requests, had>>
          /\ rows["api_keys"] \in Nat \ {0} /\ rows' = [rows EXCEPT !["api_keys"] = @ - 1]
      BY <1>6 DEF RevokeApiKey, TypeOK, Resource
    <2>2. TypeOK' /\ LimitRead'
      BY <2>1 DEF TypeOK, LimitRead, At, Resource
    <2>3. \A guarded : Pending(guarded)' = Pending(guarded)
      BY <2>1 DEF Pending, At
    <2>4. rows'["lots"] = rows["lots"] /\ rows'["api_keys"] = rows["api_keys"] - 1
      BY <2>1 DEF TypeOK, Resource
    <2>5. ASSUME NEW p \in had PROVE Bounded("lots", p) => Bounded("lots", p)'
      BY <2>1, <2>3, <2>4 DEF Bounded
    <2>6. ASSUME NEW p \in had PROVE Bounded("api_keys", p) => Bounded("api_keys", p)'
      <3>1. Cardinality(Pending("api_keys")) \in Nat /\ Cardinality(Req) \in Nat
        BY Counting DEF Pending
      <3>2. QED
        BY <2>1, <2>3, <2>4, <3>1 DEF Bounded
    <2>7. QED
      BY <2>1, <2>2, <2>5, <2>6
  <1>7. ASSUME NEW p \in Plan, UpdatePlan(p) PROVE Inv'
    <2>1. had' = had \cup {p} /\ UNCHANGED <<rows, inactive, requests>>
      BY <1>7 DEF UpdatePlan
    <2>2. TypeOK' /\ LimitRead'
      BY <1>7 DEF UpdatePlan, TypeOK, LimitRead, At
    <2>3. \A guarded : Pending(guarded)' = Pending(guarded)
      BY <2>1 DEF Pending, At
    <2>4. \A guarded, q : Bounded(guarded, q) => Bounded(guarded, q)'
      BY <2>1, <2>3 DEF Bounded
    <2>5. QED
      BY <2>1, <2>2, <2>4
  <1>8. CASE UNCHANGED vars
    BY <1>8 DEF vars, TypeOK, LimitRead, Bounded, Pending, At
  <1>9. QED
    BY <1>1, <1>2, <1>3, <1>4, <1>5, <1>6, <1>7, <1>8 DEF Next

\* The plan, the counts and the requests are well typed.
THEOREM TypeCorrect == Spec => []TypeOK
  <1>1. Inv => TypeOK
    BY DEF Inv
  <1>2. QED
    BY InitInv, StepInv, <1>1, PTL DEF Spec

\* Lots and keys exceed the most generous plan the organization has had by at
\* most one less than the requests that can run at a time, and a plan without
\* the resource lets none through.
THEOREM OvershootIsBounded == Spec => []OvershootBounded
  <1>1. Inv => OvershootBounded
    <2> SUFFICES ASSUME Inv, NEW resource \in {"lots", "api_keys"}
                 PROVE  \E p \in had : Within(resource, p)
      BY DEF OvershootBounded
    <2>1. PICK p \in had : Bounded(resource, p)
      BY DEF Inv
    <2>2. /\ Cardinality(Pending(resource)) \in Nat /\ Cardinality(Req) \in Nat
          /\ rows[resource] \in Nat
      BY Counting DEF Pending, Inv, TypeOK, Resource
    <2>3. Within(resource, p)
      BY <2>1, <2>2 DEF Bounded, Within, Allowed
    <2>4. QED
      BY <2>3
  <1>2. QED
    BY InitInv, StepInv, <1>1, PTL DEF Spec
=============================================================================
