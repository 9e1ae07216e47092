\* Two requests at a time; four rows are more than any finite limit and the
\* requests in flight allow.
SPECIFICATION Spec
CONSTANTS
    Req = {r1, r2}
    starter = starter
    growth = growth
    enterprise = enterprise
    Plan = {starter, growth, enterprise}
    Unlimited = Unlimited
    PlanLimits <- Limits
    MaxRows = 4
SYMMETRY Symmetry
INVARIANTS
    TypeOK
    OvershootBounded
