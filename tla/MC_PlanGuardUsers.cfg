\* One request at a time, so nothing races.
SPECIFICATION Spec
CONSTANTS
    Req = {r1}
    starter = starter
    growth = growth
    enterprise = enterprise
    Plan = {starter, growth, enterprise}
    Unlimited = Unlimited
    PlanLimits <- Limits
    MaxRows = 4
INVARIANT
    UsersWithinPlan
