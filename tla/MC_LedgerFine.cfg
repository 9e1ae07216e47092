\* Requests may carry half a stored unit: four fine units make a stored one and
\* the tolerance is one of them.
SPECIFICATION Spec
CONSTANTS
    Lot = {l1}
    Contract = {c1}
    Alloc = {a1, a2}
    Shipment = {s1}
    NoShipment = NoShipment
    DocType = {"packing_list"}
    Scale = 4
    Epsilon = 1
    Weights = {2, 8}
    Adjustments = {}
    MaxTotal = 2
    MaxInFlight = 1
INVARIANT
    AllocationsWithinStock
CHECK_DEADLOCK FALSE
