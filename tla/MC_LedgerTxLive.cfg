\* Three requests on two connections.
\* Each request runs once, so a behaviour stops.
SPECIFICATION FairSpec
CONSTANTS
    Lot = {"l1", "l2"}
    Contract = {"c1", "c2"}
    Alloc = {1, 2, 3, 4, 5, 6}
    Shipment = {"s1", "s2"}
    NoShipment = NoShipment
    DocType = {"packing_list", "traceability_report"}
    Scale = 1
    Epsilon = 0
    Weights = {1, 2}
    Adjustments <- UpAndDown
    MaxTotal = 4
    Req = {r1, r2, r3}
    Connections = 2
    Calls <- CrossingCalls
    Seeds <- CrossingSeed
PROPERTY
    EveryCallEnds
CHECK_DEADLOCK FALSE
