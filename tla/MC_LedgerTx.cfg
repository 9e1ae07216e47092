\* Two requests, every call against two sets of tables.
\* Each request runs once, so a behaviour stops.
SPECIFICATION Spec
CONSTANTS
    Lot = {"l1", "l2"}
    Contract = {"c1", "c2"}
    Alloc = {1, 2, 3, 4, 5, 6}
    Shipment = {"s1", "s2"}
    NoShipment = NoShipment
    DocType = {"packing_list", "traceability_report"}
    Scale = 1
    Epsilon = 0
    Weights = {1, 2}
    Adjustments <- UpAndDown
    MaxTotal = 4
    Req = {r1, r2}
    Connections = 2
    Calls <- AnyCall
    Seeds <- AllSeeds
SYMMETRY Symmetry
INVARIANTS
    TypeOK
    CommittedConsistent
    OnlyShipmentsDeadlock
PROPERTIES
    Serializable
CHECK_DEADLOCK FALSE
