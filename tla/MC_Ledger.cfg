\* Two contracts compete for two lots; one call is between its commit and its
\* return at a time, which no property of this run looks at.
\* The bounded ids run out, so a behaviour may stop.
SPECIFICATION Spec
CONSTANTS
    Lot = {l1, l2}
    Contract = {c1, c2}
    Alloc = {a1, a2, a3}
    Shipment = {s1, s2}
    NoShipment = NoShipment
    DocType = {"packing_list", "traceability_report"}
    Scale = 1
    Epsilon = 0
    Weights = {1, 2}
    Adjustments <- UpAndDown
    MaxTotal = 2
    MaxInFlight = 1
SYMMETRY Symmetry
INVARIANTS
    TypeOK
    WithinLimits
    Conservation
    LotStatusAgrees
    FulfilmentAgrees
    Traceable
PROPERTIES
    HistoryKept
CHECK_DEADLOCK FALSE
