\* Up to two calls are between their commit and their return, so that a
\* notification waits while another call commits.  One run of the job at a
\* time, which is interrupted once.  Documents and adjustments touch neither
\* contracts nor allocations and are left to MC_Ledger.  No symmetry: the
\* instance checks liveness.  Runs of the job never stop, so deadlock is checked.
SPECIFICATION AlertsSpec
CONSTANTS
    Lot = {l1}
    Contract = {c1, c2}
    Alloc = {a1, a2}
    Shipment = {s1}
    NoShipment = NoShipment
    DocType = {}
    Scale = 1
    Epsilon = 0
    Weights = {1, 2}
    Adjustments = {}
    MaxTotal = 2
    MaxInFlight = 2
    Job = {j1}
    MaxCrashes = 1
INVARIANTS
    AlertsTypeOK
    RiskNotUnderstated
    NoPhantomAlert
PROPERTIES
    FullyAllocatedOnce
    RiskAlerted
