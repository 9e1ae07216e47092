\* Any three of the calls of MC_Catalog, interleaved: two that race and a third
\* that changes what they have read.  Two tables to start from, one empty.  A
\* call runs once, so a behaviour ends and deadlock is not checked.  The calls
\* are alike, which the symmetry uses; no liveness is checked.
SPECIFICATION Spec
CONSTANTS
    Req = {r1, r2, r3}
    Nobody = Nobody
    agent = agent
    farmer = farmer
    aa = aa
    ab = ab
    small = small
    large = large
    kenya = kenya
    Key <- MCKey
    StandardGrades <- MCStandardGrades
    StandardBagTypes <- MCStandardBagTypes
    MaxWeight = 60
    MaxImportRows = 4
    PageSize = 2
    Lag = 2
    Lot = {"l1", "l2", "l3"}
    Agreement = {"a1", "a2", "a3"}
    Contract = {"c1", "c2"}
    NoGrade = NoGrade
    Calls <- MCCalls
    Tables <- MCTables
SYMMETRY Symmetry
INVARIANTS
    TypeOK
    ReferencesHold
    SourceKnown
    ChannelsApart
    DuplicatesOnlyByRace
    StandardsPresent
PROPERTIES
    WalkComplete
CHECK_DEADLOCK FALSE
