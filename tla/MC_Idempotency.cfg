\* Four requests with one key and two payloads; everything may fail and rows
\* expire, but not before their request has ended.
\* Each request runs once, so a behaviour stops.
SPECIFICATION Spec
CONSTANTS
    Req = {r1, r2, r3, r4}
    Key = {k1}
    Payload = {p1, p2}
    Nothing = Nothing
    Faults = TRUE
    OutlivesRequests = TRUE
SYMMETRY Symmetry
INVARIANTS
    TypeOK
    AtMostOnce
    FaithfulReplay
PROPERTIES
    ResponseFinal
CHECK_DEADLOCK FALSE
