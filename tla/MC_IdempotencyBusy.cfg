\* Two requests, one after the other or together, and nothing fails.
SPECIFICATION Spec
CONSTANTS
    Req = {r1, r2}
    Key = {k1}
    Payload = {p1}
    Nothing = Nothing
    Faults = FALSE
    OutlivesRequests = TRUE
PROPERTY
    BusyMeansRunning
CHECK_DEADLOCK FALSE
