\* One user with two sessions, two calls at a time, three seconds and tokens
\* that live two of them; processes end and answers get lost.
\* All sessions may be used up and the clock at its bound, but users can always
\* be enabled, so a behaviour does not stop.
SPECIFICATION Spec
CONSTANTS
    User = {u1}
    Session = {s1, s2}
    Request = {r1, r2}
    Ttl = 2
    MaxTime = 2
    Faults = TRUE
SYMMETRY Symmetry
INVARIANTS
    TypeOK
    DisabledIsClean
PROPERTIES
    RevocationFinal
