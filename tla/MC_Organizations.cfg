\* Two requests under way at a time on two organizations and two users: two first
\* registrations race, an administrator is disabled by a request that was
\* authenticated before, a suspension falls between a check and a write.  The
\* bound MaxLogs stops impersonations only; the back office can always act, so
\* deadlock is checked.
SPECIFICATION Spec
CONSTANTS
    Req = {r1, r2}
    Org = {o1, o2}
    User = {u1, u2}
    Nobody = Nobody
    MaxLogs = 1
SYMMETRY Symmetry
INVARIANTS
    TypeOK
    OrganizationsComplete
    LateWritesBounded
    BootstrapBounded
    AdminRemains
    ImpersonationLogged
    TrialsDated
