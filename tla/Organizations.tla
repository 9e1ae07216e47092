---------------------------- MODULE Organizations ---------------------------
(***************************************************************************)
(* Organizations, their users and their subscriptions: registration, the   *)
(* first one of an empty database included, the back office that creates,  *)
(* suspends and changes organizations and impersonates their users, and    *)
(* the checks that a request of a user passes before it writes.            *)
(*                                                                         *)
(* A request is authenticated, then checked, then writes; each is a        *)
(* statement or a transaction of its own, and what an earlier one read may *)
(* have changed when a later one uses it.  A user is known by the email,   *)
(* which is unique.  The database role bypasses row-level security, as the *)
(* first registration and the login need, so a statement reaches the rows  *)
(* its WHERE clause names.                                                 *)
(***************************************************************************)
EXTENDS Naturals, FiniteSets

CONSTANTS
    Req,        \* the requests under way at a time
    Org, User,
    Nobody,     \* a request without a token
    MaxLogs     \* bound: impersonations of an organization

ASSUME ReqAssumption == IsFiniteSet(Req) /\ Req # {}
ASSUME NobodyAssumption == Nobody \notin User
ASSUME MaxLogsAssumption == MaxLogs \in Nat

VARIABLES
    orgs,       \* organizations with their subscriptions
    users,
    logs,       \* impersonation_logs: how many rows
    tokens,     \* how many impersonation tokens were signed
    requests,   \* the requests under way
    late,       \* history: writes of an organization since it was suspended
    crossed,    \* history: organizations in which a disabled user, or one of
                \* another organization, disabled an administrator and none
                \* was enabled since
    undated     \* history: organizations put on trial by updatePlan

vars == <<orgs, users, logs, tokens, requests, late, crossed, undated>>
audit == <<logs, tokens>>
history == <<late, crossed, undated>>

Role == {"admin", "trader"}
\* Being past due or cancelled changes nothing that an active subscription
\* does not.
SubscriptionStatus == {"trialing", "active"}

\* An organization, whether the first registration created it, its
\* subscription's status and whether trial_ends_at is set.
OrgRow == [status : {"active", "suspended"}, bootstrap : BOOLEAN,
           billing : SubscriptionStatus, dated : BOOLEAN]
UserRow == [org : Org, role : Role, active : BOOLEAN]

Idle == [at |-> "idle"]
Request == {Idle}
    \cup [at : {"authenticated"}, user : User \cup {Nobody}]
    \cup [at : {"bootstrap"}]
    \cup [at : {"adding", "handler", "log", "sign"}, org : Org]

IsTable(table, keys, row) == DOMAIN table \subseteq keys /\ table \in [DOMAIN table -> row]

TypeOK ==
    /\ IsTable(orgs, Org, OrgRow)
    /\ IsTable(users, User, UserRow)
    /\ \A u \in DOMAIN users : users[u].org \in DOMAIN orgs
    /\ logs \in [Org -> Nat] /\ tokens \in [Org -> Nat]
    /\ requests \in [Req -> Request]
    /\ \A r \in Req : "user" \in DOMAIN requests[r] =>
            requests[r].user \in DOMAIN users \cup {Nobody}
    /\ \A r \in Req : "org" \in DOMAIN requests[r] => requests[r].org \in DOMAIN orgs
    /\ late \in [Org -> 0..Cardinality(Req) + 1]
    /\ crossed \subseteq DOMAIN orgs /\ undated \subseteq DOMAIN orgs

\* The database after its migrations.
Empty == [k \in {} |-> k]
Init ==
    /\ orgs = Empty /\ users = Empty
    /\ logs = [o \in Org |-> 0] /\ tokens = [o \in Org |-> 0]
    /\ requests = [r \in Req |-> Idle]
    /\ crossed = {} /\ undated = {}
    /\ late = [o \in Org |-> 0]

------------------------------------------------------------------------------

With(table, key, row) ==
    [k \in DOMAIN table \cup {key} |-> IF k = key THEN row ELSE table[k]]
Becomes(r, request) == requests' = [requests EXCEPT ![r] = request]
Leaves(r) == Becomes(r, Idle)

Admins(o) == {u \in DOMAIN users : users[u].org = o /\ users[u].role = "admin" /\ users[u].active}

\* An organization with its subscription.  The mutated form dates no trial.
FoundedUndated(bootstrap, trial) ==
    [status |-> "active", bootstrap |-> bootstrap, billing |-> "trialing", dated |-> trial]
Founded(bootstrap, trial) ==
    [status |-> "active", bootstrap |-> bootstrap,
     billing |-> IF trial THEN "trialing" ELSE "active", dated |-> trial]

Member(o, role) == [org |-> o, role |-> role, active |-> TRUE]

------------------------------------------------------------------------------
\* Registration

\* authenticate and authenticateOptional: the user is read; a request without
\* a token is nobody's.
Authenticate(r, u) ==
    /\ requests[r] = Idle
    /\ u # Nobody => u \in DOMAIN users /\ users[u].active
    /\ Becomes(r, [at |-> "authenticated", user |-> u])
    /\ UNCHANGED <<orgs, users, audit, history>>

\* The users are counted, in a statement of its own; with none, the request
\* goes on as the first one, whoever makes it.  The mutated form does not look
\* at the count.
MayAdd(u) == u # Nobody /\ users[u].role = "admin"

RegisterCountUnguarded(r) ==
    /\ requests[r].at = "authenticated"
    /\ \/ Becomes(r, [at |-> "bootstrap"])
       \/ /\ MayAdd(requests[r].user)
          /\ Becomes(r, [at |-> "adding", org |-> users[requests[r].user].org])
    /\ UNCHANGED <<orgs, users, audit, history>>
RegisterCount(r) ==
    LET u == requests[r].user
    IN  /\ requests[r].at = "authenticated"
        /\ \/ /\ DOMAIN users = {}
              /\ Becomes(r, [at |-> "bootstrap"])
           \/ /\ DOMAIN users # {}
              /\ MayAdd(u)
              /\ Becomes(r, [at |-> "adding", org |-> users[u].org])
        /\ UNCHANGED <<orgs, users, audit, history>>

\* The organization, its subscription and its administrator are inserted in
\* one transaction.
RegisterFirst(r, o, email) ==
    /\ requests[r].at = "bootstrap"
    /\ o \notin DOMAIN orgs
    /\ email \notin DOMAIN users
    /\ orgs' = With(orgs, o, Founded(TRUE, TRUE))
    /\ users' = With(users, email, Member(o, "admin"))
    /\ Leaves(r)
    /\ UNCHANGED <<audit, history>>

RegisterUser(r, email, role) ==
    /\ requests[r].at = "adding"
    /\ email \notin DOMAIN users
    /\ users' = With(users, email, Member(requests[r].org, role))
    /\ Leaves(r)
    /\ UNCHANGED <<orgs, audit, history>>

\* Nobody disables its own account, and a mutated form without that rule.
AnyTarget(actor, u, active) == TRUE
MayTarget(actor, u, active) == active \/ actor # u

\* The UPDATE names the user by id.  The actor may have been disabled since it
\* was authenticated.
UpdateUserStatus(r, u, active) ==
    LET actor == requests[r].user
        o == users[u].org
    IN  /\ requests[r].at = "authenticated" /\ MayAdd(actor)
        /\ MayTarget(actor, u, active)
        /\ users' = [users EXCEPT ![u].active = active]
        /\ crossed' = IF users[u].role # "admin" THEN crossed
                      ELSE IF active THEN crossed \ {o}
                      ELSE IF users[actor].active /\ users[actor].org = o THEN crossed
                      ELSE crossed \cup {o}
        /\ Leaves(r)
        /\ UNCHANGED <<orgs, audit, late, undated>>

------------------------------------------------------------------------------
\* The requests of the business routes

\* What ensureOrgActive looks at, and a mutated form that lets all pass.
Passes(o) == TRUE
IsOpen(o) == orgs[o].status = "active"

CheckOrganization(r) ==
    LET u == requests[r].user
    IN  /\ requests[r].at = "authenticated" /\ u # Nobody
        /\ IsOpen(users[u].org)
        /\ Becomes(r, [at |-> "handler", org |-> users[u].org])
        /\ UNCHANGED <<orgs, users, audit, history>>

\* The handler commits.  The history counts no further than it has to.
Write(r) ==
    LET o == requests[r].org
    IN  /\ requests[r].at = "handler"
        /\ late' = [late EXCEPT ![o] =
                        IF orgs[o].status = "active" THEN 0
                        ELSE IF @ > Cardinality(Req) THEN @ ELSE @ + 1]
        /\ Leaves(r)
        /\ UNCHANGED <<orgs, users, audit, crossed, undated>>

------------------------------------------------------------------------------
\* The back office

\* One transaction, which Catalog's seeding follows: an email that is taken
\* rolls back the organization too.  The mutated form keeps the organization
\* and goes on.
CreateOrganizationUnlessTaken(o, email, trial) ==
    /\ o \notin DOMAIN orgs
    /\ orgs' = With(orgs, o, Founded(FALSE, trial))
    /\ users' = IF email \in DOMAIN users THEN users
                ELSE With(users, email, Member(o, "admin"))
    /\ UNCHANGED <<audit, requests, history>>
CreateOrganization(o, email, trial) ==
    /\ o \notin DOMAIN orgs
    /\ email \notin DOMAIN users
    /\ orgs' = With(orgs, o, Founded(FALSE, trial))
    /\ users' = With(users, email, Member(o, "admin"))
    /\ UNCHANGED <<audit, requests, history>>

\* The plan may come with a status, trialing included, and keeps the old one
\* without; a mutated form writes what it is given.
GivenBilling(old, given) == given
CoalescedBilling(old, given) == IF given = "none" THEN old ELSE given

UpdatePlan(o, billing) ==
    /\ o \in DOMAIN orgs
    /\ orgs' = [orgs EXCEPT ![o].billing = CoalescedBilling(@, billing)]
    /\ undated' = IF billing = "trialing" THEN undated \cup {o} ELSE undated
    /\ UNCHANGED <<users, audit, requests, late, crossed>>

ExtendTrial(o) ==
    /\ o \in DOMAIN orgs
    /\ orgs' = [orgs EXCEPT ![o].billing = "trialing", ![o].dated = TRUE]
    /\ UNCHANGED <<users, audit, requests, history>>

UpdateOrganizationStatus(o, status) ==
    /\ o \in DOMAIN orgs
    /\ orgs' = [orgs EXCEPT ![o].status = status]
    /\ late' = IF status = orgs[o].status THEN late ELSE [late EXCEPT ![o] = 0]
    /\ UNCHANGED <<users, audit, requests, crossed, undated>>

\* An administrator is read, the log is inserted, and the token is signed.
\* The mutated form skips the log.
ImpersonateUnlogged(r, o) ==
    /\ requests[r] = Idle
    /\ o \in DOMAIN orgs /\ Admins(o) # {}
    /\ Becomes(r, [at |-> "sign", org |-> o])
    /\ UNCHANGED <<orgs, users, audit, history>>
Impersonate(r, o) ==
    /\ requests[r] = Idle
    /\ o \in DOMAIN orgs /\ Admins(o) # {}
    /\ Becomes(r, [at |-> "log", org |-> o])
    /\ UNCHANGED <<orgs, users, audit, history>>
InsertLog(r) ==
    LET o == requests[r].org
    IN  /\ requests[r].at = "log"
        /\ logs[o] < MaxLogs
        /\ logs' = [logs EXCEPT ![o] = @ + 1]
        /\ Becomes(r, [at |-> "sign", org |-> o])
        /\ UNCHANGED <<orgs, users, tokens, history>>
SignToken(r) ==
    LET o == requests[r].org
    IN  /\ requests[r].at = "sign"
        /\ tokens' = [tokens EXCEPT ![o] = @ + 1]
        /\ Leaves(r)
        /\ UNCHANGED <<orgs, users, logs, history>>

\* A check refuses the request, a statement fails, or the process ends: what
\* was committed stays.
Fail(r) ==
    /\ requests[r] # Idle
    /\ Leaves(r)
    /\ UNCHANGED <<orgs, users, audit, history>>

Next ==
    \/ \E r \in Req :
        \/ \E u \in User \cup {Nobody} : Authenticate(r, u)
        \/ RegisterCount(r)
        \/ \E o \in Org, email \in User : RegisterFirst(r, o, email)
        \/ \E email \in User, role \in Role : RegisterUser(r, email, role)
        \/ \E u \in DOMAIN users, active \in BOOLEAN : UpdateUserStatus(r, u, active)
        \/ CheckOrganization(r) \/ Write(r)
        \/ \E o \in Org : Impersonate(r, o)
        \/ InsertLog(r) \/ SignToken(r)
        \/ Fail(r)
    \/ \E o \in Org :
        \/ \E email \in User, trial \in BOOLEAN : CreateOrganization(o, email, trial)
        \/ \E billing \in SubscriptionStatus \cup {"none"} : UpdatePlan(o, billing)
        \/ ExtendTrial(o)
        \/ \E status \in {"active", "suspended"} : UpdateOrganizationStatus(o, status)

Spec == Init /\ [][Next]_vars

------------------------------------------------------------------------------
\* Properties

\* An organization has an administrator's account from the moment it exists,
\* whichever emails were taken and wherever its creation failed
\* (createOrganization and the first registration: one transaction each).
OrganizationsComplete ==
    \A o \in DOMAIN orgs : \E u \in DOMAIN users : users[u].org = o /\ users[u].role = "admin"

\* After its suspension an organization has no more writes than requests that
\* had passed ensureOrgActive before: nothing that arrives later gets through.
Writing(o) == {r \in Req : requests[r] = [at |-> "handler", org |-> o]}
LateWritesBounded ==
    \A o \in DOMAIN orgs : orgs[o].status = "suspended" =>
        late[o] + Cardinality(Writing(o)) <= Cardinality(Req)

\* The first registration creates an organization; more than one do so only
\* if they had counted the users before the first one inserted, so never more
\* than are under way at a time (register counts and inserts in two steps).
Bootstrapped == {o \in DOMAIN orgs : orgs[o].bootstrap}
Bootstrapping == {r \in Req : requests[r].at = "bootstrap"}
BootstrapBounded == Cardinality(Bootstrapped) + Cardinality(Bootstrapping) <= Cardinality(Req)

\* An organization keeps an active administrator, unless one was disabled by a
\* user who had been disabled since its request was authenticated, or by one of
\* another organization, and none was enabled since: within an organization,
\* that an account cannot disable itself is enough but for that race.
AdminRemains == \A o \in DOMAIN orgs : Admins(o) # {} \/ o \in crossed

\* Every impersonation token, and every one about to be signed, has its row in
\* the log, wherever an impersonation failed.
Signing(o) == {r \in Req : requests[r] = [at |-> "sign", org |-> o]}
ImpersonationLogged == \A o \in Org : tokens[o] + Cardinality(Signing(o)) <= logs[o]

\* getAlerts looks for trials by the day they end: a trial has one, unless the
\* back office put the organization on trial by changing its plan.
TrialsDated ==
    \A o \in DOMAIN orgs : orgs[o].billing = "trialing" => orgs[o].dated \/ o \in undated
=============================================================================
