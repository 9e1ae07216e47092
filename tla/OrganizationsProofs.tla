------------------------- MODULE OrganizationsProofs ------------------------
(***************************************************************************)
(* Proofs about organizations and their users, for any organizations and   *)
(* users and any finite number of requests at a time.                      *)
(***************************************************************************)
EXTENDS Organizations, FiniteSetTheorems, TLAPS

\* Every set of requests is finite and no larger than that of all of them.
LEMMA Counting ==
    ASSUME NEW S \in SUBSET Req
    PROVE  /\ IsFiniteSet(S)
           /\ Cardinality(S) \in Nat
           /\ Cardinality(S) <= Cardinality(Req)
           /\ Cardinality(Req) \in Nat
  <1>1. IsFiniteSet(S) /\ Cardinality(S) <= Cardinality(Req)
    BY FS_Subset, ReqAssumption
  <1>2. Cardinality(S) \in Nat /\ Cardinality(Req) \in Nat
    BY <1>1, FS_CardinalityType, ReqAssumption
  <1>3. QED
    BY <1>1, <1>2

\* One request less, and at most one more.
LEMMA OneLess ==
    ASSUME NEW S \in SUBSET Req, NEW r \in S
    PROVE  Cardinality(S \ {r}) = Cardinality(S) - 1
  BY Counting, FS_RemoveElement
LEMMA OneMore ==
    ASSUME NEW S \in SUBSET Req, NEW r \in Req
    PROVE  Cardinality(S \cup {r}) <= Cardinality(S) + 1
  BY Counting, FS_AddElement

\* A request has the fields of its place.
LEMMA RequestForms ==
    ASSUME TypeOK, NEW r \in Req
    PROVE  /\ requests[r].at = "authenticated" =>
                 /\ requests[r].user \in User \cup {Nobody}
                 /\ requests[r].user \in DOMAIN users \cup {Nobody}
           /\ requests[r].at \in {"adding", "handler", "log", "sign"} =>
                 /\ requests[r].org \in Org
                 /\ requests[r].org \in DOMAIN orgs
                 /\ requests[r] = [at |-> requests[r].at, org |-> requests[r].org]
  <1>1. requests[r] \in Request
    BY DEF TypeOK
  <1>2. CASE requests[r].at = "authenticated"
    BY <1>1, <1>2 DEF Request, Idle, TypeOK
  <1>3. CASE requests[r].at \in {"adding", "handler", "log", "sign"}
    <2>1. requests[r] \in [at : {"adding", "handler", "log", "sign"}, org : Org]
      BY <1>1, <1>3 DEF Request, Idle
    <2>2. QED
      BY <2>1 DEF TypeOK
  <1>4. QED
    BY <1>2, <1>3

\* Who may add users or disable them is a user.
LEMMA ActorIsUser ==
    ASSUME TypeOK, NEW r \in Req, requests[r].at = "authenticated", MayAdd(requests[r].user)
    PROVE  requests[r].user \in DOMAIN users
  BY RequestForms DEF MayAdd

------------------------------------------------------------------------------
\* Types

\* A request's next place is well typed if its user or organization is.
LEMMA BecomesTypes ==
    ASSUME TypeOK, NEW r \in Req, NEW request \in Request, Becomes(r, request),
           DOMAIN orgs \subseteq DOMAIN orgs', DOMAIN users \subseteq DOMAIN users',
           "user" \in DOMAIN request => request.user \in DOMAIN users \cup {Nobody},
           "org" \in DOMAIN request => request.org \in DOMAIN orgs
    PROVE  /\ requests' \in [Req -> Request]
           /\ \A q \in Req : "user" \in DOMAIN requests'[q] =>
                  requests'[q].user \in DOMAIN users' \cup {Nobody}
           /\ \A q \in Req : "org" \in DOMAIN requests'[q] => requests'[q].org \in DOMAIN orgs'
  <1>1. requests' \in [Req -> Request]
    BY DEF TypeOK, Becomes
  <1>2. \A q \in Req : requests'[q] = IF q = r THEN request ELSE requests[q]
    BY DEF TypeOK, Becomes
  <1>3. QED
    BY <1>1, <1>2 DEF TypeOK

\* A table with one more row.
Added(new, old, key, row) ==
    /\ DOMAIN new = DOMAIN old \cup {key}
    /\ new[key] = row
    /\ \A k \in DOMAIN old : k # key => new[k] = old[k]
LEMMA WithAdds ==
    ASSUME NEW old, NEW keys, NEW rowType, IsTable(old, keys, rowType),
           NEW key \in keys, NEW row \in rowType, NEW new, new = With(old, key, row)
    PROVE  IsTable(new, keys, rowType) /\ Added(new, old, key, row)
  BY DEF IsTable, With, Added

LEMMA IdleTypes ==
    ASSUME TypeOK, NEW r \in Req, Leaves(r),
           DOMAIN orgs \subseteq DOMAIN orgs', DOMAIN users \subseteq DOMAIN users'
    PROVE  /\ requests' \in [Req -> Request]
           /\ \A q \in Req : "user" \in DOMAIN requests'[q] =>
                  requests'[q].user \in DOMAIN users' \cup {Nobody}
           /\ \A q \in Req : "org" \in DOMAIN requests'[q] => requests'[q].org \in DOMAIN orgs'
  <1>1. Idle \in Request /\ DOMAIN Idle = {"at"}
    BY DEF Request, Idle
  <1>2. Becomes(r, Idle)
    BY DEF Leaves
  <1>3. QED
    BY <1>1, <1>2, BecomesTypes

\* A new organization and its administrator.
LEMMA FoundingTypes ==
    ASSUME TypeOK, NEW o \in Org, NEW email \in User, NEW bootstrap \in BOOLEAN, NEW trial \in BOOLEAN,
           o \notin DOMAIN orgs, email \notin DOMAIN users,
           orgs' = With(orgs, o, Founded(bootstrap, trial)),
           users' = With(users, email, Member(o, "admin"))
    PROVE  /\ IsTable(orgs', Org, OrgRow) /\ IsTable(users', User, UserRow)
           /\ DOMAIN orgs' = DOMAIN orgs \cup {o} /\ DOMAIN users' = DOMAIN users \cup {email}
           /\ orgs'[o] = Founded(bootstrap, trial) /\ users'[email] = Member(o, "admin")
           /\ \A p \in DOMAIN orgs : orgs'[p] = orgs[p]
           /\ \A u \in DOMAIN users : users'[u] = users[u]
           /\ \A u \in DOMAIN users' : users'[u].org \in DOMAIN orgs'
  <1>1. Founded(bootstrap, trial) \in OrgRow
    BY DEF Founded, OrgRow, SubscriptionStatus
  <1>2. Member(o, "admin") \in UserRow /\ Member(o, "admin").org = o
    BY DEF Member, UserRow, Role
  <1> DEFINE org == Founded(bootstrap, trial)
             user == Member(o, "admin")
  <1> HIDE DEF org, user
  <1>3. IsTable(orgs', Org, OrgRow) /\ Added(orgs', orgs, o, org)
    <2>1. IsTable(orgs, Org, OrgRow) /\ org \in OrgRow /\ orgs' = With(orgs, o, org)
      BY <1>1 DEF TypeOK, org
    <2>2. QED
      BY <2>1, WithAdds
  <1>4. IsTable(users', User, UserRow) /\ Added(users', users, email, user)
    <2>1. IsTable(users, User, UserRow) /\ user \in UserRow /\ users' = With(users, email, user)
      BY <1>2 DEF TypeOK, user
    <2>2. QED
      BY <2>1, WithAdds
  <1>5. \A u \in DOMAIN users' : users'[u].org \in DOMAIN orgs'
    BY <1>2, <1>3, <1>4 DEF TypeOK, Added, user
  <1>6. QED
    BY <1>3, <1>4, <1>5 DEF Added, org, user

LEMMA RequestStepTypes ==
    ASSUME TypeOK, NEW r \in Req,
           \/ \E u \in User \cup {Nobody} : Authenticate(r, u)
           \/ RegisterCount(r) \/ CheckOrganization(r) \/ Write(r)
           \/ \E o \in Org : Impersonate(r, o)
           \/ InsertLog(r) \/ SignToken(r) \/ Fail(r)
    PROVE  TypeOK'
  <1>1. ASSUME NEW request \in Request, Becomes(r, request), UNCHANGED <<orgs, users, audit, history>>,
               "user" \in DOMAIN request => request.user \in DOMAIN users \cup {Nobody},
               "org" \in DOMAIN request => request.org \in DOMAIN orgs
        PROVE  TypeOK'
    <2>1. DOMAIN orgs \subseteq DOMAIN orgs' /\ DOMAIN users \subseteq DOMAIN users'
      BY <1>1
    <2>2. QED
      BY <1>1, <2>1, BecomesTypes DEF TypeOK, audit, history
  <1>2. ASSUME NEW at \in {"adding", "handler", "log", "sign"}, NEW o \in DOMAIN orgs,
               NEW request, request = [at |-> at, org |-> o]
        PROVE  /\ request \in Request /\ "user" \notin DOMAIN request
               /\ request.org \in DOMAIN orgs
    BY <1>2 DEF Request, TypeOK, IsTable
  <1>3. ASSUME NEW u \in User \cup {Nobody}, Authenticate(r, u) PROVE TypeOK'
    <2> DEFINE request == [at |-> "authenticated", user |-> u]
    <2>1. request \in Request /\ "org" \notin DOMAIN request /\ request.user \in DOMAIN users \cup {Nobody}
      BY <1>3 DEF Request, Authenticate
    <2>2. Becomes(r, request) /\ UNCHANGED <<orgs, users, audit, history>>
      BY <1>3 DEF Authenticate
    <2> HIDE DEF request
    <2>3. QED
      BY <1>1, <2>1, <2>2
  <1>4. CASE RegisterCount(r)
    <2>1. CASE Becomes(r, [at |-> "bootstrap"])
      <3>1. [at |-> "bootstrap"] \in Request /\ DOMAIN [at |-> "bootstrap"] = {"at"}
        BY DEF Request
      <3>2. QED
        BY <1>1, <1>4, <2>1, <3>1 DEF RegisterCount
    <2> DEFINE o == users[requests[r].user].org
    <2>2. CASE MayAdd(requests[r].user) /\ Becomes(r, [at |-> "adding", org |-> o])
      <3>1. o \in DOMAIN orgs
        BY <1>4, <2>2, ActorIsUser DEF RegisterCount, TypeOK
      <3> HIDE DEF o
      <3>2. QED
        BY <1>1, <1>2, <1>4, <2>2, <3>1 DEF RegisterCount
    <2>3. QED
      BY <1>4, <2>1, <2>2 DEF RegisterCount
  <1>5. CASE CheckOrganization(r)
    <2> DEFINE o == users[requests[r].user].org
    <2>1. o \in DOMAIN orgs
      BY <1>5, RequestForms DEF CheckOrganization, TypeOK
    <2>2. Becomes(r, [at |-> "handler", org |-> o]) /\ UNCHANGED <<orgs, users, audit, history>>
      BY <1>5 DEF CheckOrganization
    <2> HIDE DEF o
    <2>3. QED
      BY <1>1, <1>2, <2>1, <2>2
  <1>6. CASE Write(r)
    <2> DEFINE o == requests[r].org
    <2>1. o \in Org /\ o \in DOMAIN orgs
      BY <1>6, RequestForms DEF Write
    <2>2. Cardinality(Req) \in Nat
      BY Counting
    <2>3. late[o] \in 0..Cardinality(Req) + 1
      BY <2>1 DEF TypeOK
    <2>4. late' \in [Org -> 0..Cardinality(Req) + 1]
      BY <1>6, <2>1, <2>2, <2>3 DEF Write, TypeOK
    <2>5. Leaves(r) /\ UNCHANGED <<orgs, users, audit, crossed, undated>>
      BY <1>6 DEF Write
    <2>6. QED
      BY <2>4, <2>5, IdleTypes DEF TypeOK, audit
  <1>7. ASSUME NEW o \in Org, Impersonate(r, o) PROVE TypeOK'
    <2>1. o \in DOMAIN orgs /\ Becomes(r, [at |-> "log", org |-> o]) /\ UNCHANGED <<orgs, users, audit, history>>
      BY <1>7 DEF Impersonate
    <2>2. QED
      BY <1>1, <1>2, <2>1
  <1>8. CASE InsertLog(r)
    <2> DEFINE o == requests[r].org
               request == [at |-> "sign", org |-> o]
    <2>1. o \in DOMAIN orgs /\ o \in Org
      BY <1>8, RequestForms DEF InsertLog
    <2>2. request \in Request /\ "user" \notin DOMAIN request /\ request.org \in DOMAIN orgs
      BY <1>2, <2>1
    <2>3. Becomes(r, request) /\ UNCHANGED <<orgs, users, tokens, history>>
      BY <1>8 DEF InsertLog
    <2>4. logs' \in [Org -> Nat]
      BY <1>8, <2>1 DEF InsertLog, TypeOK
    <2> HIDE DEF request
    <2>5. DOMAIN orgs \subseteq DOMAIN orgs' /\ DOMAIN users \subseteq DOMAIN users'
      BY <2>3
    <2>6. QED
      BY <2>2, <2>3, <2>4, <2>5, BecomesTypes DEF TypeOK, history
  <1>9. CASE SignToken(r)
    <2>1. requests[r].org \in Org
      BY <1>9, RequestForms DEF SignToken
    <2>2. tokens' \in [Org -> Nat]
      BY <1>9, <2>1 DEF SignToken, TypeOK
    <2>3. Leaves(r) /\ UNCHANGED <<orgs, users, logs, history>>
      BY <1>9 DEF SignToken
    <2>4. QED
      BY <2>2, <2>3, IdleTypes DEF TypeOK, history
  <1>10. CASE Fail(r)
    <2>1. Leaves(r) /\ UNCHANGED <<orgs, users, audit, history>>
      BY <1>10 DEF Fail
    <2>2. QED
      BY <2>1, IdleTypes DEF TypeOK, audit, history
  <1>11. QED
    BY <1>3, <1>4, <1>5, <1>6, <1>7, <1>8, <1>9, <1>10

LEMMA RegisterFirstTypes ==
    ASSUME TypeOK, NEW r \in Req, NEW o \in Org, NEW email \in User, RegisterFirst(r, o, email)
    PROVE  TypeOK'
  <1>1. /\ IsTable(orgs', Org, OrgRow) /\ IsTable(users', User, UserRow)
        /\ DOMAIN orgs' = DOMAIN orgs \cup {o} /\ DOMAIN users' = DOMAIN users \cup {email}
        /\ \A u \in DOMAIN users' : users'[u].org \in DOMAIN orgs'
    BY FoundingTypes DEF RegisterFirst
  <1>2. Leaves(r) /\ UNCHANGED <<audit, history>>
    BY DEF RegisterFirst
  <1>3. DOMAIN orgs \subseteq DOMAIN orgs' /\ DOMAIN users \subseteq DOMAIN users'
    BY <1>1
  <1>4. QED
    BY <1>1, <1>2, <1>3, IdleTypes DEF TypeOK, audit, history

LEMMA RegisterUserTypes ==
    ASSUME TypeOK, NEW r \in Req, NEW email \in User, NEW role \in Role, RegisterUser(r, email, role)
    PROVE  /\ TypeOK'
           /\ Added(users', users, email, Member(requests[r].org, role))
  <1> DEFINE user == Member(requests[r].org, role)
  <1>1. user \in UserRow /\ user.org \in DOMAIN orgs
    BY RequestForms DEF RegisterUser, Member, UserRow
  <1>2. IsTable(users, User, UserRow) /\ users' = With(users, email, user)
    BY DEF TypeOK, RegisterUser
  <1> HIDE DEF user
  <1>3. IsTable(users', User, UserRow) /\ Added(users', users, email, user)
    BY <1>1, <1>2, WithAdds
  <1>4. Leaves(r) /\ UNCHANGED <<orgs, audit, history>> /\ email \notin DOMAIN users
    BY DEF RegisterUser
  <1>5. DOMAIN orgs \subseteq DOMAIN orgs' /\ DOMAIN users \subseteq DOMAIN users'
    BY <1>3, <1>4 DEF Added
  <1>6. \A u \in DOMAIN users' : users'[u].org \in DOMAIN orgs'
    BY <1>1, <1>3, <1>4 DEF Added, TypeOK
  <1>7. QED
    BY <1>3, <1>4, <1>5, <1>6, IdleTypes DEF TypeOK, audit, history, user

LEMMA UpdateUserStatusTypes ==
    ASSUME TypeOK, NEW r \in Req, NEW u \in DOMAIN users, NEW active \in BOOLEAN,
           UpdateUserStatus(r, u, active)
    PROVE  TypeOK'
  <1>1. users' = [users EXCEPT ![u].active = active]
    BY DEF UpdateUserStatus
  <1>2. IsTable(users', User, UserRow)
    BY <1>1 DEF TypeOK, IsTable, UserRow
  <1>3. DOMAIN users' = DOMAIN users /\ \A v \in DOMAIN users : users'[v].org = users[v].org
    BY <1>1 DEF TypeOK, IsTable, UserRow
  <1>4. Leaves(r) /\ UNCHANGED <<orgs, audit, late, undated>>
    BY DEF UpdateUserStatus
  <1>5. crossed' \subseteq DOMAIN orgs
    BY DEF UpdateUserStatus, TypeOK
  <1>6. DOMAIN orgs \subseteq DOMAIN orgs' /\ DOMAIN users \subseteq DOMAIN users'
    BY <1>3, <1>4
  <1>7. QED
    BY <1>2, <1>3, <1>4, <1>5, <1>6, IdleTypes DEF TypeOK, audit

\* Rows of organizations that are changed stay rows.
LEMMA BackOfficeTypes ==
    ASSUME TypeOK, NEW o \in Org,
           \/ \E email \in User, trial \in BOOLEAN : CreateOrganization(o, email, trial)
           \/ \E billing \in SubscriptionStatus \cup {"none"} : UpdatePlan(o, billing)
           \/ ExtendTrial(o)
           \/ \E status \in {"active", "suspended"} : UpdateOrganizationStatus(o, status)
    PROVE  TypeOK'
  <1>1. ASSUME NEW email \in User, NEW trial \in BOOLEAN, CreateOrganization(o, email, trial)
        PROVE  TypeOK'
    <2>1. /\ IsTable(orgs', Org, OrgRow) /\ IsTable(users', User, UserRow)
          /\ DOMAIN orgs' = DOMAIN orgs \cup {o} /\ DOMAIN users' = DOMAIN users \cup {email}
          /\ \A u \in DOMAIN users' : users'[u].org \in DOMAIN orgs'
      BY <1>1, FoundingTypes DEF CreateOrganization
    <2>2. QED
      BY <1>1, <2>1 DEF CreateOrganization, TypeOK, audit, history
  <1>2. ASSUME NEW billing \in SubscriptionStatus \cup {"none"}, UpdatePlan(o, billing)
        PROVE  TypeOK'
    <2>1. o \in DOMAIN orgs /\ orgs[o] \in OrgRow
      BY <1>2 DEF UpdatePlan, TypeOK, IsTable
    <2>2. CoalescedBilling(orgs[o].billing, billing) \in SubscriptionStatus
      BY <2>1 DEF CoalescedBilling, OrgRow
    <2>3. [orgs[o] EXCEPT !.billing = CoalescedBilling(@, billing)] \in OrgRow
      BY <2>1, <2>2 DEF OrgRow
    <2>4. IsTable(orgs', Org, OrgRow) /\ DOMAIN orgs' = DOMAIN orgs
      BY <1>2, <2>3 DEF UpdatePlan, TypeOK, IsTable
    <2>5. undated' \subseteq DOMAIN orgs
      BY <1>2 DEF UpdatePlan, TypeOK
    <2>6. QED
      BY <1>2, <2>4, <2>5 DEF UpdatePlan, TypeOK, audit
  <1>3. CASE ExtendTrial(o)
    <2>1. o \in DOMAIN orgs /\ orgs[o] \in OrgRow
      BY <1>3 DEF ExtendTrial, TypeOK, IsTable
    <2>2. [orgs[o] EXCEPT !.billing = "trialing", !.dated = TRUE] \in OrgRow
      BY <2>1 DEF OrgRow, SubscriptionStatus
    <2>3. IsTable(orgs', Org, OrgRow) /\ DOMAIN orgs' = DOMAIN orgs
      BY <1>3, <2>2 DEF ExtendTrial, TypeOK, IsTable
    <2>4. QED
      BY <1>3, <2>3 DEF ExtendTrial, TypeOK, audit, history
  <1>4. ASSUME NEW status \in {"active", "suspended"}, UpdateOrganizationStatus(o, status)
        PROVE  TypeOK'
    <2>1. o \in DOMAIN orgs /\ orgs[o] \in OrgRow
      BY <1>4 DEF UpdateOrganizationStatus, TypeOK, IsTable
    <2>2. [orgs[o] EXCEPT !.status = status] \in OrgRow
      BY <2>1 DEF OrgRow
    <2>3. IsTable(orgs', Org, OrgRow) /\ DOMAIN orgs' = DOMAIN orgs
      BY <1>4, <2>2 DEF UpdateOrganizationStatus, TypeOK, IsTable
    <2>4. late' \in [Org -> 0..Cardinality(Req) + 1]
      BY <1>4, Counting DEF UpdateOrganizationStatus, TypeOK
    <2>5. QED
      BY <1>4, <2>3, <2>4 DEF UpdateOrganizationStatus, TypeOK, audit
  <1>5. QED
    BY <1>1, <1>2, <1>3, <1>4

LEMMA InitTypes == Init => TypeOK
  <1> SUFFICES ASSUME Init PROVE TypeOK
    OBVIOUS
  <1>1. IsTable(orgs, Org, OrgRow) /\ IsTable(users, User, UserRow) /\ DOMAIN users = {}
    BY DEF Init, Empty, IsTable
  <1>2. Idle \in Request /\ DOMAIN Idle = {"at"}
    BY DEF Request, Idle
  <1>3. late \in [Org -> 0..Cardinality(Req) + 1]
    BY Counting DEF Init
  <1>4. QED
    BY <1>1, <1>2, <1>3 DEF Init, TypeOK

LEMMA NextTypes == TypeOK /\ [Next]_vars => TypeOK'
  <1> SUFFICES ASSUME TypeOK, [Next]_vars PROVE TypeOK'
    OBVIOUS
  <1>1. CASE UNCHANGED vars
    BY <1>1 DEF vars, TypeOK, audit, history
  <1>2. CASE Next
    BY <1>2, RequestStepTypes, RegisterFirstTypes, RegisterUserTypes, UpdateUserStatusTypes, BackOfficeTypes
       DEF Next
  <1>3. QED
    BY <1>1, <1>2

\* For any organizations and users and any finite number of requests, the
\* rows, the requests and the audit counts are well typed.
THEOREM TypeCorrect == Spec => []TypeOK
  BY InitTypes, NextTypes, PTL DEF Spec

------------------------------------------------------------------------------
\* What a step does to the tables

LEMMA RequestMoves ==
    ASSUME TypeOK, NEW r \in Req, NEW request, Becomes(r, request)
    PROVE  \A q \in Req : requests'[q] = IF q = r THEN request ELSE requests[q]
  BY DEF TypeOK, Becomes

\* The steps of a request that change nothing but the request.
Silent(r) ==
    \/ \E u \in User \cup {Nobody} : Authenticate(r, u)
    \/ RegisterCount(r) \/ CheckOrganization(r)
    \/ \E o \in Org : Impersonate(r, o)
    \/ Fail(r)
LEMMA SilentFrame ==
    ASSUME NEW r \in Req, Silent(r)
    PROVE  UNCHANGED <<orgs, users, logs, tokens, late, crossed, undated>>
  BY DEF Silent, Authenticate, RegisterCount, CheckOrganization, Impersonate, Fail, audit, history

\* An organization is founded with its administrator.
Founds(o, email, bootstrap, trial) ==
    /\ o \notin DOMAIN orgs /\ email \notin DOMAIN users
    /\ DOMAIN orgs' = DOMAIN orgs \cup {o} /\ DOMAIN users' = DOMAIN users \cup {email}
    /\ orgs'[o] = Founded(bootstrap, trial) /\ users'[email] = Member(o, "admin")
    /\ \A old \in DOMAIN orgs : orgs'[old] = orgs[old]
    /\ \A old \in DOMAIN users : users'[old] = users[old]
LEMMA FirstFounds ==
    ASSUME TypeOK, NEW r \in Req, NEW o \in Org, NEW email \in User, RegisterFirst(r, o, email)
    PROVE  Founds(o, email, TRUE, TRUE)
  BY FoundingTypes DEF RegisterFirst, Founds
LEMMA BackOfficeFounds ==
    ASSUME TypeOK, NEW o \in Org, NEW email \in User, NEW trial \in BOOLEAN,
           CreateOrganization(o, email, trial)
    PROVE  Founds(o, email, FALSE, trial)
  BY FoundingTypes DEF CreateOrganization, Founds

\* A change of an organization's row by the back office.
Changes(o) ==
    \/ \E billing \in SubscriptionStatus \cup {"none"} : UpdatePlan(o, billing)
    \/ ExtendTrial(o)
    \/ \E status \in {"active", "suspended"} : UpdateOrganizationStatus(o, status)
LEMMA ChangesFrame ==
    ASSUME TypeOK, NEW o \in Org, Changes(o)
    PROVE  /\ DOMAIN orgs' = DOMAIN orgs
           /\ \A p \in DOMAIN orgs : orgs'[p].bootstrap = orgs[p].bootstrap
           /\ UNCHANGED <<users, logs, tokens, requests, crossed>>
  <1>1. o \in DOMAIN orgs /\ orgs \in [DOMAIN orgs -> OrgRow]
    BY DEF Changes, UpdatePlan, ExtendTrial, UpdateOrganizationStatus, TypeOK, IsTable
  <1>2. ASSUME NEW billing \in SubscriptionStatus \cup {"none"}, UpdatePlan(o, billing)
        PROVE  DOMAIN orgs' = DOMAIN orgs /\ \A p \in DOMAIN orgs : orgs'[p].bootstrap = orgs[p].bootstrap
    BY <1>1, <1>2 DEF UpdatePlan, OrgRow
  <1>3. CASE ExtendTrial(o)
    BY <1>1, <1>3 DEF ExtendTrial, OrgRow, audit, history
  <1>4. ASSUME NEW status \in {"active", "suspended"}, UpdateOrganizationStatus(o, status)
        PROVE  DOMAIN orgs' = DOMAIN orgs /\ \A p \in DOMAIN orgs : orgs'[p].bootstrap = orgs[p].bootstrap
    BY <1>1, <1>4 DEF UpdateOrganizationStatus, OrgRow
  <1>5. UNCHANGED <<users, logs, tokens, requests, crossed>>
    BY DEF Changes, UpdatePlan, ExtendTrial, UpdateOrganizationStatus, audit, history
  <1>6. QED
    BY <1>2, <1>3, <1>4, <1>5 DEF Changes

\* Every step is one of these.
LEMMA StepForms ==
    ASSUME TypeOK, [Next]_vars
    PROVE  \/ UNCHANGED vars
           \/ \E r \in Req :
                \/ Silent(r) \/ Write(r) \/ InsertLog(r) \/ SignToken(r)
                \/ \E o \in Org, email \in User : RegisterFirst(r, o, email)
                \/ \E email \in User, role \in Role : RegisterUser(r, email, role)
                \/ \E u \in DOMAIN users, active \in BOOLEAN : UpdateUserStatus(r, u, active)
           \/ \E o \in Org :
                \/ \E email \in User, trial \in BOOLEAN : CreateOrganization(o, email, trial)
                \/ Changes(o)
  BY DEF Next, Silent, Changes

------------------------------------------------------------------------------
\* Accounts

\* Users stay, in their organization and with their role.
LEMMA UsersStay ==
    ASSUME TypeOK, [Next]_vars
    PROVE  /\ DOMAIN users \subseteq DOMAIN users'
           /\ \A u \in DOMAIN users : users'[u].org = users[u].org /\ users'[u].role = users[u].role
  <1>1. CASE UNCHANGED vars
    BY <1>1 DEF vars
  <1>2. ASSUME NEW r \in Req, Silent(r) \/ Write(r) \/ InsertLog(r) \/ SignToken(r)
        PROVE  users' = users
    BY <1>2, SilentFrame DEF Write, InsertLog, SignToken
  <1>3. ASSUME NEW r \in Req, NEW o \in Org, NEW email \in User, RegisterFirst(r, o, email)
        PROVE  DOMAIN users \subseteq DOMAIN users' /\ \A u \in DOMAIN users : users'[u] = users[u]
    BY <1>3, FirstFounds DEF Founds
  <1>4. ASSUME NEW r \in Req, NEW email \in User, NEW role \in Role, RegisterUser(r, email, role)
        PROVE  DOMAIN users \subseteq DOMAIN users' /\ \A u \in DOMAIN users : users'[u] = users[u]
    BY <1>4, RegisterUserTypes DEF RegisterUser, Added
  <1>5. ASSUME NEW r \in Req, NEW u \in DOMAIN users, NEW active \in BOOLEAN, UpdateUserStatus(r, u, active)
        PROVE  /\ DOMAIN users' = DOMAIN users
               /\ \A v \in DOMAIN users : users'[v].org = users[v].org /\ users'[v].role = users[v].role
    BY <1>5 DEF UpdateUserStatus, TypeOK, IsTable, UserRow
  <1>6. ASSUME NEW o \in Org, NEW email \in User, NEW trial \in BOOLEAN, CreateOrganization(o, email, trial)
        PROVE  DOMAIN users \subseteq DOMAIN users' /\ \A u \in DOMAIN users : users'[u] = users[u]
    BY <1>6, BackOfficeFounds DEF Founds
  <1>7. ASSUME NEW o \in Org, Changes(o)
        PROVE  users' = users
    BY <1>7, ChangesFrame
  <1>8. QED
    BY <1>1, <1>2, <1>3, <1>4, <1>5, <1>6, <1>7, StepForms

\* An organization that is new is active, and has an active administrator.
LEMMA NewOrganizations ==
    ASSUME TypeOK, [Next]_vars, NEW o \in Org, o \in DOMAIN orgs', o \notin DOMAIN orgs
    PROVE  /\ \E u \in DOMAIN users' : users'[u] = Member(o, "admin")
           /\ \E bootstrap, trial \in BOOLEAN : orgs'[o] = Founded(bootstrap, trial)
  <1>1. ASSUME NEW r \in Req, NEW p \in Org, NEW email \in User, RegisterFirst(r, p, email)
        PROVE  p = o => /\ email \in DOMAIN users' /\ users'[email] = Member(o, "admin")
                        /\ orgs'[o] = Founded(TRUE, TRUE)
    <2>1. Founds(p, email, TRUE, TRUE)
      BY <1>1, FirstFounds
    <2>2. QED
      BY <2>1 DEF Founds
  <1>2. ASSUME NEW p \in Org, NEW email \in User, NEW trial \in BOOLEAN, CreateOrganization(p, email, trial)
        PROVE  p = o => /\ email \in DOMAIN users' /\ users'[email] = Member(o, "admin")
                        /\ orgs'[o] = Founded(FALSE, trial)
    <2>1. Founds(p, email, FALSE, trial)
      BY <1>2, BackOfficeFounds
    <2>2. QED
      BY <2>1 DEF Founds
  <1>3. \/ \E r \in Req, email \in User : RegisterFirst(r, o, email)
        \/ \E email \in User, trial \in BOOLEAN : CreateOrganization(o, email, trial)
    <2>1. ASSUME NEW r \in Req, Silent(r) \/ Write(r) \/ InsertLog(r) \/ SignToken(r)
          PROVE  orgs' = orgs
      BY <2>1, SilentFrame DEF Write, InsertLog, SignToken
    <2>2. ASSUME NEW r \in Req, NEW p \in Org, NEW email \in User, RegisterFirst(r, p, email)
          PROVE  p = o
      <3>1. Founds(p, email, TRUE, TRUE)
        BY <2>2, FirstFounds
      <3>2. DOMAIN orgs' = DOMAIN orgs \cup {p}
        BY <3>1 DEF Founds
      <3>3. QED
        BY <3>2
    <2>3. ASSUME NEW r \in Req,
                 \/ \E email \in User, role \in Role : RegisterUser(r, email, role)
                 \/ \E u \in DOMAIN users, active \in BOOLEAN : UpdateUserStatus(r, u, active)
          PROVE  orgs' = orgs
      BY <2>3 DEF RegisterUser, UpdateUserStatus
    <2>4. ASSUME NEW p \in Org, NEW email \in User, NEW trial \in BOOLEAN, CreateOrganization(p, email, trial)
          PROVE  p = o
      <3>1. Founds(p, email, FALSE, trial)
        BY <2>4, BackOfficeFounds
      <3>2. DOMAIN orgs' = DOMAIN orgs \cup {p}
        BY <3>1 DEF Founds
      <3>3. QED
        BY <3>2
    <2>5. ASSUME NEW p \in Org, Changes(p)
          PROVE  DOMAIN orgs' = DOMAIN orgs
      BY <2>5, ChangesFrame
    <2>6. CASE UNCHANGED vars
      BY <2>6 DEF vars
    <2>7. QED
      BY <2>1, <2>2, <2>3, <2>4, <2>5, <2>6, StepForms
  <1>4. CASE \E r \in Req, email \in User : RegisterFirst(r, o, email)
    <2>1. PICK r \in Req, email \in User : RegisterFirst(r, o, email)
      BY <1>4
    <2>2. email \in DOMAIN users' /\ users'[email] = Member(o, "admin") /\ orgs'[o] = Founded(TRUE, TRUE)
      BY <1>1, <2>1 DEF RegisterFirst
    <2>3. QED
      BY <2>2
  <1>5. CASE \E email \in User, trial \in BOOLEAN : CreateOrganization(o, email, trial)
    <2>1. PICK email \in User, trial \in BOOLEAN : CreateOrganization(o, email, trial)
      BY <1>5
    <2>2. email \in DOMAIN users' /\ users'[email] = Member(o, "admin") /\ orgs'[o] = Founded(FALSE, trial)
      BY <1>2, <2>1
    <2>3. QED
      BY <2>2
  <1>6. QED
    BY <1>3, <1>4, <1>5

LEMMA CompleteStays ==
    ASSUME TypeOK, OrganizationsComplete, [Next]_vars
    PROVE  OrganizationsComplete'
  <1> SUFFICES ASSUME NEW o \in DOMAIN orgs'
               PROVE  \E u \in DOMAIN users' : users'[u].org = o /\ users'[u].role = "admin"
    BY DEF OrganizationsComplete
  <1>1. CASE o \in DOMAIN orgs
    BY <1>1, UsersStay DEF OrganizationsComplete
  <1>2. CASE o \notin DOMAIN orgs
    <2>1. o \in Org
      BY NextTypes DEF TypeOK, IsTable
    <2>2. QED
      BY <1>2, <2>1, NewOrganizations DEF Member
  <1>3. QED
    BY <1>1, <1>2

\* An organization's active administrators stay unless one is disabled, by
\* another administrator of the organization, who stays, or else it is crossed.
LEMMA AdminsStay ==
    ASSUME TypeOK, AdminRemains, [Next]_vars
    PROVE  AdminRemains'
  <1> SUFFICES ASSUME NEW o \in DOMAIN orgs', o \notin crossed'
               PROVE  \E u \in DOMAIN users' :
                          users'[u].org = o /\ users'[u].role = "admin" /\ users'[u].active
    BY DEF AdminRemains, Admins
  <1>1. CASE o \notin DOMAIN orgs
    <2>1. o \in Org
      BY NextTypes DEF TypeOK, IsTable
    <2>2. QED
      BY <1>1, <2>1, NewOrganizations DEF Member
  <1>2. CASE o \in DOMAIN orgs
    <2>1. ASSUME o \in crossed
          PROVE  \E v \in DOMAIN users' :
                     users'[v].org = o /\ users'[v].role = "admin" /\ users'[v].active
      <3>1. ASSUME NEW r \in Req, Silent(r) \/ Write(r) \/ InsertLog(r) \/ SignToken(r)
            PROVE  crossed' = crossed
        BY <3>1, SilentFrame DEF Write, InsertLog, SignToken, history
      <3>2. ASSUME NEW r \in Req, NEW u \in DOMAIN users, NEW active \in BOOLEAN,
                   UpdateUserStatus(r, u, active)
            PROVE  u \in DOMAIN users' /\ users'[u].org = o /\ users'[u].role = "admin" /\ users'[u].active
        <4>1. active /\ users[u].role = "admin" /\ users[u].org = o
          BY <2>1, <3>2 DEF UpdateUserStatus
        <4>2. users' = [users EXCEPT ![u].active = active]
          BY <3>2 DEF UpdateUserStatus
        <4>3. QED
          BY <4>1, <4>2 DEF TypeOK, IsTable, UserRow
      <3>3. ASSUME NEW r \in Req,
                   \/ \E p \in Org, email \in User : RegisterFirst(r, p, email)
                   \/ \E email \in User, role \in Role : RegisterUser(r, email, role)
            PROVE  crossed' = crossed
        BY <3>3 DEF RegisterFirst, RegisterUser, history
      <3>4. ASSUME NEW p \in Org,
                   \/ \E email \in User, trial \in BOOLEAN : CreateOrganization(p, email, trial)
                   \/ Changes(p)
            PROVE  crossed' = crossed
        BY <3>4, ChangesFrame DEF CreateOrganization, history
      <3>5. CASE UNCHANGED vars
        BY <2>1, <3>5 DEF vars
      <3>6. QED
        BY <2>1, <3>1, <3>2, <3>3, <3>4, <3>5, StepForms
    <2> SUFFICES ASSUME o \notin crossed
                 PROVE  \E v \in DOMAIN users' :
                            users'[v].org = o /\ users'[v].role = "admin" /\ users'[v].active
      BY <2>1
    <2>2. PICK a \in DOMAIN users : users[a].org = o /\ users[a].role = "admin" /\ users[a].active
      BY <1>2 DEF AdminRemains, Admins
    <2>3. a \in DOMAIN users' /\ users'[a].org = o /\ users'[a].role = "admin"
      BY <2>2, UsersStay
    <2>4. ASSUME NEW r \in Req, NEW u \in DOMAIN users, NEW active \in BOOLEAN,
                 UpdateUserStatus(r, u, active)
          PROVE  \E v \in DOMAIN users' :
                     users'[v].org = o /\ users'[v].role = "admin" /\ users'[v].active
      <3> DEFINE actor == requests[r].user
      <3>1. actor \in DOMAIN users /\ users[actor].role = "admin"
        BY <2>4, ActorIsUser DEF UpdateUserStatus, MayAdd
      <3>2. \A v \in DOMAIN users : v # u => users'[v] = users[v]
        BY <2>4 DEF UpdateUserStatus
      <3>3. users'[u].active = active
        BY <2>4 DEF UpdateUserStatus, TypeOK, IsTable, UserRow
      <3>4. CASE a # u \/ active
        BY <2>2, <2>3, <3>2, <3>3, <3>4
      <3>5. CASE a = u /\ ~active
        <4>1. actor # u
          BY <2>4, <3>5 DEF UpdateUserStatus, MayTarget
        <4>2. users[actor].active /\ users[actor].org = users[u].org
          BY <2>2, <2>4, <3>5 DEF UpdateUserStatus
        <4>3. users'[actor] = users[actor] /\ actor \in DOMAIN users'
          BY <3>1, <3>2, <4>1, UsersStay
        <4>4. QED
          BY <2>2, <3>1, <3>5, <4>2, <4>3
      <3>6. QED
        BY <3>4, <3>5
    <2>5. CASE users'[a] = users[a]
      BY <2>2, <2>3, <2>5
    <2>6. ASSUME ~ \E r \in Req : \E u \in DOMAIN users, active \in BOOLEAN : UpdateUserStatus(r, u, active)
          PROVE  users'[a] = users[a]
      <3>1. ASSUME NEW r \in Req, Silent(r) \/ Write(r) \/ InsertLog(r) \/ SignToken(r)
            PROVE  users' = users
        BY <3>1, SilentFrame DEF Write, InsertLog, SignToken
      <3>2. ASSUME NEW r \in Req, NEW p \in Org, NEW email \in User, RegisterFirst(r, p, email)
            PROVE  users'[a] = users[a]
        BY <2>2, <3>2, FirstFounds DEF Founds
      <3>3. ASSUME NEW r \in Req, NEW email \in User, NEW role \in Role, RegisterUser(r, email, role)
            PROVE  users'[a] = users[a]
        BY <2>2, <3>3, RegisterUserTypes DEF Added, RegisterUser
      <3>4. ASSUME NEW p \in Org, NEW email \in User, NEW trial \in BOOLEAN, CreateOrganization(p, email, trial)
            PROVE  users'[a] = users[a]
        BY <2>2, <3>4, BackOfficeFounds DEF Founds
      <3>5. ASSUME NEW p \in Org, Changes(p)
            PROVE  users' = users
        BY <3>5, ChangesFrame
      <3>6. CASE UNCHANGED vars
        BY <3>6 DEF vars
      <3>7. QED
        BY <2>6, <3>1, <3>2, <3>3, <3>4, <3>5, <3>6, StepForms
    <2>7. QED
      BY <2>4, <2>5, <2>6
  <1>3. QED
    BY <1>1, <1>2

------------------------------------------------------------------------------
\* Writes after a suspension

\* Nothing is written, no organization is suspended and no request enters a
\* handler of a suspended one.
LEMMA QuietWrites ==
    ASSUME TypeOK, LateWritesBounded, late' = late,
           \A o \in DOMAIN orgs' : orgs'[o].status = "suspended" =>
               o \in DOMAIN orgs /\ orgs[o].status = "suspended" /\ Writing(o)' \subseteq Writing(o)
    PROVE  LateWritesBounded'
  <1> SUFFICES ASSUME NEW o \in DOMAIN orgs', orgs'[o].status = "suspended"
               PROVE  late[o] + Cardinality(Writing(o)') <= Cardinality(Req)
    BY DEF LateWritesBounded
  <1>1. o \in DOMAIN orgs /\ orgs[o].status = "suspended" /\ Writing(o)' \subseteq Writing(o)
    OBVIOUS
  <1>2. Writing(o) \subseteq Req
    BY DEF Writing
  <1>3. /\ Cardinality(Writing(o)') <= Cardinality(Writing(o))
        /\ Cardinality(Writing(o)') \in Nat /\ Cardinality(Writing(o)) \in Nat
        /\ Cardinality(Req) \in Nat
    BY <1>1, <1>2, Counting, FS_Subset
  <1>4. late[o] \in Nat
    BY <1>1, Counting DEF TypeOK, IsTable
  <1>5. late[o] + Cardinality(Writing(o)) <= Cardinality(Req)
    BY <1>1 DEF LateWritesBounded
  <1>6. QED
    BY <1>3, <1>4, <1>5

\* A request that moves to a place other than a handler of o.
LEMMA LeavesWriting ==
    ASSUME TypeOK, NEW r \in Req, NEW request, Becomes(r, request),
           NEW o, request # [at |-> "handler", org |-> o]
    PROVE  Writing(o)' = Writing(o) \ {r}
  BY RequestMoves DEF Writing

LEMMA SilentWrites ==
    ASSUME TypeOK, LateWritesBounded, NEW r \in Req, Silent(r)
    PROVE  LateWritesBounded'
  <1>1. orgs' = orgs /\ late' = late
    BY SilentFrame
  <1> SUFFICES ASSUME NEW o \in DOMAIN orgs, orgs[o].status = "suspended"
               PROVE  Writing(o)' \subseteq Writing(o)
    BY <1>1, QuietWrites
  <1>2. ASSUME NEW request, Becomes(r, request), request.at # "handler"
        PROVE  Writing(o)' \subseteq Writing(o)
    <2>1. request # [at |-> "handler", org |-> o]
      BY <1>2
    <2>2. QED
      BY <1>2, <2>1, LeavesWriting
  <1>3. CASE \E u \in User \cup {Nobody} : Authenticate(r, u)
    BY <1>2, <1>3 DEF Authenticate
  <1>4. CASE RegisterCount(r)
    BY <1>2, <1>4 DEF RegisterCount
  <1>5. CASE CheckOrganization(r)
    <2> DEFINE p == users[requests[r].user].org
    <2>1. p # o /\ Becomes(r, [at |-> "handler", org |-> p])
      BY <1>5 DEF CheckOrganization, IsOpen
    <2> HIDE DEF p
    <2>2. [at |-> "handler", org |-> p] # [at |-> "handler", org |-> o]
      BY <2>1
    <2>3. QED
      BY <2>1, <2>2, LeavesWriting
  <1>6. CASE \E p \in Org : Impersonate(r, p)
    BY <1>2, <1>6 DEF Impersonate
  <1>7. CASE Fail(r)
    BY <1>2, <1>7 DEF Fail, Leaves, Idle
  <1>8. QED
    BY <1>3, <1>4, <1>5, <1>6, <1>7 DEF Silent

LEMMA WriteCounted ==
    ASSUME TypeOK, LateWritesBounded, NEW r \in Req, Write(r)
    PROVE  LateWritesBounded'
  <1> DEFINE o == requests[r].org
  <1>1. orgs' = orgs /\ o \in DOMAIN orgs /\ o \in Org /\ requests[r] = [at |-> "handler", org |-> o]
    BY RequestForms DEF Write
  <1>2. \A p : Writing(p)' = Writing(p) \ {r}
    <2>1. Becomes(r, Idle) /\ \A p : Idle # [at |-> "handler", org |-> p]
      BY DEF Write, Leaves, Idle
    <2>2. QED
      BY <2>1, LeavesWriting
  <1> SUFFICES ASSUME NEW p \in DOMAIN orgs, orgs[p].status = "suspended"
               PROVE  late'[p] + Cardinality(Writing(p)') <= Cardinality(Req)
    BY <1>1 DEF LateWritesBounded
  <1>3. late[p] + Cardinality(Writing(p)) <= Cardinality(Req) /\ Writing(p) \subseteq Req
    BY DEF LateWritesBounded, Writing
  <1>4. p \in Org /\ late[p] \in Nat /\ Cardinality(Req) \in Nat
    BY Counting DEF TypeOK, IsTable
  <1>5. CASE p = o
    <2>1. r \in Writing(p)
      BY <1>1, <1>5 DEF Writing
    <2>2. Cardinality(Writing(p)') = Cardinality(Writing(p)) - 1 /\ Cardinality(Writing(p)) \in Nat
      BY <1>2, <1>3, <2>1, OneLess, Counting
    <2>3. late'[p] \in {late[p], late[p] + 1}
      BY <1>4, <1>5 DEF Write, TypeOK
    <2>4. QED
      BY <1>3, <1>4, <2>2, <2>3
  <1>6. CASE p # o
    <2>1. late'[p] = late[p]
      BY <1>4, <1>6 DEF Write, TypeOK
    <2>2. r \notin Writing(p)
      BY <1>1, <1>6 DEF Writing
    <2>3. QED
      BY <1>2, <1>3, <2>1, <2>2
  <1>7. QED
    BY <1>5, <1>6

LEMMA ChangesWrites ==
    ASSUME TypeOK, LateWritesBounded, NEW o \in Org, Changes(o)
    PROVE  LateWritesBounded'
  <1>1. requests' = requests /\ DOMAIN orgs' = DOMAIN orgs
    BY ChangesFrame
  <1>2. \A p : Writing(p)' = Writing(p)
    BY <1>1 DEF Writing
  <1>3. orgs \in [DOMAIN orgs -> OrgRow] /\ DOMAIN orgs \subseteq Org
    BY DEF TypeOK, IsTable
  <1>4. ASSUME NEW billing \in SubscriptionStatus \cup {"none"}, UpdatePlan(o, billing)
        PROVE  LateWritesBounded'
    <2>1. late' = late /\ \A p \in DOMAIN orgs : orgs'[p].status = orgs[p].status
      BY <1>3, <1>4 DEF UpdatePlan, OrgRow
    <2>2. QED
      BY <1>1, <1>2, <2>1, QuietWrites
  <1>5. CASE ExtendTrial(o)
    <2>1. late' = late /\ \A p \in DOMAIN orgs : orgs'[p].status = orgs[p].status
      BY <1>3, <1>5 DEF ExtendTrial, OrgRow, history
    <2>2. QED
      BY <1>1, <1>2, <2>1, QuietWrites
  <1>6. ASSUME NEW status \in {"active", "suspended"}, UpdateOrganizationStatus(o, status)
        PROVE  LateWritesBounded'
    <2>1. \A p \in DOMAIN orgs : orgs'[p].status = IF p = o THEN status ELSE orgs[p].status
      BY <1>3, <1>6 DEF UpdateOrganizationStatus, OrgRow
    <2> SUFFICES ASSUME NEW p \in DOMAIN orgs, orgs'[p].status = "suspended"
                 PROVE  late'[p] + Cardinality(Writing(p)) <= Cardinality(Req)
      BY <1>1, <1>2 DEF LateWritesBounded
    <2>2. Writing(p) \subseteq Req
      BY DEF Writing
    <2>3. Cardinality(Writing(p)) <= Cardinality(Req) /\ Cardinality(Writing(p)) \in Nat
      BY <2>2, Counting
    <2>4. CASE orgs[p].status = "suspended"
      <3>1. late'[p] = late[p]
        BY <1>3, <1>6, <2>1, <2>4 DEF UpdateOrganizationStatus, TypeOK
      <3>2. QED
        BY <2>4, <3>1 DEF LateWritesBounded
    <2>5. CASE orgs[p].status # "suspended"
      <3>1. late'[p] = 0
        BY <1>3, <1>6, <2>1, <2>5 DEF UpdateOrganizationStatus, TypeOK
      <3>2. QED
        BY <2>3, <3>1
    <2>6. QED
      BY <2>4, <2>5
  <1>7. QED
    BY <1>4, <1>5, <1>6 DEF Changes

\* The other steps leave every row as it was or add one that is active, and
\* move a request, if any, out of no handler.
LEMMA OtherWrites ==
    ASSUME TypeOK, LateWritesBounded, late' = late,
           DOMAIN orgs \subseteq DOMAIN orgs',
           \A o \in DOMAIN orgs : orgs'[o].status = orgs[o].status,
           \A o \in DOMAIN orgs' \ DOMAIN orgs : orgs'[o].status = "active",
           \/ requests' = requests
           \/ \E r \in Req : \E request : Becomes(r, request) /\ request.at # "handler"
    PROVE  LateWritesBounded'
  <1>1. \A o : Writing(o)' \subseteq Writing(o)
    <2>1. CASE requests' = requests
      BY <2>1 DEF Writing
    <2>2. ASSUME NEW r \in Req, NEW request, Becomes(r, request), request.at # "handler", NEW o
          PROVE  Writing(o)' \subseteq Writing(o)
      <3>1. request # [at |-> "handler", org |-> o]
        BY <2>2
      <3>2. QED
        BY <2>2, <3>1, LeavesWriting
    <2>3. QED
      BY <2>1, <2>2
  <1>2. QED
    BY <1>1, QuietWrites

LEMMA WritesStay ==
    ASSUME TypeOK, LateWritesBounded, [Next]_vars
    PROVE  LateWritesBounded'
  <1>1. CASE UNCHANGED vars
    BY <1>1, OtherWrites DEF vars
  <1>2. ASSUME NEW r \in Req, Silent(r) \/ Write(r)
        PROVE  LateWritesBounded'
    BY <1>2, SilentWrites, WriteCounted
  <1>3. ASSUME NEW r \in Req, InsertLog(r) \/ SignToken(r)
        PROVE  LateWritesBounded'
    <2>1. orgs' = orgs /\ late' = late
      BY <1>3 DEF InsertLog, SignToken, history
    <2>2. \E request : Becomes(r, request) /\ request.at # "handler"
      BY <1>3 DEF InsertLog, SignToken, Leaves, Idle
    <2>3. QED
      BY <2>1, <2>2, OtherWrites
  <1>4. ASSUME NEW r \in Req, NEW o \in Org, NEW email \in User, RegisterFirst(r, o, email)
        PROVE  LateWritesBounded'
    <2>1. Founds(o, email, TRUE, TRUE)
      BY <1>4, FirstFounds
    <2>2. late' = late /\ Becomes(r, Idle) /\ Idle.at # "handler"
      BY <1>4 DEF RegisterFirst, Leaves, Idle, history
    <2>3. QED
      BY <2>1, <2>2, OtherWrites DEF Founds, Founded
  <1>5. ASSUME NEW r \in Req,
               \/ \E email \in User, role \in Role : RegisterUser(r, email, role)
               \/ \E u \in DOMAIN users, active \in BOOLEAN : UpdateUserStatus(r, u, active)
        PROVE  LateWritesBounded'
    <2>1. orgs' = orgs /\ late' = late /\ Becomes(r, Idle) /\ Idle.at # "handler"
      BY <1>5 DEF RegisterUser, UpdateUserStatus, Leaves, Idle, history
    <2>2. QED
      BY <2>1, OtherWrites
  <1>6. ASSUME NEW o \in Org, NEW email \in User, NEW trial \in BOOLEAN, CreateOrganization(o, email, trial)
        PROVE  LateWritesBounded'
    <2>1. Founds(o, email, FALSE, trial)
      BY <1>6, BackOfficeFounds
    <2>2. late' = late /\ requests' = requests
      BY <1>6 DEF CreateOrganization, history
    <2>3. QED
      BY <2>1, <2>2, OtherWrites DEF Founds, Founded
  <1>7. ASSUME NEW o \in Org, Changes(o)
        PROVE  LateWritesBounded'
    BY <1>7, ChangesWrites
  <1>8. QED
    BY <1>1, <1>2, <1>3, <1>4, <1>5, <1>6, <1>7, StepForms

------------------------------------------------------------------------------
\* First registrations

BootstrapInv == IsFiniteSet(Bootstrapped) /\ BootstrapBounded

\* No organization is founded by a first registration, and none begins.
LEMMA QuietBootstrap ==
    ASSUME BootstrapInv, Bootstrapped' = Bootstrapped, Bootstrapping' \subseteq Bootstrapping
    PROVE  BootstrapInv'
  <1>1. Bootstrapping \subseteq Req
    BY DEF Bootstrapping
  <1>2. /\ Cardinality(Bootstrapping') <= Cardinality(Bootstrapping)
        /\ Cardinality(Bootstrapping') \in Nat /\ Cardinality(Bootstrapping) \in Nat
        /\ Cardinality(Req) \in Nat
    BY <1>1, Counting, FS_Subset
  <1>3. Cardinality(Bootstrapped) \in Nat
    BY FS_CardinalityType DEF BootstrapInv
  <1>4. QED
    BY <1>2, <1>3 DEF BootstrapInv, BootstrapBounded

LEMMA LeavesBootstrapping ==
    ASSUME TypeOK, NEW r \in Req, NEW request, Becomes(r, request), request.at # "bootstrap"
    PROVE  Bootstrapping' = Bootstrapping \ {r}
  BY RequestMoves DEF Bootstrapping

LEMMA FirstCounted ==
    ASSUME TypeOK, BootstrapInv, NEW r \in Req, NEW o \in Org, NEW email \in User, RegisterFirst(r, o, email)
    PROVE  BootstrapInv'
  <1>1. Founds(o, email, TRUE, TRUE)
    BY FirstFounds
  <1>2. Bootstrapped' = Bootstrapped \cup {o}
    BY <1>1 DEF Founds, Founded, Bootstrapped
  <1>3. Bootstrapping' = Bootstrapping \ {r} /\ r \in Bootstrapping
    <2>1. Becomes(r, Idle) /\ Idle.at # "bootstrap" /\ requests[r].at = "bootstrap"
      BY DEF RegisterFirst, Leaves, Idle
    <2>2. QED
      BY <2>1, LeavesBootstrapping DEF Bootstrapping
  <1>4. Bootstrapping \subseteq Req
    BY DEF Bootstrapping
  <1>5. /\ Cardinality(Bootstrapping') = Cardinality(Bootstrapping) - 1
        /\ Cardinality(Bootstrapping) \in Nat /\ Cardinality(Req) \in Nat
    BY <1>3, <1>4, OneLess, Counting
  <1>6. /\ IsFiniteSet(Bootstrapped') /\ Cardinality(Bootstrapped) \in Nat
        /\ Cardinality(Bootstrapped') \in {Cardinality(Bootstrapped), Cardinality(Bootstrapped) + 1}
    BY <1>2, FS_AddElement, FS_CardinalityType DEF BootstrapInv
  <1>7. QED
    BY <1>5, <1>6 DEF BootstrapInv, BootstrapBounded

\* While there are no users there are no organizations either.
LEMMA CountCounted ==
    ASSUME TypeOK, OrganizationsComplete, BootstrapInv, NEW r \in Req, RegisterCount(r)
    PROVE  BootstrapInv'
  <1>1. orgs' = orgs
    BY DEF RegisterCount
  <1>2. Bootstrapped' = Bootstrapped
    BY <1>1 DEF Bootstrapped
  <1>3. CASE DOMAIN users = {}
    <2>1. Bootstrapped = {}
      BY <1>3 DEF OrganizationsComplete, Bootstrapped
    <2>2. Bootstrapping' \subseteq Req
      BY DEF Bootstrapping
    <2>3. Cardinality(Bootstrapped') = 0 /\ IsFiniteSet(Bootstrapped')
      BY <1>2, <2>1, FS_EmptySet
    <2>4. Cardinality(Bootstrapping') <= Cardinality(Req) /\ Cardinality(Bootstrapping') \in Nat
      BY <2>2, Counting
    <2>5. QED
      BY <2>3, <2>4 DEF BootstrapInv, BootstrapBounded
  <1>4. CASE DOMAIN users # {}
    <2> DEFINE request == [at |-> "adding", org |-> users[requests[r].user].org]
    <2>1. Becomes(r, request) /\ request.at # "bootstrap"
      BY <1>4 DEF RegisterCount
    <2> HIDE DEF request
    <2>2. QED
      BY <1>2, <2>1, LeavesBootstrapping, QuietBootstrap
  <1>5. QED
    BY <1>3, <1>4

LEMMA BootstrapStays ==
    ASSUME TypeOK, OrganizationsComplete, BootstrapInv, [Next]_vars
    PROVE  BootstrapInv'
  <1>1. CASE UNCHANGED vars
    BY <1>1 DEF vars, BootstrapInv, BootstrapBounded, Bootstrapped, Bootstrapping
  <1>2. ASSUME NEW r \in Req, Silent(r) \/ Write(r) \/ InsertLog(r) \/ SignToken(r)
        PROVE  BootstrapInv'
    <2>1. CASE RegisterCount(r)
      BY <2>1, CountCounted
    <2>2. CASE ~RegisterCount(r)
      <3>1. orgs' = orgs
        BY <1>2, SilentFrame DEF Write, InsertLog, SignToken
      <3>2. \E request : Becomes(r, request) /\ request.at # "bootstrap"
        <4>1. CASE \E u \in User \cup {Nobody} : Authenticate(r, u)
          BY <4>1 DEF Authenticate
        <4>2. CASE CheckOrganization(r)
          <5> DEFINE o == users[requests[r].user].org
          <5>1. Becomes(r, [at |-> "handler", org |-> o])
            BY <4>2 DEF CheckOrganization
          <5> HIDE DEF o
          <5>2. QED
            BY <5>1
        <4>3. CASE \E o \in Org : Impersonate(r, o)
          BY <4>3 DEF Impersonate
        <4>4. CASE InsertLog(r)
          <5>1. Becomes(r, [at |-> "sign", org |-> requests[r].org])
            BY <4>4 DEF InsertLog
          <5>2. QED
            BY <5>1
        <4>5. CASE Fail(r) \/ Write(r) \/ SignToken(r)
          <5>1. Becomes(r, Idle) /\ Idle.at # "bootstrap"
            BY <4>5 DEF Fail, Write, SignToken, Leaves, Idle
          <5>2. QED
            BY <5>1
        <4>6. QED
          BY <1>2, <2>2, <4>1, <4>2, <4>3, <4>4, <4>5 DEF Silent
      <3>3. QED
        BY <3>1, <3>2, LeavesBootstrapping, QuietBootstrap DEF Bootstrapped
    <2>3. QED
      BY <2>1, <2>2
  <1>3. ASSUME NEW r \in Req, NEW o \in Org, NEW email \in User, RegisterFirst(r, o, email)
        PROVE  BootstrapInv'
    BY <1>3, FirstCounted
  <1>4. ASSUME NEW r \in Req,
               \/ \E email \in User, role \in Role : RegisterUser(r, email, role)
               \/ \E u \in DOMAIN users, active \in BOOLEAN : UpdateUserStatus(r, u, active)
        PROVE  BootstrapInv'
    <2>1. orgs' = orgs /\ Becomes(r, Idle) /\ Idle.at # "bootstrap"
      BY <1>4 DEF RegisterUser, UpdateUserStatus, Leaves, Idle
    <2>2. QED
      BY <2>1, LeavesBootstrapping, QuietBootstrap DEF Bootstrapped
  <1>5. ASSUME NEW o \in Org, NEW email \in User, NEW trial \in BOOLEAN, CreateOrganization(o, email, trial)
        PROVE  BootstrapInv'
    <2>1. Founds(o, email, FALSE, trial)
      BY <1>5, BackOfficeFounds
    <2>2. Bootstrapped' = Bootstrapped
      BY <2>1 DEF Founds, Founded, Bootstrapped
    <2>3. Bootstrapping' = Bootstrapping
      BY <1>5 DEF CreateOrganization, Bootstrapping
    <2>4. QED
      BY <2>2, <2>3, QuietBootstrap
  <1>6. ASSUME NEW o \in Org, Changes(o)
        PROVE  BootstrapInv'
    BY <1>6, ChangesFrame, QuietBootstrap DEF Bootstrapped, Bootstrapping
  <1>7. QED
    BY <1>1, <1>2, <1>3, <1>4, <1>5, <1>6, StepForms

------------------------------------------------------------------------------
\* Impersonations

\* Nothing is logged or signed, and no request gets to sign.
LEMMA QuietLog ==
    ASSUME TypeOK, ImpersonationLogged, UNCHANGED audit,
           \A o \in Org : Signing(o)' \subseteq Signing(o)
    PROVE  ImpersonationLogged'
  <1> SUFFICES ASSUME NEW o \in Org
               PROVE  tokens[o] + Cardinality(Signing(o)') <= logs[o]
    BY DEF ImpersonationLogged, audit
  <1>1. Signing(o) \subseteq Req
    BY DEF Signing
  <1>2. /\ Cardinality(Signing(o)') <= Cardinality(Signing(o))
        /\ Cardinality(Signing(o)') \in Nat /\ Cardinality(Signing(o)) \in Nat
    BY <1>1, Counting, FS_Subset
  <1>3. tokens[o] \in Nat /\ logs[o] \in Nat
    BY DEF TypeOK
  <1>4. QED
    BY <1>2, <1>3 DEF ImpersonationLogged

LEMMA LeavesSigning ==
    ASSUME TypeOK, NEW r \in Req, NEW request, Becomes(r, request), NEW o,
           request # [at |-> "sign", org |-> o]
    PROVE  Signing(o)' = Signing(o) \ {r}
  BY RequestMoves DEF Signing

LEMMA NotSigning ==
    ASSUME TypeOK, ImpersonationLogged, UNCHANGED audit, NEW r \in Req, NEW request,
           Becomes(r, request), request.at # "sign"
    PROVE  ImpersonationLogged'
  <1>1. \A o : request # [at |-> "sign", org |-> o]
    OBVIOUS
  <1>2. QED
    BY <1>1, LeavesSigning, QuietLog

LEMMA InsertLogged ==
    ASSUME TypeOK, ImpersonationLogged, NEW r \in Req, InsertLog(r)
    PROVE  ImpersonationLogged'
  <1> DEFINE o == requests[r].org
  <1>1. o \in Org
    BY RequestForms DEF InsertLog
  <1>2. \A q \in Req : requests'[q] = IF q = r THEN [at |-> "sign", org |-> o] ELSE requests[q]
    BY RequestMoves DEF InsertLog
  <1> SUFFICES ASSUME NEW p \in Org
               PROVE  tokens[p] + Cardinality(Signing(p)') <= logs'[p]
    BY DEF ImpersonationLogged, InsertLog
  <1>3. Signing(p) \subseteq Req /\ Signing(p)' \subseteq Req
    BY DEF Signing
  <1>4. tokens[p] \in Nat /\ logs[p] \in Nat /\ Cardinality(Signing(p)) \in Nat /\ Cardinality(Signing(p)') \in Nat
    BY <1>3, Counting DEF TypeOK
  <1>5. CASE p = o
    <2>1. Signing(p)' = Signing(p) \cup {r}
      BY <1>2, <1>5 DEF Signing
    <2>2. Cardinality(Signing(p)') <= Cardinality(Signing(p)) + 1
      BY <1>3, <2>1, OneMore
    <2>3. logs'[p] = logs[p] + 1
      BY <1>5 DEF InsertLog, TypeOK
    <2>4. QED
      BY <1>4, <2>2, <2>3 DEF ImpersonationLogged
  <1>6. CASE p # o
    <2>1. Signing(p)' \subseteq Signing(p)
      <3> DEFINE request == [at |-> "sign", org |-> o]
      <3>1. Becomes(r, request) /\ request # [at |-> "sign", org |-> p]
        BY <1>6 DEF InsertLog
      <3>2. QED
        BY <3>1, LeavesSigning
    <2>2. Cardinality(Signing(p)') <= Cardinality(Signing(p))
      BY <1>3, <2>1, Counting, FS_Subset
    <2>3. logs'[p] = logs[p]
      BY <1>1, <1>6 DEF InsertLog, TypeOK
    <2>4. QED
      BY <1>4, <2>2, <2>3 DEF ImpersonationLogged
  <1>7. QED
    BY <1>5, <1>6

LEMMA SignLogged ==
    ASSUME TypeOK, ImpersonationLogged, NEW r \in Req, SignToken(r)
    PROVE  ImpersonationLogged'
  <1> DEFINE o == requests[r].org
  <1>1. o \in Org /\ requests[r] = [at |-> "sign", org |-> o]
    BY RequestForms DEF SignToken
  <1>2. \A p : Signing(p)' = Signing(p) \ {r}
    <2>1. Becomes(r, Idle) /\ \A p : Idle # [at |-> "sign", org |-> p]
      BY DEF SignToken, Leaves, Idle
    <2>2. QED
      BY <2>1, LeavesSigning
  <1> SUFFICES ASSUME NEW p \in Org
               PROVE  tokens'[p] + Cardinality(Signing(p)') <= logs[p]
    BY DEF ImpersonationLogged, SignToken
  <1>3. Signing(p) \subseteq Req
    BY DEF Signing
  <1>4. tokens[p] \in Nat /\ logs[p] \in Nat /\ Cardinality(Signing(p)) \in Nat
    BY <1>3, Counting DEF TypeOK
  <1>5. CASE p = o
    <2>1. r \in Signing(p)
      BY <1>1, <1>5 DEF Signing
    <2>2. Cardinality(Signing(p)') = Cardinality(Signing(p)) - 1
      BY <1>2, <1>3, <2>1, OneLess
    <2>3. tokens'[p] = tokens[p] + 1
      BY <1>5 DEF SignToken, TypeOK
    <2>4. QED
      BY <1>4, <2>2, <2>3 DEF ImpersonationLogged
  <1>6. CASE p # o
    <2>1. r \notin Signing(p)
      BY <1>1, <1>6 DEF Signing
    <2>2. tokens'[p] = tokens[p]
      BY <1>6 DEF SignToken, TypeOK
    <2>3. QED
      BY <1>2, <2>1, <2>2 DEF ImpersonationLogged
  <1>7. QED
    BY <1>5, <1>6

LEMMA LogStays ==
    ASSUME TypeOK, ImpersonationLogged, [Next]_vars
    PROVE  ImpersonationLogged'
  <1>1. CASE UNCHANGED vars
    BY <1>1 DEF vars, audit, ImpersonationLogged, Signing
  <1>2. ASSUME NEW r \in Req, Silent(r)
        PROVE  ImpersonationLogged'
    <2>1. UNCHANGED audit
      BY <1>2, SilentFrame DEF audit
    <2>2. CASE (\E u \in User \cup {Nobody} : Authenticate(r, u)) \/ CheckOrganization(r)
      BY <2>1, <2>2, NotSigning DEF Authenticate, CheckOrganization
    <2>3. CASE RegisterCount(r)
      BY <2>1, <2>3, NotSigning DEF RegisterCount
    <2>4. CASE \E o \in Org : Impersonate(r, o)
      BY <2>1, <2>4, NotSigning DEF Impersonate
    <2>5. CASE Fail(r)
      <3>1. Becomes(r, Idle) /\ Idle.at # "sign"
        BY <2>5 DEF Fail, Leaves, Idle
      <3>2. QED
        BY <2>1, <3>1, NotSigning
    <2>6. QED
      BY <1>2, <2>2, <2>3, <2>4, <2>5 DEF Silent
  <1>3. ASSUME NEW r \in Req, InsertLog(r) \/ SignToken(r)
        PROVE  ImpersonationLogged'
    BY <1>3, InsertLogged, SignLogged
  <1>4. ASSUME NEW r \in Req,
               \/ Write(r)
               \/ \E o \in Org, email \in User : RegisterFirst(r, o, email)
               \/ \E email \in User, role \in Role : RegisterUser(r, email, role)
               \/ \E u \in DOMAIN users, active \in BOOLEAN : UpdateUserStatus(r, u, active)
        PROVE  ImpersonationLogged'
    <2>1. UNCHANGED audit /\ Becomes(r, Idle) /\ Idle.at # "sign"
      BY <1>4 DEF Write, RegisterFirst, RegisterUser, UpdateUserStatus, Leaves, Idle, audit
    <2>2. QED
      BY <2>1, NotSigning
  <1>5. ASSUME NEW o \in Org,
               \/ \E email \in User, trial \in BOOLEAN : CreateOrganization(o, email, trial)
               \/ Changes(o)
        PROVE  ImpersonationLogged'
    <2>1. UNCHANGED audit /\ requests' = requests
      BY <1>5, ChangesFrame DEF CreateOrganization, audit
    <2>2. \A p \in Org : Signing(p)' = Signing(p)
      BY <2>1 DEF Signing
    <2>3. QED
      BY <2>1, <2>2, QuietLog
  <1>6. QED
    BY <1>1, <1>2, <1>3, <1>4, <1>5, StepForms

------------------------------------------------------------------------------
\* Trials

LEMMA TrialsStay ==
    ASSUME TypeOK, TrialsDated, [Next]_vars
    PROVE  TrialsDated'
  <1>0. orgs \in [DOMAIN orgs -> OrgRow]
    BY DEF TypeOK, IsTable
  <1>1. CASE orgs' = orgs /\ undated' = undated
    BY <1>1 DEF TrialsDated
  <1>2. ASSUME NEW r \in Req,
               \/ Silent(r) \/ Write(r) \/ InsertLog(r) \/ SignToken(r)
               \/ \E email \in User, role \in Role : RegisterUser(r, email, role)
               \/ \E u \in DOMAIN users, active \in BOOLEAN : UpdateUserStatus(r, u, active)
        PROVE  orgs' = orgs /\ undated' = undated
    BY <1>2, SilentFrame DEF Write, InsertLog, SignToken, RegisterUser, UpdateUserStatus, history
  <1>3. ASSUME NEW o \in Org, NEW email \in User, NEW bootstrap \in BOOLEAN, NEW trial \in BOOLEAN,
               Founds(o, email, bootstrap, trial), undated' = undated
        PROVE  TrialsDated'
    BY <1>3 DEF Founds, Founded, TrialsDated
  <1>4. ASSUME NEW r \in Req, NEW o \in Org, NEW email \in User, RegisterFirst(r, o, email)
        PROVE  TrialsDated'
    <2>1. Founds(o, email, TRUE, TRUE) /\ undated' = undated
      BY <1>4, FirstFounds DEF RegisterFirst, history
    <2>2. QED
      BY <1>3, <2>1
  <1>5. ASSUME NEW o \in Org, NEW email \in User, NEW trial \in BOOLEAN, CreateOrganization(o, email, trial)
        PROVE  TrialsDated'
    <2>1. Founds(o, email, FALSE, trial) /\ undated' = undated
      BY <1>5, BackOfficeFounds DEF CreateOrganization, history
    <2>2. QED
      BY <1>3, <2>1
  <1>6. ASSUME NEW o \in Org, NEW billing \in SubscriptionStatus \cup {"none"}, UpdatePlan(o, billing)
        PROVE  TrialsDated'
    <2>1. /\ DOMAIN orgs' = DOMAIN orgs
          /\ \A p \in DOMAIN orgs : orgs'[p].dated = orgs[p].dated
          /\ \A p \in DOMAIN orgs : p # o \/ billing = "none" => orgs'[p].billing = orgs[p].billing
          /\ o \in DOMAIN orgs => orgs'[o].billing = CoalescedBilling(orgs[o].billing, billing)
      BY <1>0, <1>6 DEF UpdatePlan, OrgRow, CoalescedBilling
    <2>2. undated \subseteq undated' /\ (billing = "trialing" => o \in undated')
      BY <1>6 DEF UpdatePlan
    <2>3. billing \in {"none", "trialing", "active"}
      BY DEF SubscriptionStatus
    <2>4. QED
      BY <2>1, <2>2, <2>3 DEF TrialsDated, CoalescedBilling
  <1>7. ASSUME NEW o \in Org, ExtendTrial(o)
        PROVE  TrialsDated'
    <2>1. /\ DOMAIN orgs' = DOMAIN orgs /\ undated' = undated
          /\ \A p \in DOMAIN orgs : p # o => orgs'[p] = orgs[p]
          /\ orgs'[o].dated
      BY <1>0, <1>7 DEF ExtendTrial, OrgRow, history
    <2>2. QED
      BY <2>1 DEF TrialsDated
  <1>8. ASSUME NEW o \in Org, NEW status \in {"active", "suspended"}, UpdateOrganizationStatus(o, status)
        PROVE  TrialsDated'
    <2>1. /\ DOMAIN orgs' = DOMAIN orgs /\ undated' = undated
          /\ \A p \in DOMAIN orgs : orgs'[p].billing = orgs[p].billing /\ orgs'[p].dated = orgs[p].dated
      BY <1>0, <1>8 DEF UpdateOrganizationStatus, OrgRow
    <2>2. QED
      BY <2>1 DEF TrialsDated
  <1>9. CASE UNCHANGED vars
    BY <1>1, <1>9 DEF vars
  <1>10. QED
    BY <1>1, <1>2, <1>4, <1>5, <1>6, <1>7, <1>8, <1>9, StepForms DEF Changes

------------------------------------------------------------------------------
\* The inductive invariant and its theorems

\* That no organization stands without an account is what the count of the
\* first registrations rests on.
Inv ==
    /\ TypeOK
    /\ OrganizationsComplete
    /\ LateWritesBounded
    /\ BootstrapInv
    /\ AdminRemains
    /\ ImpersonationLogged
    /\ TrialsDated

LEMMA InitInv == Init => Inv
  <1> SUFFICES ASSUME Init PROVE Inv
    OBVIOUS
  <1>1. TypeOK
    BY InitTypes
  <1>2. DOMAIN orgs = {} /\ \A r \in Req : requests[r].at = "idle"
    BY DEF Init, Empty, Idle
  <1>3. Bootstrapped = {} /\ Bootstrapping = {} /\ \A o : Signing(o) = {}
    BY <1>2 DEF Bootstrapped, Bootstrapping, Signing
  <1>4. IsFiniteSet({}) /\ Cardinality({}) = 0 /\ Cardinality(Req) \in Nat
    BY FS_EmptySet, Counting
  <1>5. BootstrapInv
    BY <1>3, <1>4 DEF BootstrapInv, BootstrapBounded
  <1>6. ImpersonationLogged
    BY <1>3, <1>4 DEF ImpersonationLogged, Init
  <1>7. QED
    BY <1>1, <1>2, <1>5, <1>6 DEF Inv, OrganizationsComplete, LateWritesBounded, AdminRemains, TrialsDated

LEMMA NextInv == Inv /\ [Next]_vars => Inv'
  <1> SUFFICES ASSUME Inv, [Next]_vars PROVE Inv'
    OBVIOUS
  <1>1. TypeOK' /\ OrganizationsComplete'
    BY NextTypes, CompleteStays DEF Inv
  <1>2. LateWritesBounded' /\ BootstrapInv'
    BY WritesStay, BootstrapStays DEF Inv
  <1>3. AdminRemains' /\ ImpersonationLogged' /\ TrialsDated'
    BY AdminsStay, LogStays, TrialsStay DEF Inv
  <1>4. QED
    BY <1>1, <1>2, <1>3 DEF Inv

LEMMA Invariance == Spec => []Inv
  BY InitInv, NextInv, PTL DEF Spec

\* For any organizations, users and requests, an organization has an
\* administrator's account from the moment it exists.
THEOREM OrganizationsAreComplete == Spec => []OrganizationsComplete
  <1>1. Inv => OrganizationsComplete
    BY DEF Inv
  <1>2. QED
    BY <1>1, Invariance, PTL

\* For any number of requests at a time, no more of them write after an
\* organization's suspension than had passed the check before it.
THEOREM LateWritesAreBounded == Spec => []LateWritesBounded
  <1>1. Inv => LateWritesBounded
    BY DEF Inv
  <1>2. QED
    BY <1>1, Invariance, PTL

\* For any number of requests at a time, no more organizations are created by
\* first registrations than there can be requests at a time.
THEOREM FirstRegistrationsAreBounded == Spec => []BootstrapBounded
  <1>1. Inv => BootstrapBounded
    BY DEF Inv, BootstrapInv
  <1>2. QED
    BY <1>1, Invariance, PTL

\* For any organizations and users, an organization keeps an active
\* administrator unless a disabled user disabled another.
THEOREM AnAdminRemains == Spec => []AdminRemains
  <1>1. Inv => AdminRemains
    BY DEF Inv
  <1>2. QED
    BY <1>1, Invariance, PTL

\* For any number of impersonations under way, and whichever fail, every token
\* has its row in the log.
THEOREM ImpersonationsAreLogged == Spec => []ImpersonationLogged
  <1>1. Inv => ImpersonationLogged
    BY DEF Inv
  <1>2. QED
    BY <1>1, Invariance, PTL

\* For any organizations, a trial has its last day unless a change of the plan
\* made it a trial.
THEOREM TrialsHaveDates == Spec => []TrialsDated
  <1>1. Inv => TrialsDated
    BY DEF Inv
  <1>2. QED
    BY <1>1, Invariance, PTL
=============================================================================
