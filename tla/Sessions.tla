------------------------------ MODULE Sessions ------------------------------
(***************************************************************************)
(* Login sessions: login, refresh with rotation of the refresh token,      *)
(* logout, and the disabling of users, whose two updates are transactions  *)
(* of their own.  A login or a refresh decides on the row it read and      *)
(* writes later; other calls run in between, and a process may end.        *)
(*                                                                         *)
(* A refresh token is a signature of its session and the second it was     *)
(* signed in, so two tokens of a session signed in one second are equal.   *)
(***************************************************************************)
EXTENDS Naturals

CONSTANTS
    User, Session,
    Request,        \* calls that can be under way at a time
    Ttl,            \* seconds a refresh token is valid
    MaxTime,        \* bound: the clock stops here
    Faults          \* processes may end and answers may be lost

ASSUME TimeAssumption == Ttl \in Nat /\ MaxTime \in Nat
ASSUME FaultsAssumption == Faults \in BOOLEAN

VARIABLES
    clock,
    active,     \* users.is_active
    sessions,   \* user_sessions: the rows there are
    given,      \* the refresh tokens clients got
    calls,      \* the calls under way
    late,       \* sessions inserted while their user was disabled
    torn        \* users whose disabling ended after its first update

vars == <<clock, active, sessions, given, calls, late, torn>>

Token == [session : Session, at : 0..MaxTime]
Row == [user : User, token : Token, revoked : BOOLEAN]
Idle == [step |-> "idle"]
Call ==
    {Idle} \cup [step : {"login"}, user : User, since : 0..MaxTime]
           \cup [step : {"matched"}, token : Token, since : 0..MaxTime]
           \cup [step : {"mismatched"}, token : Token]
           \cup [step : {"disabling"}, user : User]

TypeOK ==
    /\ clock \in 0..MaxTime
    /\ active \in [User -> BOOLEAN]
    /\ DOMAIN sessions \subseteq Session /\ sessions \in [DOMAIN sessions -> Row]
    /\ given \subseteq Token
    /\ \A t \in given : t.session \in DOMAIN sessions
    /\ calls \in [Request -> Call]
    /\ \A r \in Request :
            calls[r].step \in {"matched", "mismatched"} => calls[r].token.session \in DOMAIN sessions
    /\ late \subseteq DOMAIN sessions /\ torn \subseteq User

Init ==
    /\ clock = 0
    /\ active = [u \in User |-> TRUE]
    /\ sessions = [s \in {} |-> Idle]
    /\ given = {}
    /\ calls = [r \in Request |-> Idle]
    /\ late = {} /\ torn = {}

------------------------------------------------------------------------------

\* verifyRefreshToken's and the session's expiry.
Valid(t) == clock < t.at + Ttl

Enters(r, call) == calls' = [calls EXCEPT ![r] = call]
Leaves(r) == Enters(r, Idle)

\* UPDATE ... SET revoked_at, and a mutated form that deletes the rows.
Deleted(which) == [s \in DOMAIN sessions \ which |-> sessions[s]]
Revoked(which) ==
    [s \in DOMAIN sessions |->
        [sessions[s] EXCEPT !.revoked = @ \/ s \in which]]
SessionsOf(u) == {s \in DOMAIN sessions : sessions[s].user = u}

\* The row after a rotation, and a mutated form that writes the row back as it
\* was read.
RotatedAsRead(row, t) == [row EXCEPT !.token = t, !.revoked = FALSE]
Rotated(row, t) == [row EXCEPT !.token = t]

\* The new token reaches the client, or the answer is lost.
Give(t) ==
    \/ given' = given \cup {t}
    \/ Faults /\ UNCHANGED given

Tick ==
    /\ clock < MaxTime
    /\ clock' = clock + 1
    /\ UNCHANGED <<active, sessions, given, calls, late, torn>>

\* The user is read; the password is verified afterwards.
LoginRead(r, u) ==
    /\ calls[r] = Idle
    /\ active[u]
    /\ Enters(r, [step |-> "login", user |-> u, since |-> clock])
    /\ UNCHANGED <<clock, active, sessions, given, late, torn>>

\* The tokens are signed and the session is inserted.
LoginInsert(r, s, at) ==
    LET u == calls[r].user
        t == [session |-> s, at |-> at]
    IN  /\ calls[r].step = "login"
        /\ s \notin DOMAIN sessions
        /\ at \in calls[r].since..clock
        /\ sessions' = [x \in DOMAIN sessions \cup {s} |->
                            IF x = s THEN [user |-> u, token |-> t, revoked |-> FALSE]
                                     ELSE sessions[x]]
        /\ late' = IF active[u] THEN late ELSE late \cup {s}
        /\ Give(t)
        /\ Leaves(r)
        /\ UNCHANGED <<clock, active, torn>>

\* The session is read and the presented token compared with it; a refused
\* refresh changes nothing.
RefreshRead(r, t) ==
    LET row == sessions[t.session]
    IN  /\ calls[r] = Idle
        /\ Valid(t)
        /\ active[row.user] /\ ~row.revoked /\ Valid(row.token)
        /\ \/ /\ t # row.token
              /\ Enters(r, [step |-> "mismatched", token |-> t])
           \/ /\ t = row.token
              /\ Enters(r, [step |-> "matched", token |-> t, since |-> clock])
        /\ UNCHANGED <<clock, active, sessions, given, late, torn>>

RefreshRevoke(r) ==
    /\ calls[r].step = "mismatched"
    /\ sessions' = Revoked({calls[r].token.session})
    /\ Leaves(r)
    /\ UNCHANGED <<clock, active, given, late, torn>>

\* The new token is signed and stored: the UPDATE looks at the id only.
RefreshRotate(r, at) ==
    LET old == calls[r].token
        new == [old EXCEPT !.at = at]
    IN  /\ calls[r].step = "matched"
        /\ at \in calls[r].since..clock
        /\ sessions' = [sessions EXCEPT ![old.session] = Rotated(@, new)]
        /\ Give(new)
        /\ Leaves(r)
        /\ UNCHANGED <<clock, active, late, torn>>

\* With a token its session is revoked, by its user or an admin.
Logout(t) ==
    /\ Valid(t)
    /\ sessions' = Revoked({t.session})
    /\ UNCHANGED <<clock, active, given, calls, late, torn>>

\* Without one all of the user's are; that the user was active was checked in
\* an earlier query.
LogoutAll(u) ==
    /\ sessions' = Revoked(SessionsOf(u))
    /\ UNCHANGED <<clock, active, given, calls, late, torn>>

\* updateUserStatus by an admin: the flag in one transaction, the sessions in
\* the next, and a mutated form that leaves the sessions to the flag.
DeactivateFlagOnly(r, u) ==
    /\ calls[r] = Idle
    /\ active' = [active EXCEPT ![u] = FALSE]
    /\ UNCHANGED <<clock, sessions, given, calls, late, torn>>
Deactivate(r, u) ==
    /\ calls[r] = Idle
    /\ active' = [active EXCEPT ![u] = FALSE]
    /\ Enters(r, [step |-> "disabling", user |-> u])
    /\ UNCHANGED <<clock, sessions, given, late, torn>>

RevokeSessions(r) ==
    LET u == calls[r].user
    IN  /\ calls[r].step = "disabling"
        /\ sessions' = Revoked(SessionsOf(u))
        /\ torn' = torn \ {u}
        /\ Leaves(r)
        /\ UNCHANGED <<clock, active, given, late>>

Reactivate(u) ==
    /\ active' = [active EXCEPT ![u] = TRUE]
    /\ UNCHANGED <<clock, sessions, given, calls, late, torn>>

\* The process ends or a query fails.
Crash(r) ==
    /\ Faults
    /\ calls[r] # Idle
    /\ Leaves(r)
    /\ torn' = IF calls[r].step = "disabling" THEN torn \cup {calls[r].user} ELSE torn
    /\ UNCHANGED <<clock, active, sessions, given, late>>

Next ==
    \/ Tick
    \/ \E r \in Request, u \in User : LoginRead(r, u) \/ Deactivate(r, u)
    \/ \E r \in Request, at \in 0..MaxTime :
            RefreshRotate(r, at) \/ \E s \in Session : LoginInsert(r, s, at)
    \/ \E r \in Request, t \in given : RefreshRead(r, t)
    \/ \E r \in Request : RefreshRevoke(r) \/ RevokeSessions(r) \/ Crash(r)
    \/ \E t \in given : Logout(t)
    \/ \E u \in User : LogoutAll(u) \/ Reactivate(u)

Spec == Init /\ [][Next]_vars

------------------------------------------------------------------------------
\* Properties

\* A revoked session never comes back and no session disappears, whatever
\* refresh was under way when it was revoked (the rotation's UPDATE does not
\* look at revoked_at).
RevocationFinal ==
    [][\A s \in DOMAIN sessions :
            /\ s \in DOMAIN sessions'
            /\ sessions[s].revoked => sessions'[s].revoked]_vars

\* Disabling a user ends the sessions, so that enabling the user again does not
\* bring them back: while a user is disabled and no disabling is under way or
\* was cut short, the only sessions left are those of logins that had read the
\* user before (updateUserStatus sets the flag first and revokes next, with
\* logins and refreshes in between).
DisabledIsClean ==
    \A s \in DOMAIN sessions :
        LET u == sessions[s].user
        IN  (/\ ~active[u] /\ u \notin torn
             /\ \A r \in Request : calls[r] # [step |-> "disabling", user |-> u])
            => sessions[s].revoked \/ s \in late
=============================================================================
