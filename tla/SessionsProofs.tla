--------------------------- MODULE SessionsProofs ----------------------------
(***************************************************************************)
(* Proofs about the sessions, for every set of users, sessions and calls,  *)
(* every token lifetime and every clock bound, with every fault the model  *)
(* has.                                                                    *)
(***************************************************************************)
EXTENDS Sessions, TLAPS

\* Revoking keeps the rows and their other fields, and revokes what it names.
LEMMA RevokedRows ==
    ASSUME TypeOK, NEW which
    PROVE  /\ DOMAIN Revoked(which) = DOMAIN sessions
           /\ \A s \in DOMAIN sessions :
                 /\ Revoked(which)[s] \in Row
                 /\ Revoked(which)[s].user = sessions[s].user
                 /\ sessions[s].revoked \/ s \in which => Revoked(which)[s].revoked
  <1>1. \A s \in DOMAIN sessions : sessions[s] \in Row
    BY DEF TypeOK
  <1>2. DOMAIN Revoked(which) = DOMAIN sessions
    BY DEF Revoked
  <1>3. ASSUME NEW s \in DOMAIN sessions
        PROVE  /\ Revoked(which)[s] \in Row
               /\ Revoked(which)[s].user = sessions[s].user
               /\ sessions[s].revoked \/ s \in which => Revoked(which)[s].revoked
    <2>1. Revoked(which)[s] = [sessions[s] EXCEPT !.revoked = @ \/ s \in which]
      BY DEF Revoked
    <2>2. sessions[s] \in Row /\ (sessions[s].revoked \/ s \in which) \in BOOLEAN
      BY <1>1 DEF Row
    <2>3. QED
      BY <2>1, <2>2 DEF Row
  <1>4. QED
    BY <1>2, <1>3

\* A step that revokes sessions and hands out nothing keeps the rows' types.
LEMMA RevokingKeepsTypes ==
    ASSUME TypeOK, NEW which, sessions' = Revoked(which),
           UNCHANGED <<clock, active, given, late>>,
           calls' \in [Request -> Call], torn' \subseteq User,
           \A r \in Request : calls'[r] = calls[r] \/ calls'[r] = Idle
    PROVE  TypeOK'
  <1>1. DOMAIN sessions' = DOMAIN sessions /\ sessions' \in [DOMAIN sessions' -> Row]
    <2>1. \A s \in DOMAIN sessions' : sessions'[s] \in Row
      BY RevokedRows
    <2>2. sessions' = [s \in DOMAIN sessions' |-> sessions'[s]]
      BY DEF Revoked
    <2>3. QED
      BY <2>1, <2>2, RevokedRows
  <1>2. QED
    BY <1>1 DEF TypeOK, Idle

\* Every step keeps the state well typed.
LEMMA StepTypes ==
    ASSUME TypeOK, [Next]_vars
    PROVE  TypeOK'
  <1> USE TimeAssumption DEF Enters, Leaves
  <1>1. Idle \in Call
    BY DEF Call
  <1>2. CASE Tick
    BY <1>2 DEF Tick, TypeOK
  <1>3. ASSUME NEW r \in Request, NEW u \in User, LoginRead(r, u)
        PROVE  TypeOK'
    <2>1. [step |-> "login", user |-> u, since |-> clock] \in Call
      BY DEF TypeOK, Call
    <2>2. QED
      BY <1>3, <2>1 DEF LoginRead, TypeOK
  <1>4. ASSUME NEW r \in Request, NEW u \in User, Deactivate(r, u)
        PROVE  TypeOK'
    <2>1. [step |-> "disabling", user |-> u] \in Call
      BY DEF Call
    <2>2. QED
      BY <1>4, <2>1 DEF Deactivate, TypeOK
  <1>5. ASSUME NEW r \in Request, NEW at \in 0..MaxTime, RefreshRotate(r, at)
        PROVE  TypeOK'
    <2> DEFINE old == calls[r].token
    <2>1. calls[r] \in Call /\ calls[r].step = "matched"
      BY <1>5 DEF RefreshRotate, TypeOK
    <2>2. old \in Token /\ old.session \in DOMAIN sessions
      BY <2>1, <1>5 DEF Call, Idle, TypeOK
    <2>3. PICK new : new = [old EXCEPT !.at = at]
      OBVIOUS
    <2>4. new \in Token /\ new.session = old.session
      BY <2>2, <2>3 DEF Token
    <2>5. [sessions[old.session] EXCEPT !.token = new] \in Row
      BY <2>2, <2>4 DEF TypeOK, Row
    <2>6. /\ sessions' = [sessions EXCEPT ![old.session] = [sessions[old.session] EXCEPT !.token = new]]
          /\ calls' = [calls EXCEPT ![r] = Idle]
          /\ given' = given \cup {new} \/ given' = given
          /\ UNCHANGED <<clock, active, late, torn>>
      BY <1>5, <2>3 DEF RefreshRotate, Rotated, Give
    <2>7. DOMAIN sessions' = DOMAIN sessions /\ sessions' \in [DOMAIN sessions -> Row]
      BY <2>2, <2>5, <2>6 DEF TypeOK
    <2>8. calls' \in [Request -> Call] /\ \A q \in Request : calls'[q] = calls[q] \/ calls'[q] = Idle
      BY <1>1, <2>6 DEF TypeOK
    <2>9. given' \subseteq Token /\ \A t \in given' : t.session \in DOMAIN sessions
      BY <2>2, <2>4, <2>6 DEF TypeOK
    <2>10. QED
      BY <2>6, <2>7, <2>8, <2>9 DEF TypeOK, Idle
  <1>6. ASSUME NEW r \in Request, NEW at \in 0..MaxTime, NEW s \in Session, LoginInsert(r, s, at)
        PROVE  TypeOK'
    <2> DEFINE u == calls[r].user
               t == [session |-> s, at |-> at]
               row == [user |-> u, token |-> t, revoked |-> FALSE]
    <2>1. calls[r] \in Call /\ calls[r].step = "login"
      BY <1>6 DEF LoginInsert, TypeOK
    <2>2. u \in User /\ t \in Token /\ row \in Row
      BY <2>1 DEF Call, Idle, Token, Row
    <2>3. /\ sessions' = [x \in DOMAIN sessions \cup {s} |-> IF x = s THEN row ELSE sessions[x]]
          /\ calls' = [calls EXCEPT ![r] = Idle]
          /\ late' = late \/ late' = late \cup {s}
          /\ given' = given \cup {t} \/ given' = given
          /\ UNCHANGED <<clock, active, torn>>
      BY <1>6 DEF LoginInsert, Give
    <2>4. DOMAIN sessions' = DOMAIN sessions \cup {s} /\ sessions' \in [DOMAIN sessions' -> Row]
      BY <2>2, <2>3 DEF TypeOK
    <2>5. calls' \in [Request -> Call] /\ \A q \in Request : calls'[q] = calls[q] \/ calls'[q] = Idle
      BY <1>1, <2>3 DEF TypeOK
    <2>6. given' \subseteq Token /\ \A x \in given' : x.session \in DOMAIN sessions'
      BY <2>2, <2>3, <2>4 DEF TypeOK
    <2>7. QED
      BY <2>3, <2>4, <2>5, <2>6 DEF TypeOK, Idle
  <1>7. ASSUME NEW r \in Request, NEW t \in given, RefreshRead(r, t)
        PROVE  TypeOK'
    <2>1. t \in Token /\ t.session \in DOMAIN sessions
      BY DEF TypeOK
    <2>2. /\ [step |-> "mismatched", token |-> t] \in Call
          /\ [step |-> "matched", token |-> t, since |-> clock] \in Call
      BY <2>1 DEF TypeOK, Call
    <2>3. QED
      BY <1>7, <2>1, <2>2 DEF RefreshRead, TypeOK
  <1>8. ASSUME NEW r \in Request, RefreshRevoke(r)
        PROVE  TypeOK'
    BY <1>1, <1>8, RevokingKeepsTypes DEF RefreshRevoke, TypeOK
  <1>9. ASSUME NEW r \in Request, RevokeSessions(r)
        PROVE  TypeOK'
    <2>1. torn' \subseteq User /\ calls' = [calls EXCEPT ![r] = Idle]
      BY <1>9 DEF RevokeSessions, TypeOK
    <2>2. QED
      BY <1>1, <1>9, <2>1, RevokingKeepsTypes DEF RevokeSessions, TypeOK
  <1>10. ASSUME NEW r \in Request, Crash(r)
         PROVE  TypeOK'
    <2>1. calls[r].step = "disabling" => calls[r].user \in User
      BY DEF TypeOK, Call, Idle
    <2>2. QED
      BY <1>1, <1>10, <2>1 DEF Crash, TypeOK, Idle
  <1>11. ASSUME NEW t \in given, Logout(t)
         PROVE  TypeOK'
    BY <1>11, RevokingKeepsTypes DEF Logout, TypeOK
  <1>12. ASSUME NEW u \in User, LogoutAll(u)
         PROVE  TypeOK'
    BY <1>12, RevokingKeepsTypes DEF LogoutAll, TypeOK
  <1>13. ASSUME NEW u \in User, Reactivate(u)
         PROVE  TypeOK'
    BY <1>13 DEF Reactivate, TypeOK
  <1>14. CASE UNCHANGED vars
    BY <1>14 DEF vars, TypeOK
  <1>15. QED
    BY <1>2, <1>3, <1>4, <1>5, <1>6, <1>7, <1>8, <1>9, <1>10, <1>11, <1>12, <1>13, <1>14 DEF Next

\* The first state is well typed.
LEMMA InitTypes == Init => TypeOK
  <1> SUFFICES ASSUME Init PROVE TypeOK
    OBVIOUS
  <1>1. DOMAIN sessions = {} /\ sessions \in [DOMAIN sessions -> Row]
    BY DEF Init
  <1>2. Idle \in Call /\ Idle.step = "idle"
    BY DEF Call, Idle
  <1>3. calls \in [Request -> Call] /\ \A r \in Request : calls[r].step = "idle"
    BY <1>2 DEF Init
  <1>4. clock \in 0..MaxTime
    BY TimeAssumption DEF Init
  <1>5. active \in [User -> BOOLEAN]
    BY DEF Init
  <1>6. DOMAIN sessions \subseteq Session /\ given = {} /\ late = {} /\ torn = {}
    BY <1>1 DEF Init
  <1>7. QED
    BY <1>1, <1>3, <1>4, <1>5, <1>6 DEF TypeOK

\* Users, session rows, tokens and the calls under way are well typed.
THEOREM TypeCorrect == Spec => []TypeOK
  <1>1. TypeOK /\ [Next]_vars => TypeOK'
    BY StepTypes
  <1>2. QED
    BY InitTypes, <1>1, PTL DEF Spec

------------------------------------------------------------------------------

\* A step that changes no user, ends no disabling unrecorded and keeps every
\* row's user and revocation leaves disabled users clean.
LEMMA QuietStep ==
    ASSUME TypeOK, DisabledIsClean, UNCHANGED active, torn \subseteq torn', late \subseteq late',
           DOMAIN sessions' = DOMAIN sessions,
           \A s \in DOMAIN sessions :
                /\ sessions'[s].user = sessions[s].user
                /\ sessions[s].revoked => sessions'[s].revoked,
           \A r \in Request, u \in User \ torn' :
                calls[r] = [step |-> "disabling", user |-> u] =>
                    calls'[r] = [step |-> "disabling", user |-> u]
    PROVE  DisabledIsClean'
  <1> SUFFICES ASSUME NEW s \in DOMAIN sessions', NEW u \in User,
                      u = sessions[s].user, ~active[u], u \notin torn',
                      \A r \in Request : calls'[r] # [step |-> "disabling", user |-> u]
               PROVE  sessions'[s].revoked \/ s \in late'
    <2>1. \A s \in DOMAIN sessions : sessions[s].user \in User
      BY DEF TypeOK, Row
    <2>2. QED
      BY <2>1 DEF DisabledIsClean
  <1>1. \A r \in Request : calls[r] # [step |-> "disabling", user |-> u]
    OBVIOUS
  <1>2. sessions[s].revoked \/ s \in late
    BY <1>1 DEF DisabledIsClean
  <1>3. QED
    BY <1>2

\* Every step leaves disabled users clean.
LEMMA StepClean ==
    ASSUME TypeOK, DisabledIsClean, [Next]_vars
    PROVE  DisabledIsClean'
  <1> USE DEF Enters, Leaves
  <1>1. CASE Tick
    BY <1>1, QuietStep DEF Tick
  <1>2. ASSUME NEW r \in Request, NEW u \in User, LoginRead(r, u)
        PROVE  DisabledIsClean'
    BY <1>2, QuietStep DEF LoginRead, Idle, TypeOK
  <1>3. ASSUME NEW r \in Request, NEW u \in User, Deactivate(r, u)
        PROVE  DisabledIsClean'
    <2>1. calls'[r] = [step |-> "disabling", user |-> u]
      BY <1>3 DEF Deactivate, TypeOK
    <2>2. \A q \in Request : q # r => calls'[q] = calls[q]
      BY <1>3 DEF Deactivate, TypeOK
    <2>3. calls[r] = Idle
      BY <1>3 DEF Deactivate
    <2>4. ASSUME NEW s \in DOMAIN sessions, sessions[s].user # u, ~active'[sessions[s].user],
                 sessions[s].user \notin torn,
                 \A q \in Request : calls'[q] # [step |-> "disabling", user |-> sessions[s].user]
          PROVE  sessions[s].revoked \/ s \in late
      <3>1. ~active[sessions[s].user]
        BY <1>3, <2>4 DEF Deactivate, TypeOK, Row
      <3>2. \A q \in Request : calls[q] # [step |-> "disabling", user |-> sessions[s].user]
        BY <2>2, <2>3, <2>4 DEF Idle
      <3>3. QED
        BY <2>4, <3>1, <3>2 DEF DisabledIsClean
    <2>5. UNCHANGED <<sessions, late, torn>>
      BY <1>3 DEF Deactivate
    <2>6. QED
      BY <2>1, <2>4, <2>5 DEF DisabledIsClean
  <1>4. ASSUME NEW r \in Request, NEW at \in 0..MaxTime, RefreshRotate(r, at)
        PROVE  DisabledIsClean'
    <2>1. calls[r].step = "matched" /\ calls' = [calls EXCEPT ![r] = Idle]
      BY <1>4 DEF RefreshRotate
    <2>2. PICK new : sessions' = [sessions EXCEPT ![calls[r].token.session] = [@ EXCEPT !.token = new]]
      BY <1>4 DEF RefreshRotate, Rotated
    <2>3. \A s \in DOMAIN sessions :
              sessions'[s].user = sessions[s].user /\ sessions'[s].revoked = sessions[s].revoked
      BY <2>2 DEF TypeOK, Row
    <2>4. DOMAIN sessions' = DOMAIN sessions
      BY <2>2
    <2>5. \A q \in Request, u \in User :
              calls[q] = [step |-> "disabling", user |-> u] => calls'[q] = calls[q]
      BY <2>1 DEF TypeOK
    <2>6. UNCHANGED <<active, torn, late>>
      BY <1>4 DEF RefreshRotate
    <2>7. QED
      BY <2>3, <2>4, <2>5, <2>6, QuietStep
  <1>5. ASSUME NEW r \in Request, NEW at \in 0..MaxTime, NEW s \in Session, LoginInsert(r, s, at)
        PROVE  DisabledIsClean'
    <2> DEFINE u == calls[r].user
    <2>1. /\ calls[r].step = "login" /\ s \notin DOMAIN sessions
          /\ calls' = [calls EXCEPT ![r] = Idle]
          /\ late' = IF active[u] THEN late ELSE late \cup {s}
          /\ UNCHANGED <<active, torn>>
      BY <1>5 DEF LoginInsert
    <2>2. /\ DOMAIN sessions' = DOMAIN sessions \cup {s}
          /\ sessions'[s].user = u
          /\ \A x \in DOMAIN sessions : sessions'[x] = sessions[x]
      BY <1>5 DEF LoginInsert
    <2>3. ~active'[sessions'[s].user] => s \in late'
      BY <2>1, <2>2
    <2>4. \A q \in Request, v \in User :
              calls[q] = [step |-> "disabling", user |-> v] => calls'[q] = calls[q]
      BY <2>1 DEF TypeOK
    <2>5. ASSUME NEW x \in DOMAIN sessions, ~active'[sessions'[x].user],
                 sessions'[x].user \notin torn',
                 \A q \in Request : calls'[q] # [step |-> "disabling", user |-> sessions'[x].user]
          PROVE  sessions'[x].revoked \/ x \in late'
      <3>1. sessions[x].user \in User
        BY DEF TypeOK, Row
      <3>2. \A q \in Request : calls[q] # [step |-> "disabling", user |-> sessions[x].user]
        BY <2>2, <2>4, <2>5, <3>1
      <3>3. sessions[x].revoked \/ x \in late
        BY <2>1, <2>2, <2>5, <3>2 DEF DisabledIsClean
      <3>4. QED
        BY <2>1, <2>2, <3>3
    <2>6. QED
      BY <2>2, <2>3, <2>5 DEF DisabledIsClean
  <1>6. ASSUME NEW r \in Request, NEW t \in given, RefreshRead(r, t)
        PROVE  DisabledIsClean'
    <2>1. \A q \in Request, u \in User :
              calls[q] = [step |-> "disabling", user |-> u] => calls'[q] = calls[q]
      BY <1>6 DEF RefreshRead, Idle, TypeOK
    <2>2. UNCHANGED <<active, sessions, torn, late>>
      BY <1>6 DEF RefreshRead
    <2>3. QED
      BY <2>1, <2>2, QuietStep
  <1>7. ASSUME NEW r \in Request, RefreshRevoke(r)
        PROVE  DisabledIsClean'
    <2>1. \A q \in Request, u \in User :
              calls[q] = [step |-> "disabling", user |-> u] => calls'[q] = calls[q]
      BY <1>7 DEF RefreshRevoke, TypeOK
    <2>2. QED
      BY <1>7, <2>1, QuietStep, RevokedRows DEF RefreshRevoke
  <1>8. ASSUME NEW r \in Request, RevokeSessions(r)
        PROVE  DisabledIsClean'
    <2> DEFINE u == calls[r].user
    <2>1. /\ calls' = [calls EXCEPT ![r] = Idle]
          /\ sessions' = Revoked(SessionsOf(u)) /\ torn' = torn \ {u}
          /\ UNCHANGED <<active, late>>
      BY <1>8 DEF RevokeSessions
    <2>2. /\ DOMAIN sessions' = DOMAIN sessions
          /\ \A s \in DOMAIN sessions :
                /\ sessions'[s].user = sessions[s].user
                /\ sessions[s].revoked \/ s \in SessionsOf(u) => sessions'[s].revoked
      BY <2>1, RevokedRows
    <2>3. ASSUME NEW s \in DOMAIN sessions, sessions[s].user = u
          PROVE  sessions'[s].revoked
      BY <2>2, <2>3 DEF SessionsOf
    <2>4. ASSUME NEW s \in DOMAIN sessions, sessions[s].user # u, ~active[sessions[s].user],
                 sessions[s].user \notin torn,
                 \A q \in Request : calls'[q] # [step |-> "disabling", user |-> sessions[s].user]
          PROVE  sessions'[s].revoked \/ s \in late
      <3>1. calls[r] # [step |-> "disabling", user |-> sessions[s].user]
        BY <2>4
      <3>2. \A q \in Request : q # r => calls'[q] = calls[q]
        BY <2>1 DEF TypeOK
      <3>3. sessions[s].revoked \/ s \in late
        BY <2>4, <3>1, <3>2 DEF DisabledIsClean
      <3>4. QED
        BY <2>2, <3>3
    <2>5. QED
      BY <2>1, <2>2, <2>3, <2>4 DEF DisabledIsClean
  <1>9. ASSUME NEW r \in Request, Crash(r)
        PROVE  DisabledIsClean'
    <2>1. \A q \in Request, u \in User \ torn' :
              calls[q] = [step |-> "disabling", user |-> u] => calls'[q] = calls[q]
      BY <1>9 DEF Crash, TypeOK
    <2>2. UNCHANGED <<active, sessions, late>> /\ torn \subseteq torn'
      BY <1>9 DEF Crash
    <2>3. QED
      BY <2>1, <2>2, QuietStep
  <1>10. ASSUME NEW t \in given, Logout(t)
         PROVE  DisabledIsClean'
    BY <1>10, QuietStep, RevokedRows DEF Logout
  <1>11. ASSUME NEW u \in User, LogoutAll(u)
         PROVE  DisabledIsClean'
    BY <1>11, QuietStep, RevokedRows DEF LogoutAll
  <1>12. ASSUME NEW u \in User, Reactivate(u)
         PROVE  DisabledIsClean'
    <2>1. \A v \in User : ~active'[v] => ~active[v]
      BY <1>12 DEF Reactivate, TypeOK
    <2>2. \A s \in DOMAIN sessions : sessions[s].user \in User
      BY DEF TypeOK, Row
    <2>3. UNCHANGED <<sessions, calls, late, torn>>
      BY <1>12 DEF Reactivate
    <2>4. QED
      BY <2>1, <2>2, <2>3 DEF DisabledIsClean
  <1>13. CASE UNCHANGED vars
    BY <1>13 DEF vars, DisabledIsClean
  <1>14. QED
    BY <1>1, <1>2, <1>3, <1>4, <1>5, <1>6, <1>7, <1>8, <1>9, <1>10, <1>11, <1>12, <1>13 DEF Next

\* Disabling a user leaves no session usable but those of logins that had read
\* the user before, so enabling the user again brings back no other.
THEOREM DisablingIsClean == Spec => []DisabledIsClean
  <1>1. Init => TypeOK /\ DisabledIsClean
    <2>1. Init => DisabledIsClean
      BY DEF Init, DisabledIsClean
    <2>2. Init => TypeOK
      BY InitTypes
    <2>3. QED
      BY <2>1, <2>2
  <1>2. TypeOK /\ DisabledIsClean /\ [Next]_vars => (TypeOK /\ DisabledIsClean)'
    BY StepTypes, StepClean
  <1>3. QED
    BY <1>1, <1>2, PTL DEF Spec

\* A revoked session never comes back, whatever refresh was under way.
THEOREM RevocationIsFinal == Spec => RevocationFinal
  <1>1. ASSUME TypeOK, [Next]_vars, NEW s \in DOMAIN sessions
        PROVE  s \in DOMAIN sessions' /\ (sessions[s].revoked => sessions'[s].revoked)
    <2>1. ASSUME NEW which, sessions' = Revoked(which)
          PROVE  s \in DOMAIN sessions' /\ (sessions[s].revoked => sessions'[s].revoked)
      BY <1>1, <2>1, RevokedRows
    <2>2. ASSUME NEW r \in Request, NEW at \in 0..MaxTime, RefreshRotate(r, at)
          PROVE  s \in DOMAIN sessions' /\ sessions'[s].revoked = sessions[s].revoked
      BY <1>1, <2>2 DEF RefreshRotate, Rotated, TypeOK, Row
    <2>3. ASSUME NEW r \in Request, NEW at \in 0..MaxTime, NEW x \in Session, LoginInsert(r, x, at)
          PROVE  s \in DOMAIN sessions' /\ sessions'[s] = sessions[s]
      BY <2>3 DEF LoginInsert
    <2>4. CASE UNCHANGED sessions
      BY <2>4
    <2>5. QED
      BY <1>1, <2>1, <2>2, <2>3, <2>4
      DEF Next, vars, Tick, LoginRead, Deactivate, RefreshRead, RefreshRevoke, RevokeSessions,
          Crash, Logout, LogoutAll, Reactivate
  <1>2. TypeOK /\ [Next]_vars =>
            [\A s \in DOMAIN sessions :
                /\ s \in DOMAIN sessions'
                /\ sessions[s].revoked => sessions'[s].revoked]_vars
    BY <1>1
  <1>3. QED
    BY TypeCorrect, <1>2, PTL DEF Spec, RevocationFinal
=============================================================================
