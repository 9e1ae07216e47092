------------------------- MODULE IdempotencyProofs --------------------------
(***************************************************************************)
(* Proofs about the idempotency middleware, for every set of requests,     *)
(* keys and payloads, with every fault the model has, as long as a row     *)
(* does not expire under a running request.                                *)
(***************************************************************************)
EXTENDS Idempotency, FiniteSetTheorems, TLAPS

\* A request between its claim and its end has the row of its key, live and
\* still processing; one that was refused the row finds one.
Owned ==
    \A r \in Req :
        /\ pc[r] = "lookup" => KeyOf(r) \in DOMAIN rows
        /\ Running(r) =>
              /\ KeyOf(r) \in DOMAIN rows
              /\ rows[KeyOf(r)].status = "processing"
              /\ rows[KeyOf(r)].payload = sent[r].payload
              /\ ~rows[KeyOf(r)].expired

\* Nobody shares it.
OneOwner ==
    \A q, r \in Req : Running(q) /\ Running(r) /\ KeyOf(q) = KeyOf(r) => q = r

\* Nothing has taken effect for a free key or until the owner's call has run,
\* and then that call.
OneEffect ==
    /\ \A k \in Key : Free(k) => effects[k] = {}
    /\ \A r \in Req : pc[r] = "handler" => effects[KeyOf(r)] = {}
    /\ \A k \in Key : effects[k] = {} \/ \E r \in Req : effects[k] = {r}

\* The result of a request that has ended is its own and does not change, and
\* that is what rows and replays give.
OwnResult ==
    \A r \in Req : pc[r] \in {"respond", "finish"} => result[r] \in Result /\ result[r].by = r

Gave(results, places, response, request) ==
    /\ response \in Result
    /\ response = results[response.by]
    /\ sent[response.by] = request
    /\ places[response.by] \in {"finish", "done", "lost"}

StoredTrue ==
    \A k \in DOMAIN rows :
        rows[k].status # "processing" => 
            Gave(result, pc, rows[k].response, [key |-> k, payload |-> rows[k].payload])

ReplayTrue ==
    \A r \in Req :
        (answer[r] # Nothing /\ answer[r].kind = "replay") =>
            Gave(result, pc, answer[r].response, sent[r])

Inv == TypeOK /\ Owned /\ OneOwner /\ OneEffect /\ OwnResult /\ StoredTrue /\ ReplayTrue

------------------------------------------------------------------------------

\* The invariant holds before any request has arrived.
LEMMA InitInv == Init => Inv
  BY NothingAssumption
  DEF Init, Inv, TypeOK, Owned, OneOwner, OneEffect, Free, OwnResult, StoredTrue, ReplayTrue, Running

\* Every step keeps the invariant while rows outlive their requests.
LEMMA StepInv ==
    ASSUME OutlivesRequests, Inv, [Next]_vars
    PROVE  Inv'
  <1> USE DEF Inv, KeyOf, Goto, Running
  <1>1. ASSUME NEW r \in Req, Arrive(r) PROVE Inv'
    <2>1. TypeOK'
      BY <1>1 DEF Arrive, TypeOK
    <2>2. Owned' /\ OneOwner' /\ OneEffect' /\ OwnResult'
      BY <1>1 DEF Arrive, TypeOK, Owned, OneOwner, OneEffect, Free, OwnResult
    <2>3. StoredTrue' /\ ReplayTrue'
      BY <1>1 DEF Arrive, TypeOK, StoredTrue, ReplayTrue, Gave, Result, Row
    <2>4. QED
      BY <2>1, <2>2, <2>3
  <1>2. ASSUME NEW r \in Req, Claim(r) PROVE Inv'
    <2> DEFINE k == KeyOf(r)
    <2>1. CASE Free(k) /\ pc' = [pc EXCEPT ![r] = "handler"]
      <3>1. /\ pc[r] = "claim" /\ k \in Key
            /\ rows' = [j \in DOMAIN rows \cup {k} |-> IF j = k THEN Claimed(r) ELSE rows[j]]
            /\ UNCHANGED <<sent, result, answer, effects>>
        BY <1>2, <2>1 DEF Claim, TypeOK
      <3>2. \A q \in Req : Running(q) => KeyOf(q) # k
        BY <2>1 DEF Owned, Free
      <3>3. Claimed(r) \in Row /\ Claimed(r).status = "processing"
            /\ ~Claimed(r).expired /\ Claimed(r).payload = sent[r].payload
        BY DEF Claimed, Row, TypeOK
      <3>4. TypeOK'
        BY <2>1, <3>1, <3>3 DEF TypeOK
      <3>5. Owned' /\ OneOwner'
        BY <2>1, <3>1, <3>2, <3>3 DEF TypeOK, Owned, OneOwner
      <3>6. OneEffect' /\ OwnResult'
        BY <2>1, <3>1, <3>2 DEF TypeOK, OneEffect, OwnResult, Free
      <3>7. StoredTrue' /\ ReplayTrue'
        BY <2>1, <3>1, <3>3 DEF TypeOK, StoredTrue, ReplayTrue, Gave, Result
      <3>8. QED
        BY <3>4, <3>5, <3>6, <3>7
    <2>2. CASE ~Free(k) /\ pc' = [pc EXCEPT ![r] = "lookup"] /\ UNCHANGED rows
      <3>1. /\ pc[r] = "claim" /\ k \in DOMAIN rows
            /\ UNCHANGED <<sent, result, answer, effects>>
        BY <1>2, <2>2 DEF Claim, Free
      <3>2. TypeOK'
        BY <2>2, <3>1 DEF TypeOK
      <3>3. Owned' /\ OneOwner' /\ OneEffect' /\ OwnResult'
        BY <2>2, <3>1 DEF TypeOK, Owned, OneOwner, OneEffect, Free, OwnResult
      <3>4. StoredTrue' /\ ReplayTrue'
        BY <2>2, <3>1 DEF TypeOK, StoredTrue, ReplayTrue, Gave, Result
      <3>5. QED
        BY <3>2, <3>3, <3>4
    <2>3. QED
      BY <1>2, <2>1, <2>2 DEF Claim
  <1>3. ASSUME NEW r \in Req, LookUp(r) PROVE Inv'
    <2> DEFINE k == KeyOf(r)
               row == rows[KeyOf(r)]
    <2>1. /\ pc[r] = "lookup" /\ pc' = [pc EXCEPT ![r] = "done"]
          /\ k \in DOMAIN rows /\ row \in Row /\ row \in Row
          /\ UNCHANGED <<rows, sent, result, effects>>
      BY <1>3 DEF LookUp, Owned, TypeOK
    <2>2. PICK a : /\ answer' = [answer EXCEPT ![r] = a]
                   /\ \/ a = [kind |-> "mismatch"] \/ a = [kind |-> "busy"]
                      \/ /\ row.payload = sent[r].payload /\ row.status # "processing"
                         /\ a = [kind |-> "replay", response |-> row.response]
      BY <1>3 DEF LookUp, Reply, SamePayload
    <2>3. a \in Answer /\ (a.kind = "replay" =>
                /\ row.payload = sent[r].payload /\ row.status # "processing"
                /\ a.response = row.response)
      BY <2>1, <2>2 DEF Row, Answer
    <2>4. TypeOK'
      BY <2>1, <2>2, <2>3 DEF TypeOK
    <2>5. Owned' /\ OneOwner' /\ OneEffect' /\ OwnResult'
      BY <2>1 DEF TypeOK, Owned, OneOwner, OneEffect, Free, OwnResult
    <2>6. StoredTrue'
      BY <2>1 DEF TypeOK, StoredTrue, Gave, Result
    <2>7. ReplayTrue'
      <3> SUFFICES ASSUME NEW q \in Req, answer'[q] # Nothing, answer'[q].kind = "replay"
                   PROVE  Gave(result', pc', answer'[q].response, sent[q])
        BY <2>1 DEF ReplayTrue, Gave
      <3>1. CASE q = r
        <4>1. Gave(result, pc, answer'[q].response, sent[q])
          BY <2>1, <2>2, <2>3, <3>1 DEF TypeOK, StoredTrue
        <4>2. QED
          BY <4>1, <2>1 DEF TypeOK, Gave, Result
      <3>2. CASE q # r
        <4>1. Gave(result, pc, answer'[q].response, sent[q])
          BY <2>2, <3>2 DEF TypeOK, ReplayTrue
        <4>2. QED
          BY <4>1, <2>1 DEF TypeOK, Gave, Result
      <3>3. QED
        BY <3>1, <3>2
    <2>8. QED
      BY <2>4, <2>5, <2>6, <2>7
  <1>4. ASSUME NEW r \in Req, Handle(r) PROVE Inv'
    <2>1. PICK code \in {200, 400, 500}, body \in {"object", "list"}, effect \in {{}, {r}} :
            /\ code = 200 => effect = {r}
            /\ code = 400 => effect = {}
            /\ code # 200 => body = "object"
            /\ result' = [result EXCEPT ![r] = [by |-> r, code |-> code, body |-> body]]
            /\ effects' = [effects EXCEPT ![KeyOf(r)] = @ \cup effect]
      BY <1>4 DEF Handle
    <2> DEFINE k == KeyOf(r)
    <2>2. /\ pc[r] = "handler" /\ pc' = [pc EXCEPT ![r] = "respond"] /\ k \in Key
          /\ UNCHANGED <<rows, sent, answer>>
      BY <1>4 DEF Handle, TypeOK
    <2>3. [by |-> r, code |-> code, body |-> body] \in Result
      BY DEF Result
    <2>4. TypeOK'
      BY <2>1, <2>2, <2>3 DEF TypeOK
    <2>5. Owned' /\ OneOwner' /\ OwnResult'
      BY <2>1, <2>2, <2>3 DEF TypeOK, Owned, OneOwner, OwnResult
    <2>6. /\ effects[k] = {} /\ ~Free(k)
          /\ \A q \in Req : q # r /\ pc[q] = "handler" => KeyOf(q) # k
      BY <2>2 DEF OneEffect, Free, OneOwner, Owned
    <2>7. OneEffect'
      <3>1. effects'[k] = effect /\ \A j \in Key : j # k => effects'[j] = effects[j]
        BY <2>1, <2>2, <2>6 DEF TypeOK
      <3>2. \A j \in Key : effects'[j] = {} \/ \E q \in Req : effects'[j] = {q}
        BY <3>1 DEF OneEffect
      <3>3. \A j \in Key : Free(j)' => effects'[j] = {}
        BY <2>2, <2>6, <3>1 DEF OneEffect, Free
      <3>4. \A q \in Req : pc'[q] = "handler" => effects'[KeyOf(q)'] = {}
        BY <2>2, <2>6, <3>1 DEF TypeOK, OneEffect
      <3>5. QED
        BY <3>2, <3>3, <3>4 DEF OneEffect
    <2>8. StoredTrue'
      BY <2>1, <2>2 DEF TypeOK, StoredTrue, Gave, Result
    <2>9. ReplayTrue'
      BY <2>1, <2>2 DEF TypeOK, ReplayTrue, Gave, Result
    <2>10. QED
      BY <2>4, <2>5, <2>7, <2>8, <2>9
  <1>5. ASSUME NEW r \in Req, Respond(r) PROVE Inv'
    <2>1. /\ pc[r] = "respond" /\ result[r] \in Result
          /\ pc' = [pc EXCEPT ![r] = "finish"] \/ pc' = [pc EXCEPT ![r] = "lost"]
          /\ UNCHANGED <<rows, sent, result, effects>>
          /\ \/ answer' = [answer EXCEPT ![r] = [kind |-> "own", response |-> result[r]]]
             \/ UNCHANGED answer
      BY <1>5 DEF Respond, Reply, OwnResult
    <2>2. [kind |-> "own", response |-> result[r]] \in Answer
      BY <2>1 DEF Answer
    <2>3. TypeOK'
      BY <2>1, <2>2 DEF TypeOK
    <2>4. Owned' /\ OneOwner'
      BY <2>1 DEF TypeOK, Owned, OneOwner
    <2>5. OneEffect' /\ OwnResult'
      BY <2>1 DEF TypeOK, OneEffect, Free, OwnResult
    <2>6. StoredTrue'
      BY <2>1 DEF TypeOK, StoredTrue, Gave, Result
    <2>7. ReplayTrue'
      <3> SUFFICES ASSUME NEW q \in Req, answer'[q] # Nothing, answer'[q].kind = "replay"
                   PROVE  Gave(result', pc', answer'[q].response, sent[q])
        BY <2>1 DEF ReplayTrue, Gave
      <3>1. answer'[q] = answer[q]
        BY <2>1 DEF TypeOK
      <3>2. QED
        BY <2>1, <3>1 DEF TypeOK, ReplayTrue, Gave, Result
    <2>8. QED
      BY <2>3, <2>4, <2>5, <2>6, <2>7
  <1>6. ASSUME NEW r \in Req, Finalise(r) PROVE Inv'
    <2> DEFINE k == KeyOf(r)
    <2>1. /\ pc[r] = "finish" /\ pc' = [pc EXCEPT ![r] = "done"] /\ k \in DOMAIN rows
          /\ rows[k] \in Row /\ rows[k].payload = sent[r].payload
          /\ UNCHANGED <<sent, result, answer, effects>>
          /\ result[r] \in Result /\ result[r].by = r
          /\ rows' = [rows EXCEPT ![k] = Settled(rows[k], r)] \/ UNCHANGED rows
      BY <1>6 DEF Finalise, Owned, OwnResult, TypeOK
    <2>2. /\ Settled(rows[k], r) \in Row
          /\ Settled(rows[k], r).response = result[r]
          /\ Settled(rows[k], r).payload = sent[r].payload
          /\ Settled(rows[k], r).expired = rows[k].expired
      BY <2>1 DEF Settled, Row
    <2>3. \A q \in Req : q # r /\ Running(q) => KeyOf(q) # k
      BY <2>1 DEF OneOwner
    <2>4. TypeOK'
      BY <2>1, <2>2 DEF TypeOK
    <2>5. Owned' /\ OneOwner'
      BY <2>1, <2>3 DEF TypeOK, Owned, OneOwner
    <2>6. OneEffect' /\ OwnResult'
      BY <2>1, <2>2 DEF TypeOK, OneEffect, Free, OwnResult
    <2>7. ReplayTrue'
      BY <2>1 DEF TypeOK, ReplayTrue, Gave, Result
    <2>8. StoredTrue'
      <3> SUFFICES ASSUME NEW j \in DOMAIN rows, rows'[j].status # "processing"
                   PROVE  Gave(result', pc', rows'[j].response, [key |-> j, payload |-> rows'[j].payload])
        BY <2>1 DEF StoredTrue, Gave
      <3>1. Gave(result', pc', result[r], sent[r]) /\ sent[r] = [key |-> k, payload |-> sent[r].payload]
        BY <2>1 DEF TypeOK, Gave
      <3>2. CASE rows'[j] = rows[j]
        BY <2>1, <3>2 DEF TypeOK, StoredTrue, Gave, Result
      <3>3. CASE j = k /\ rows'[j] = Settled(rows[k], r)
        BY <2>1, <2>2, <3>1, <3>3
      <3>4. QED
        BY <2>1, <3>2, <3>3
    <2>9. QED
      BY <2>4, <2>5, <2>6, <2>7, <2>8
  <1>7. ASSUME NEW r \in Req, Crash(r) PROVE Inv'
    <2>1. /\ pc[r] \in {"claim", "lookup", "handler", "respond", "finish"}
          /\ pc' = [pc EXCEPT ![r] = "lost"]
          /\ UNCHANGED <<rows, sent, result, answer, effects>>
      BY <1>7 DEF Crash
    <2>2. TypeOK' /\ Owned' /\ OneOwner' /\ OneEffect' /\ OwnResult'
      BY <2>1 DEF TypeOK, Owned, OneOwner, OneEffect, Free, OwnResult
    <2>3. StoredTrue' /\ ReplayTrue'
      BY <2>1 DEF TypeOK, StoredTrue, ReplayTrue, Gave, Result
    <2>4. QED
      BY <2>2, <2>3
  <1>8. ASSUME NEW k \in DOMAIN rows, Expire(k) PROVE Inv'
    <2>1. /\ rows' = [rows EXCEPT ![k].expired = TRUE] /\ rows[k] \in Row
          /\ \A r \in Req : KeyOf(r) = k => ~Running(r)
          /\ effects' = [effects EXCEPT ![k] = {}]
          /\ UNCHANGED <<sent, pc, result, answer>>
      BY <1>8 DEF Expire, TypeOK
    <2>2. /\ rows'[k] \in Row /\ DOMAIN rows' = DOMAIN rows
          /\ rows'[k].status = rows[k].status /\ rows'[k].payload = rows[k].payload
          /\ rows'[k].response = rows[k].response
      BY <2>1 DEF Row
    <2>3. TypeOK'
      BY <2>1, <2>2 DEF TypeOK
    <2>4. Owned' /\ OneOwner' /\ OneEffect' /\ OwnResult'
      BY <2>1, <2>2 DEF TypeOK, Owned, OneOwner, OneEffect, Free, OwnResult
    <2>5. StoredTrue' /\ ReplayTrue'
      BY <2>1, <2>2 DEF TypeOK, StoredTrue, ReplayTrue, Gave
    <2>6. QED
      BY <2>3, <2>4, <2>5
  <1>9. CASE UNCHANGED vars
    BY <1>9 DEF vars, TypeOK, Owned, OneOwner, OneEffect, Free, OwnResult, StoredTrue, ReplayTrue, Gave
  <1>10. QED
    BY <1>1, <1>2, <1>3, <1>4, <1>5, <1>6, <1>7, <1>8, <1>9 DEF Next

\* While rows outlive their requests every reachable state satisfies the
\* invariant.
LEMMA Invariance ==
    ASSUME OutlivesRequests
    PROVE  Spec => []Inv
  <1>1. Inv /\ [Next]_vars => Inv'
    BY StepInv
  <1>2. QED
    BY InitInv, <1>1, PTL DEF Spec

\* The middleware's rows, results and answers are well typed.
THEOREM TypeCorrect ==
    ASSUME OutlivesRequests
    PROVE  Spec => []TypeOK
  <1>1. Inv => TypeOK
    BY DEF Inv
  <1>2. QED
    BY Invariance, <1>1, PTL

\* However many requests repeat a call and however they fail, at most one of
\* them takes effect while the row of their key is live.
THEOREM NoDuplicateEffects ==
    ASSUME OutlivesRequests
    PROVE  Spec => []AtMostOnce
  <1>1. Inv => AtMostOnce
    <2> SUFFICES ASSUME Inv, NEW k \in Key PROVE Cardinality(effects[k]) <= 1
      BY DEF AtMostOnce
    <2>1. CASE effects[k] = {}
      BY <2>1, FS_EmptySet
    <2>2. CASE \E r \in Req : effects[k] = {r}
      BY <2>2, FS_Singleton
    <2>3. QED
      BY <2>1, <2>2 DEF Inv, OneEffect
  <1>2. QED
    BY Invariance, <1>1, PTL

\* Every replayed response is the one the business call gave for a request with
\* the same key and payload.
THEOREM ReplaysAreFaithful ==
    ASSUME OutlivesRequests
    PROVE  Spec => []FaithfulReplay
  <1>1. Inv => FaithfulReplay
    BY NothingAssumption DEF Inv, TypeOK, ReplayTrue, FaithfulReplay, Gave
  <1>2. QED
    BY Invariance, <1>1, PTL

\* A stored response stays as it is until its row expires.
THEOREM ResponsesAreFinal ==
    ASSUME OutlivesRequests
    PROVE  Spec => ResponseFinal
  <1>1. ASSUME Inv, [Next]_vars, NEW k \in DOMAIN rows,
               rows[k].status # "processing", ~rows[k].expired
        PROVE  rows'[k] = rows[k] \/ rows'[k] = [rows[k] EXCEPT !.expired = TRUE]
    <2>1. CASE UNCHANGED rows
      BY <2>1
    <2>2. ASSUME NEW r \in Req, Claim(r)
          PROVE  rows'[k] = rows[k]
      BY <1>1, <2>2 DEF Claim, Free
    <2>3. ASSUME NEW r \in Req, Finalise(r)
          PROVE  rows'[k] = rows[k]
      BY <1>1, <2>3 DEF Finalise, Inv, Owned, Running
    <2>4. ASSUME NEW j \in DOMAIN rows, Expire(j)
          PROVE  rows'[k] = rows[k] \/ rows'[k] = [rows[k] EXCEPT !.expired = TRUE]
      BY <2>4 DEF Expire, Inv, TypeOK
    <2>5. \/ UNCHANGED rows
          \/ \E r \in Req : Claim(r) \/ Finalise(r)
          \/ \E j \in DOMAIN rows : Expire(j)
      BY <1>1 DEF Next, vars, Arrive, LookUp, Handle, Respond, Crash
    <2>6. QED
      BY <2>1, <2>2, <2>3, <2>4, <2>5
  <1>2. Inv /\ [Next]_vars =>
            [\A k \in DOMAIN rows :
                (rows[k].status # "processing" /\ ~rows[k].expired) =>
                    rows'[k] = rows[k] \/ rows'[k] = [rows[k] EXCEPT !.expired = TRUE]]_vars
    BY <1>1
  <1>3. QED
    BY Invariance, <1>2, PTL DEF Spec, ResponseFinal
=============================================================================
