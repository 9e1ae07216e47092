---------------------------- MODULE Idempotency -----------------------------
(***************************************************************************)
(* The idempotency middleware: what happens to requests that carry an      *)
(* Idempotency-Key, from the claim of the key's row to the stored response *)
(* that later requests with the key are answered with.  The business call  *)
(* behind the middleware is one step that takes effect or does not.        *)
(*                                                                         *)
(* A row expires some time after it was claimed and is then free to be     *)
(* claimed again; it keeps its id, so whoever claimed it first still       *)
(* writes to it when it finishes.                                          *)
(***************************************************************************)
EXTENDS Naturals, FiniteSets

CONSTANTS
    Req,                \* requests, each of which runs once
    Key,                \* pairs of an Idempotency-Key and an actor scope
    Payload,            \* what the fingerprint tells apart
    Nothing,            \* no response or no answer yet
    Faults,             \* processes, connections and writes may fail
    OutlivesRequests    \* rows do not expire before their request has ended

ASSUME FlagsAssumption == Faults \in BOOLEAN /\ OutlivesRequests \in BOOLEAN

VARIABLES
    rows,       \* idempotency_keys: the row of each key it has one for
    sent,       \* the key and payload of each request
    pc,         \* where each request is
    result,     \* what the business call of a request gave
    answer,     \* what the client of a request got
    effects     \* requests whose call took effect since the key was last free

vars == <<rows, sent, pc, result, answer, effects>>

\* by: whose result it is.  A list is a JSON array, which node-postgres does not
\* send as JSON.
Result == [by : Req, code : {200, 400, 500}, body : {"object", "list"}]
Row == [payload : Payload, status : {"processing"}, response : {Nothing}, expired : BOOLEAN]
       \cup
       [payload : Payload, status : {"completed", "failed"}, response : Result, expired : BOOLEAN]
Answer == [kind : {"own", "replay"}, response : Result]
          \cup [kind : {"busy", "mismatch"}]

ASSUME NothingAssumption == Nothing \notin Result /\ Nothing \notin Answer

TypeOK ==
    /\ DOMAIN rows \subseteq Key /\ rows \in [DOMAIN rows -> Row]
    /\ sent \in [Req -> [key : Key, payload : Payload]]
    /\ pc \in [Req -> {"idle", "claim", "lookup", "handler", "respond", "finish", "done", "lost"}]
    /\ result \in [Req -> Result \cup {Nothing}]
    /\ answer \in [Req -> Answer \cup {Nothing}]
    /\ effects \in [Key -> SUBSET Req]

Init ==
    /\ rows = [k \in {} |-> Nothing]
    /\ sent \in [Req -> [key : Key, payload : Payload]]
    /\ pc = [r \in Req |-> "idle"]
    /\ result = [r \in Req |-> Nothing]
    /\ answer = [r \in Req |-> Nothing]
    /\ effects = [k \in Key |-> {}]

------------------------------------------------------------------------------

KeyOf(r) == sent[r].key
Goto(r, where) == pc' = [pc EXCEPT ![r] = where]
Reply(r, a) == answer' = [answer EXCEPT ![r] = a]

\* The rows ON CONFLICT may take over, and a mutated form that also retries
\* calls that failed.
FreeOrFailed(k) == k \in DOMAIN rows => rows[k].expired \/ rows[k].status = "failed"
Free(k) == k \in DOMAIN rows => rows[k].expired

\* The fingerprint check, and a mutated form without it.
AnyPayload(row, r) == TRUE
SamePayload(row, r) == row.payload = sent[r].payload

\* The row of a key whose call has begun.
Claimed(r) == [payload |-> sent[r].payload, status |-> "processing",
               response |-> Nothing, expired |-> FALSE]

\* The row's values when its call has ended, and a mutated form that stores
\* the row as completed without the response.
Unanswered(row, r) == [row EXCEPT !.status = "completed"]
Settled(row, r) ==
    [row EXCEPT !.status = IF result[r].code >= 500 THEN "failed" ELSE "completed",
                !.response = result[r]]

\* Between the claim of a row and the end of the request.
Running(r) == pc[r] \in {"handler", "respond", "finish"}

Arrive(r) ==
    /\ pc[r] = "idle"
    /\ Goto(r, "claim")
    /\ UNCHANGED <<rows, sent, result, answer, effects>>

\* INSERT ... ON CONFLICT DO UPDATE ... WHERE expires_at < NOW().
Claim(r) ==
    LET k == KeyOf(r)
    IN  /\ pc[r] = "claim"
        /\ \/ /\ Free(k)
              /\ rows' = [j \in DOMAIN rows \cup {k} |-> IF j = k THEN Claimed(r) ELSE rows[j]]
              /\ Goto(r, "handler")
           \/ /\ ~Free(k)
              /\ Goto(r, "lookup")
              /\ UNCHANGED rows
        /\ UNCHANGED <<sent, result, answer, effects>>

\* The SELECT after a conflict, a statement of its own.
LookUp(r) ==
    LET row == rows[KeyOf(r)]
    IN  /\ pc[r] = "lookup"
        /\ Goto(r, "done")
        /\ \/ ~SamePayload(row, r) /\ Reply(r, [kind |-> "mismatch"])
           \/ /\ SamePayload(row, r) /\ row.status = "processing"
              /\ Reply(r, [kind |-> "busy"])
           \/ /\ SamePayload(row, r) /\ row.status # "processing"
              /\ Reply(r, [kind |-> "replay", response |-> row.response])
        /\ UNCHANGED <<rows, sent, result, effects>>

\* The rest of the route: it succeeds, refuses the request without an effect,
\* or fails, before or after a part of it was committed.
Handle(r) ==
    LET k == KeyOf(r)
    IN  /\ pc[r] = "handler"
        /\ \E code \in {200, 400, 500}, body \in {"object", "list"}, effect \in {{}, {r}} :
              /\ code = 200 => effect = {r}
              /\ code = 400 => effect = {}
              /\ code # 200 => body = "object"
              /\ result' = [result EXCEPT ![r] = [by |-> r, code |-> code, body |-> body]]
              /\ effects' = [effects EXCEPT ![k] = @ \cup effect]
        /\ Goto(r, "respond")
        /\ UNCHANGED <<rows, sent, answer>>

\* The response is flushed and "finish" fires; it does not when the client has
\* gone.
Respond(r) ==
    /\ pc[r] = "respond"
    /\ \/ /\ Goto(r, "finish")
          /\ Reply(r, [kind |-> "own", response |-> result[r]])
       \/ /\ Faults
          /\ Goto(r, "lost")
          /\ UNCHANGED answer
    /\ UNCHANGED <<rows, sent, result, effects>>

\* UPDATE ... WHERE id: not awaited, its failure is only logged, and an array
\* is not valid input for the jsonb column.
Finalise(r) ==
    LET k == KeyOf(r)
    IN  /\ pc[r] = "finish"
        /\ \/ /\ result[r].body = "object"
              /\ rows' = [rows EXCEPT ![k] = Settled(rows[k], r)]
           \/ /\ result[r].body = "list" \/ Faults
              /\ UNCHANGED rows
        /\ Goto(r, "done")
        /\ UNCHANGED <<sent, result, answer, effects>>

\* The process ends, or a query of the middleware fails.
Crash(r) ==
    /\ Faults
    /\ pc[r] \in {"claim", "lookup", "handler", "respond", "finish"}
    /\ Goto(r, "lost")
    /\ UNCHANGED <<rows, sent, result, answer, effects>>

\* IDEMPOTENCY_TTL_SECONDS have passed since the claim.
Expire(k) ==
    /\ ~rows[k].expired
    /\ OutlivesRequests => \A r \in Req : KeyOf(r) = k => ~Running(r)
    /\ rows' = [rows EXCEPT ![k].expired = TRUE]
    /\ effects' = [effects EXCEPT ![k] = {}]
    /\ UNCHANGED <<sent, pc, result, answer>>

Next ==
    \/ \E r \in Req :
            Arrive(r) \/ Claim(r) \/ LookUp(r) \/ Handle(r) \/ Respond(r) \/ Finalise(r) \/ Crash(r)
    \/ \E k \in DOMAIN rows : Expire(k)

Spec == Init /\ [][Next]_vars

------------------------------------------------------------------------------
\* Properties

\* However often a request is repeated, concurrently or later, with this or
\* another payload, at most one of the repetitions takes effect while the row of
\* the key is live.
AtMostOnce == \A k \in Key : Cardinality(effects[k]) <= 1

\* A replayed response is the one the business call gave for a request with the
\* same key and payload, although the row it is read from may have been claimed,
\* finished or taken over since the replaying request found it occupied (the
\* fingerprint comparison and the UPDATE of the finish handler).
FaithfulReplay ==
    \A r \in Req :
        (answer[r] # Nothing /\ answer[r].kind = "replay") =>
            LET response == answer[r].response
            IN  /\ response # Nothing
                /\ response = result[response.by]
                /\ sent[response.by] = sent[r]

\* A stored response is final: until the row expires every replay gives the
\* same response, also after a failure.
ResponseFinal ==
    [][\A k \in DOMAIN rows :
            (rows[k].status # "processing" /\ ~rows[k].expired) =>
                rows'[k] = rows[k] \/ rows'[k] = [rows[k] EXCEPT !.expired = TRUE]]_vars

\* "Concurrent duplicate request with same key returns 409 while first request
\* is processing", and otherwise the stored response: a request is told that
\* another one is being processed only if one is.
BusyMeansRunning ==
    [][\A r \in Req :
            (answer'[r] # answer[r] /\ answer'[r] = [kind |-> "busy"]) =>
                \E q \in Req \ {r} : KeyOf(q) = KeyOf(r) /\ Running(q)]_vars
=============================================================================
