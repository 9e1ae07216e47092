------------------------------ MODULE LedgerTx ------------------------------
(***************************************************************************)
(* The trade ledger statement by statement: concurrent requests, each in a *)
(* READ COMMITTED transaction on a connection of the pool                  *)
(* (withTransaction).  A request works on rows it has locked, nobody else  *)
(* sees its writes before its COMMIT, and what it reads without a lock is  *)
(* what is committed at that moment.  Any statement may fail, and a wait   *)
(* cycle is broken by failing one of its members.                          *)
(*                                                                         *)
(* Only the points where requests meet are steps: a row lock, a read of    *)
(* rows that are not locked, COMMIT and ROLLBACK.  A statement on rows the *)
(* request already holds is part of the step before it.                    *)
(***************************************************************************)
EXTENDS LedgerData, Sequences

CONSTANTS
    Req,                                \* requests, each of which runs once
    Calls,                              \* the calls they choose from
    Connections,                        \* size of the connection pool
    Weights, Adjustments, MaxTotal,     \* as in Ledger
    Seeds                               \* committed tables to start from

ASSUME RequestsAssumption == IsFiniteSet(Req)
ASSUME WeightsAssumption ==
    /\ Weights \subseteq Nat \ {0}
    /\ Adjustments \subseteq Int
    /\ MaxTotal \in Nat

VARIABLES
    lots, contracts, allocs, shipments, documents, adjustments,
    call,           \* the call of each request
    pc,             \* the statement a request is about to run
    holds,          \* the rows a request has locked
    draft,          \* the rows a request has written, and its reading
    notices         \* what a request has still to announce

tables == <<lots, contracts, allocs, shipments, documents, adjustments>>
vars == <<tables, call, pc, holds, draft, notices>>

NoCall == [op |-> "none"]
Call ==
    [op : {"allocate"}, contract : Contract, lot : Lot, alloc : Alloc, x : Weights]
    \cup [op : {"ship"}, contract : Contract, shipment : Shipment, ids : (SUBSET Alloc) \ {{}}]
    \cup [op : {"adjust"}, lot : Lot, delta : Adjustments]
    \cup [op : {"status"}, shipment : Shipment, status : ShipmentStatus]
    \cup [op : {"docs"}, shipment : Shipment, types : (SUBSET DocType) \ {{}}]

\* Allocation ids are ordered: createShipment refreshes its lots in that order.
ASSUME CallsAssumption == Alloc \subseteq Nat /\ Calls \subseteq Call

Empty == [k \in {} |-> k]
Row(key, row) == [k \in {key} |-> row]
Over(table, rows) ==
    [k \in DOMAIN table \cup DOMAIN rows |-> IF k \in DOMAIN rows THEN rows[k] ELSE table[k]]

\* next: the allocation a shipment's SELECT is about to lock.
\* todo: the lots whose status the request still has to refresh.
NoDraft == [lots |-> Empty, contracts |-> Empty, allocs |-> Empty, shipments |-> Empty,
            documents |-> {}, reading |-> {}, next |-> {}, todo |-> {}]

Init ==
    /\ \E seed \in Seeds :
          /\ lots = seed.lots
          /\ contracts = seed.contracts
          /\ allocs = seed.allocs
          /\ shipments = seed.shipments
    /\ documents = {}
    /\ adjustments = [l \in Lot |-> 0]
    /\ call = [r \in Req |-> NoCall]
    /\ pc = [r \in Req |-> "idle"]
    /\ holds = [r \in Req |-> {}]
    /\ draft = [r \in Req |-> NoDraft]
    /\ notices = [r \in Req |-> {}]

------------------------------------------------------------------------------
\* Control

\* The statements of each call, and a mutated form in which allocateLot locks
\* its lot before its contract.
LotFirst(op) ==
    CASE op = "allocate" -> <<"lot", "contract", "refresh", "commit">>
      [] op = "ship" -> <<"contract", "number", "allocations", "lot", "refresh", "commit">>
      [] op = "adjust" -> <<"lot", "refresh", "commit">>
      [] op = "status" -> <<"shipment", "commit">>
      [] op = "docs" -> <<"read", "list", "insert", "commit">>
Program(op) ==
    CASE op = "allocate" -> <<"contract", "lot", "refresh", "commit">>
      [] op = "ship" -> <<"contract", "number", "allocations", "lot", "refresh", "commit">>
      [] op = "adjust" -> <<"lot", "refresh", "commit">>
      [] op = "status" -> <<"shipment", "commit">>
      [] op = "docs" -> <<"read", "list", "insert", "commit">>

InTransaction == {"contract", "number", "allocations", "lot", "refresh", "shipment",
                  "read", "list", "insert", "commit"}

At(r, statement) == pc[r] = statement
Goto(r, statement) == pc' = [pc EXCEPT ![r] = statement]
Following(r) == LET program == Program(call[r].op)
                IN  program[1 + CHOOSE i \in DOMAIN program : program[i] = pc[r]]

\* ROLLBACK and the release of the connection, with a mutated form that leaves
\* the rows locked.
LeftOpen(r) == UNCHANGED holds
LetGo(r) == holds' = [holds EXCEPT ![r] = {}]
Rollback(r) ==
    /\ Goto(r, "failed")
    /\ LetGo(r)
    /\ draft' = [draft EXCEPT ![r] = NoDraft]

------------------------------------------------------------------------------
\* Row locks

\* An insert that refers to a shipment locks its row against updates only.
Key(table, id) == <<table, id>>
Conflicting(key) ==
    CASE key[1] = "shipment" -> {key, Key("shipment_ref", key[2])}
      [] key[1] = "shipment_ref" -> {Key("shipment", key[2])}
      [] OTHER -> {key}

\* The allocations createShipment's SELECT has still to lock, of those that
\* exist.  Nothing orders them: it locks any of them next.
ToLock(r) ==
    {a \in call[r].ids \cap DOMAIN allocs : Key("alloc", a) \notin holds[r]}

\* The lot a request refreshes next.  createShipment goes through the lots of
\* its allocations, each once, in the order of the ids.
NextLot(r) ==
    IF call[r].op = "ship"
    THEN allocs[Min({a \in call[r].ids : allocs[a].lot \in draft[r].todo})].lot
    ELSE call[r].lot

\* The row a request needs for its next statement.
Wanted(r) ==
    CASE pc[r] = "contract" -> {Key("contract", call[r].contract)}
      [] pc[r] = "lot" -> {Key("lot", NextLot(r))}
      [] pc[r] \in {"number", "shipment"} -> {Key("shipment", call[r].shipment)}
      [] pc[r] = "insert" -> {Key("shipment_ref", call[r].shipment)}
      [] pc[r] = "allocations" -> {Key("alloc", a) : a \in draft[r].next}
      [] OTHER -> {}

Blockers(r) ==
    {q \in Req \ {r} : \E key \in Wanted(r) : holds[q] \cap Conflicting(key) # {}}

\* A mutated form takes a lot without waiting for it (a read without FOR
\* UPDATE).
GrantedUnlessLot(r) == Blockers(r) = {} \/ pc[r] = "lot"
Granted(r) == Blockers(r) = {}
TakeLock(r) == Granted(r) /\ holds' = [holds EXCEPT ![r] = @ \cup Wanted(r)]

\* The database finds a cycle of waiting requests and fails a member of it.
Cycle(D) ==
    /\ D # {}
    /\ \A r \in D : Blockers(r) \cap D # {} /\ \E q \in D : r \in Blockers(q)

------------------------------------------------------------------------------
\* Statements

Arrive(r) ==
    /\ At(r, "idle")
    /\ \E c \in Calls :
          /\ c.op = "allocate" =>
                /\ c.alloc \notin DOMAIN allocs
                /\ \A q \in Req : call[q].op = "allocate" => call[q].alloc # c.alloc
          /\ call' = [call EXCEPT ![r] = c]
    /\ Goto(r, "connect")
    /\ UNCHANGED <<tables, holds, draft, notices>>

\* pool.connect and BEGIN.
Connect(r) ==
    /\ At(r, "connect")
    /\ Cardinality({q \in Req : pc[q] \in InTransaction}) < Connections
    /\ Goto(r, Head(Program(call[r].op)))
    /\ draft' = [draft EXCEPT ![r].todo =
                    IF call[r].op \in {"allocate", "adjust"} THEN {call[r].lot} ELSE {}]
    /\ UNCHANGED <<tables, call, holds, notices>>

LockContract(r) ==
    LET c == call[r].contract
    IN  /\ At(r, "contract")
        /\ \/ /\ c \in DOMAIN contracts
              /\ call[r].op = "allocate" => contracts[c].status # "closed"
              /\ TakeLock(r)
              /\ Goto(r, Following(r))
              /\ UNCHANGED draft
           \/ /\ \/ c \notin DOMAIN contracts
                 \/ call[r].op = "allocate" /\ contracts[c].status = "closed" /\ Granted(r)
              /\ Rollback(r)
        /\ UNCHANGED <<tables, call, notices>>

\* allocateLot from its lot lock to its update of the lot.
TakeFromLot(r) ==
    LET c == call[r].contract
        l == call[r].lot
        x == call[r].x
        contract == contracts[c]
        fits == /\ l \in DOMAIN lots
                /\ ~Exceeds(x, contract.quantity - contract.allocated)
                /\ ~Exceeds(x, lots[l].available)
    IN  /\ At(r, "lot") /\ call[r].op = "allocate"
        /\ \/ /\ fits
              /\ TakeLock(r)
              /\ draft' = [draft EXCEPT
                    ![r].allocs = Row(call[r].alloc, [contract |-> c, lot |-> l, kg |-> Stored(x),
                                        status |-> "allocated", shipment |-> NoShipment]),
                    ![r].contracts = Row(c, [contract EXCEPT
                                        !.allocated = Stored(Scale * contract.allocated + x)]),
                    ![r].lots = Row(l, Taken(lots[l], x))]
              /\ Goto(r, Following(r))
           \/ ~fits /\ Granted(r) /\ Rollback(r)
        /\ UNCHANGED <<tables, call, notices>>

\* adjustStock from its lot lock to its update of the lot.
CorrectLot(r) ==
    LET l == call[r].lot
        delta == call[r].delta
        fits == /\ l \in DOMAIN lots
                /\ Scale * lots[l].total + delta >= -Epsilon
                /\ Scale * lots[l].available + delta >= -Epsilon
                /\ Corrected(lots[l], delta).total <= MaxTotal
    IN  /\ At(r, "lot") /\ call[r].op = "adjust"
        /\ \/ /\ fits
              /\ TakeLock(r)
              /\ draft' = [draft EXCEPT ![r].lots = Row(l, Corrected(lots[l], delta))]
              /\ Goto(r, Following(r))
           \/ ~fits /\ Granted(r) /\ Rollback(r)
        /\ UNCHANGED <<tables, call, notices>>

\* createShipment's first insert: a number that is taken fails, one that another
\* transaction is inserting waits for it.  Then its SELECT finds the allocations.
InsertShipment(r) ==
    LET s == call[r].shipment
    IN  /\ At(r, "number")
        /\ \/ /\ s \notin DOMAIN shipments
              /\ TakeLock(r)
              /\ \E a \in ToLock(r) :
                    draft' = [draft EXCEPT
                        ![r].shipments = Row(s, [contract |-> call[r].contract,
                                                 status |-> "planned", snapshot |-> {}]),
                        ![r].next = {a}]
              /\ Goto(r, Following(r))
           \/ s \notin DOMAIN shipments /\ ToLock(r) = {} /\ Granted(r) /\ Rollback(r)
           \/ s \in DOMAIN shipments /\ Rollback(r)
        /\ UNCHANGED <<tables, call, notices>>

\* createShipment's checks of its allocations and of the contract's total.
ShipmentFits(r) ==
    LET contract == contracts[call[r].contract]
    IN  /\ call[r].ids \subseteq DOMAIN allocs
        /\ \A a \in call[r].ids :
              allocs[a].contract = call[r].contract /\ allocs[a].status = "allocated"
        /\ ~Exceeds(Scale * (contract.shipped + Weight(allocs, call[r].ids)), contract.quantity)

\* What createShipment writes once it has them, up to the list of the lots it
\* goes on to refresh.
ShipmentDraft(r) ==
    LET c == call[r].contract
        s == call[r].shipment
        ids == call[r].ids
        shipped == contracts[c].shipped + Weight(allocs, ids)
        status == NextContractStatus(shipped, contracts[c].quantity, contracts[c].status)
    IN  [draft[r] EXCEPT
            !.allocs = [a \in ids |-> [allocs[a] EXCEPT !.status = "shipped", !.shipment = s]],
            !.contracts = Row(c, [contracts[c] EXCEPT !.shipped = shipped, !.status = status]),
            !.shipments[s].snapshot = Lines(allocs, ids),
            !.next = {},
            !.todo = {allocs[a].lot : a \in ids}]

LockAllocation(r) ==
    LET left == ToLock(r) \ draft[r].next
    IN  /\ At(r, "allocations")
        /\ \/ /\ TakeLock(r)
              /\ \E a \in left : draft' = [draft EXCEPT ![r].next = {a}]
              /\ UNCHANGED pc
           \/ /\ left = {} /\ ShipmentFits(r)
              /\ TakeLock(r)
              /\ draft' = [draft EXCEPT ![r] = ShipmentDraft(r)]
              /\ Goto(r, Following(r))
           \/ left = {} /\ ~ShipmentFits(r) /\ Granted(r) /\ Rollback(r)
        /\ UNCHANGED <<tables, call, notices>>

\* refreshLotStatus locks its lot; in the other calls the lot is held already.
LockShippedLot(r) ==
    /\ At(r, "lot") /\ call[r].op = "ship"
    /\ TakeLock(r)
    /\ Goto(r, Following(r))
    /\ UNCHANGED <<tables, call, draft, notices>>

\* The allocations refreshLotStatus can see: the committed ones and its own,
\* and a mutated form that reads on another connection.
CommittedOnly(r) == allocs
Visible(r) == Over(allocs, draft[r].allocs)

\* The second half of refreshLotStatus: COUNT and UPDATE.
RefreshLot(r) ==
    LET l == NextLot(r)
        row == Over(lots, draft[r].lots)[l]
        status == LotStatusOf(row.available, OpenAllocations(Visible(r), l))
    IN  /\ At(r, "refresh")
        /\ draft' = [draft EXCEPT
              ![r].lots = Over(@, Row(l, [row EXCEPT !.status = status])),
              ![r].todo = @ \ {l}]
        /\ Goto(r, IF draft[r].todo = {l} THEN Following(r) ELSE "lot")
        /\ UNCHANGED <<tables, call, holds, notices>>

\* updateStatus from its lock to its update.
MoveShipment(r) ==
    LET s == call[r].shipment
        status == call[r].status
        forward == s \in DOMAIN shipments /\ StageOf[status] >= StageOf[shipments[s].status]
    IN  /\ At(r, "shipment")
        /\ \/ /\ forward
              /\ TakeLock(r)
              /\ draft' = [draft EXCEPT
                    ![r].shipments = Row(s, [shipments[s] EXCEPT !.status = status])]
              /\ Goto(r, Following(r))
           \/ ~forward /\ Granted(r) /\ Rollback(r)
        /\ UNCHANGED <<tables, call, notices>>

\* generateDocuments reads the shipment and its allocations in two statements,
\* without a lock.
ReadShipment(r) ==
    LET s == call[r].shipment
    IN  /\ At(r, "read")
        /\ \/ /\ s \in DOMAIN shipments
              /\ draft' = [draft EXCEPT ![r].reading = shipments[s].snapshot]
              /\ Goto(r, Following(r))
              /\ UNCHANGED holds
           \/ s \notin DOMAIN shipments /\ Rollback(r)
        /\ UNCHANGED <<tables, call, notices>>

ListAllocations(r) ==
    LET s == call[r].shipment
        now == AllocationsOf(allocs, s)
        Payload(type) == IF type = "traceability_report" THEN draft[r].reading
                         ELSE Lines(allocs, now)
    IN  /\ At(r, "list")
        /\ \/ /\ now # {}
              /\ draft' = [draft EXCEPT ![r].documents =
                    {[shipment |-> s, type |-> type, payload |-> Payload(type)] : type \in call[r].types}]
              /\ Goto(r, Following(r))
              /\ UNCHANGED holds
           \/ now = {} /\ Rollback(r)
        /\ UNCHANGED <<tables, call, notices>>

InsertDocuments(r) ==
    /\ At(r, "insert")
    /\ TakeLock(r)
    /\ Goto(r, Following(r))
    /\ UNCHANGED <<tables, call, draft, notices>>

\* What the handler announces once the transaction is committed.
Announced(r) ==
    LET d == draft[r]
        c == call[r]
    IN  CASE c.op = "allocate" ->
                {n \in {[event |-> "contract_fully_allocated", about |-> c.contract]} :
                    d.contracts[c.contract].allocated >= d.contracts[c.contract].quantity}
          [] c.op = "ship" -> {[event |-> "shipment_created", about |-> c.shipment]}
          [] c.op = "adjust" -> {[event |-> "stock_adjusted", about |-> c.lot]}
          [] c.op = "status" ->
                {n \in {[event |-> "shipment_status_changed", about |-> c.shipment,
                         status |-> c.status]} : c.status # "planned"}
          [] c.op = "docs" -> {[event |-> "shipment_documents_ready", about |-> c.shipment]}

Commit(r) ==
    /\ At(r, "commit")
    /\ lots' = Over(lots, draft[r].lots)
    /\ contracts' = Over(contracts, draft[r].contracts)
    /\ allocs' = Over(allocs, draft[r].allocs)
    /\ shipments' = Over(shipments, draft[r].shipments)
    /\ documents' = documents \cup draft[r].documents
    /\ adjustments' = [l \in Lot |->
            IF call[r].op = "adjust" /\ l = call[r].lot
            THEN adjustments[l] + StoredCorrection(call[r].delta) ELSE adjustments[l]]
    /\ notices' = [notices EXCEPT ![r] = Announced(r)]
    /\ draft' = [draft EXCEPT ![r] = NoDraft]
    /\ LetGo(r)
    /\ Goto(r, "notify")
    /\ UNCHANGED call

\* The notifications are sent, or lost with an error or with the process.
Notify(r) ==
    /\ At(r, "notify")
    /\ notices' = [notices EXCEPT ![r] = {}]
    /\ Goto(r, "done")
    /\ UNCHANGED <<tables, call, holds, draft>>

\* A statement or the connection fails, or the process ends.
Fail(r) ==
    /\ pc[r] \in InTransaction
    /\ Rollback(r)
    /\ UNCHANGED <<tables, call, notices>>

BreakDeadlock(r) ==
    /\ \E D \in SUBSET Req : r \in D /\ Cycle(D)
    /\ Rollback(r)
    /\ UNCHANGED <<tables, call, notices>>

Step(r) ==
    \/ Connect(r)
    \/ LockContract(r)
    \/ TakeFromLot(r)
    \/ CorrectLot(r)
    \/ InsertShipment(r)
    \/ LockAllocation(r)
    \/ LockShippedLot(r)
    \/ RefreshLot(r)
    \/ MoveShipment(r)
    \/ ReadShipment(r)
    \/ ListAllocations(r)
    \/ InsertDocuments(r)
    \/ Commit(r)
    \/ Notify(r)

Next == \E r \in Req : Arrive(r) \/ Step(r) \/ Fail(r) \/ BreakDeadlock(r)

Spec == Init /\ [][Next]_vars

\* A request that can run its next statement does (node-postgres and the lock
\* queues of the database serve every request), and the deadlock detector runs.
Fairness == \A r \in Req : WF_vars(Step(r)) /\ WF_vars(BreakDeadlock(r))
FairSpec == Spec /\ Fairness

------------------------------------------------------------------------------
\* Properties

L == INSTANCE Ledger WITH
        MaxInFlight <- Cardinality(Req) + 1,
        outbox <- UNION {notices[r] : r \in Req}

TypeOK ==
    /\ L!TypeOK
    /\ call \in [Req -> Calls \cup {NoCall}]
    /\ pc \in [Req -> InTransaction \cup {"idle", "connect", "notify", "done", "failed"}]
    /\ \A r \in Req : pc[r] \notin InTransaction => holds[r] = {} /\ draft[r] = NoDraft

\* However the statements of the requests interleave, fail or deadlock, the
\* committed tables change only as if the calls had run one after the other,
\* each completely or not at all, at its COMMIT: the checks of a call still hold
\* when it commits, no refresh is overtaken and no write is lost (the FOR UPDATE
\* locks of contracts, shipments and inventory services and refreshLotStatus).
Serializable == [][L!Next]_(L!vars)

\* The ledger's invariants hold of what is committed, at every moment and not
\* only when no call is running.
CommittedConsistent ==
    /\ L!WithinLimits
    /\ L!Conservation
    /\ L!LotStatusAgrees
    /\ L!FulfilmentAgrees
    /\ L!Traceable

\* A shipment of allocations of another contract, which createShipment refuses
\* only when it has locked them.
NamesForeign(r) ==
    \E a \in call[r].ids \cap DOMAIN allocs : allocs[a].contract # call[r].contract

\* Only shipments of different contracts can wait for each other in a cycle:
\* allocateLot and createShipment both lock the contract before any lot, the
\* other calls never hold one row while they wait for another.  createShipment
\* locks its lots in the order of its allocation ids, which is not the order of
\* the lots, and its allocations in no order; but two shipments meet on an
\* allocation only if one of them is to be refused.
OnlyShipmentsDeadlock ==
    \A D \in SUBSET Req : Cycle(D) =>
        /\ \A r \in D :
              /\ call[r].op = "ship"
              /\ \/ pc[r] = "lot"
                 \/ /\ pc[r] = "allocations"
                    /\ \E q \in D \cap Blockers(r) : NamesForeign(r) \/ NamesForeign(q)
        /\ \A r, q \in D : r # q => call[r].contract # call[q].contract

\* Every request that arrives gets an answer, although requests wait for a
\* connection, for rows and for each other (withTransaction gives its rows and
\* its connection back on every path).
EveryCallEnds ==
    \A r \in Req : pc[r] = "connect" ~> pc[r] \in {"done", "failed"}
=============================================================================
