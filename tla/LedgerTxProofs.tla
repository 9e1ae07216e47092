--------------------------- MODULE LedgerTxProofs ---------------------------
(***************************************************************************)
(* Proofs about the ledger's transactions, for every number of requests,   *)
(* connections and rows.  The inductive invariant TxInv says of every      *)
(* request, statement by statement, what it has locked and that what it    *)
(* has read and written is still true of the committed tables.  It is kept *)
(* because a request's own step leads to the next stage and because nobody *)
(* else changes a row it has locked.  From it follows that a COMMIT is one *)
(* call of the module Ledger, whose lemmas (LedgerProofs) then carry over. *)
(***************************************************************************)
EXTENDS LedgerTx, FiniteSetTheorems, NaturalsInduction, TLAPS

\* The ledger with its lemmas; LedgerTx names the same instance of Ledger L.
P == INSTANCE LedgerProofs WITH
        MaxInFlight <- Cardinality(Req) + 1,
        outbox <- UNION {notices[r] : r \in Req}

\* The ledger's operators are the same seen from here.
LEMMA SameOperators ==
    /\ \A x : P!Stored(x) = Stored(x) /\ P!StoredCorrection(x) = StoredCorrection(x)
    /\ \A x, limit : P!Exceeds(x, limit) <=> Exceeds(x, limit)
    /\ \A table, key, row : P!Insert(table, key, row) = Insert(table, key, row)
    /\ \A lot, x : P!Taken(lot, x) = Taken(lot, x) /\ P!Corrected(lot, x) = Corrected(lot, x)
    /\ \A table, lot : P!OpenAllocations(table, lot) = OpenAllocations(table, lot)
    /\ \A table, ids : P!Lines(table, ids) = Lines(table, ids)
    /\ \A table, s : P!AllocationsOf(table, s) = AllocationsOf(table, s)
    /\ \A available, open : P!LotStatusOf(available, open) = LotStatusOf(available, open)
    /\ \A shipped, quantity, status :
        P!NextContractStatus(shipped, quantity, status) = NextContractStatus(shipped, quantity, status)
  BY DEF P!Stored, Stored, P!StoredCorrection, StoredCorrection, P!Exceeds, Exceeds, P!Insert, Insert,
         P!Taken, Taken, P!Corrected, Corrected, P!AtLeastZero, AtLeastZero, P!OpenAllocations,
         OpenAllocations, P!Lines, Lines, P!AllocationsOf, AllocationsOf, P!LotStatusOf, LotStatusOf,
         P!NextContractStatus, NextContractStatus

\* A sum of weights is the same sum in either module.
LEMMA SameWeight == \A table, ids : P!Weight(table, ids) = Weight(table, ids)
  BY DEF P!Weight, Weight, P!MapThenSumSet, MapThenSumSet, P!MapThenFoldSet, MapThenFoldSet

\* A step of the specification that LedgerTx names is one of the instance whose
\* lemmas are used here.
LEMMA SameSteps == L!Next <=> P!Next
  <1>1. \A l, x : L!ReceiveLot(l, x) <=> P!ReceiveLot(l, x)
    BY DEF L!ReceiveLot, P!ReceiveLot, L!Stored, P!Stored, L!Insert, P!Insert
  <1>2. \A c, x : L!CreateContract(c, x) <=> P!CreateContract(c, x)
    BY DEF L!CreateContract, P!CreateContract, L!Stored, P!Stored, L!Insert, P!Insert, L!Announce,
           P!Announce, L!Cardinality, P!Cardinality
  <1>3. \A a, c, l, x : L!AllocateLot(a, c, l, x) <=> P!AllocateLot(a, c, l, x)
    BY DEF L!AllocateLot, P!AllocateLot, L!Stored, P!Stored, L!Insert, P!Insert, L!Announce,
           P!Announce, L!Cardinality, P!Cardinality, L!Refreshed, P!Refreshed, L!Taken, P!Taken,
           L!Exceeds, P!Exceeds, L!OpenAllocations, P!OpenAllocations, L!LotStatusOf, P!LotStatusOf
  <1>4. \A s, c, ids : L!CreateShipment(s, c, ids) <=> P!CreateShipment(s, c, ids)
    BY DEF L!CreateShipment, P!CreateShipment, L!Shippable, P!Shippable, L!ShippedIn, P!ShippedIn,
           L!Weight, P!Weight, L!MapThenSumSet, P!MapThenSumSet, L!MapThenFoldSet, P!MapThenFoldSet,
           L!NextContractStatus, P!NextContractStatus, L!Insert, P!Insert, L!Announce,
           P!Announce, L!Cardinality, P!Cardinality, L!Refreshed, P!Refreshed, L!Lines, P!Lines,
           L!OpenAllocations, P!OpenAllocations, L!LotStatusOf, P!LotStatusOf
  <1>5. \A l, delta : L!AdjustStock(l, delta) <=> P!AdjustStock(l, delta)
    BY DEF L!AdjustStock, P!AdjustStock, L!Corrected, P!Corrected, L!AtLeastZero, P!AtLeastZero,
           L!Stored, P!Stored, L!StoredCorrection, P!StoredCorrection, L!Announce,
           P!Announce, L!Cardinality, P!Cardinality, L!Refreshed, P!Refreshed,
           L!OpenAllocations, P!OpenAllocations, L!LotStatusOf, P!LotStatusOf
  <1>6. \A s, status : L!UpdateStatus(s, status) <=> P!UpdateStatus(s, status)
    BY DEF L!UpdateStatus, P!UpdateStatus, L!NotBackwards, P!NotBackwards, L!StageOf, P!StageOf,
           L!Announce, P!Announce, L!Cardinality, P!Cardinality
  <1>7. \A s, types : L!GenerateDocuments(s, types) <=> P!GenerateDocuments(s, types)
    BY DEF L!GenerateDocuments, P!GenerateDocuments, L!AllocationsOf, P!AllocationsOf, L!Lines, P!Lines,
           L!Announce, P!Announce, L!Cardinality, P!Cardinality
  <1>8. \A n : L!Dispatch(n) <=> P!Dispatch(n)
    BY DEF L!Dispatch, P!Dispatch
  <1>9. L!ShipmentStatus = P!ShipmentStatus
    BY DEF L!ShipmentStatus, P!ShipmentStatus
  <1>10. QED
    BY <1>1, <1>2, <1>3, <1>4, <1>5, <1>6, <1>7, <1>8, <1>9, Zenon DEF L!Next, P!Next

\* The type of every table, without what is announced.
Typed ==
    /\ IsTable(lots, Lot, LotRow)
    /\ IsTable(contracts, Contract, ContractRow)
    /\ IsTable(allocs, Alloc, AllocRow)
    /\ IsTable(shipments, Shipment, ShipmentRow)
    /\ documents \subseteq Document
    /\ adjustments \in [Lot -> Int]

\* The type invariants of the two instances and this one agree.
LEMMA SameTypes ==
    /\ P!TypeOK <=> Typed /\ UNION {notices[r] : r \in Req} \subseteq Notice
    /\ L!TypeOK <=> P!TypeOK
  <1>1. P!TypeOK <=> Typed /\ UNION {notices[r] : r \in Req} \subseteq Notice
    BY DEF P!TypeOK, Typed, P!IsTable, IsTable, P!LotRow, LotRow, P!ContractRow, ContractRow,
           P!AllocRow, AllocRow, P!ShipmentRow, ShipmentRow, P!Document, Document, P!Notice, Notice,
           P!Line, Line, P!LotStatus, LotStatus, P!ContractStatus, ContractStatus,
           P!ShipmentStatus, ShipmentStatus
  <1>2. L!TypeOK <=> P!TypeOK
    BY DEF P!TypeOK, L!TypeOK, P!IsTable, L!IsTable, P!LotRow, L!LotRow, P!ContractRow, L!ContractRow,
           P!AllocRow, L!AllocRow, P!ShipmentRow, L!ShipmentRow, P!Document, L!Document, P!Notice,
           L!Notice, P!Line, L!Line, P!LotStatus, L!LotStatus, P!ContractStatus, L!ContractStatus,
           P!ShipmentStatus, L!ShipmentStatus
  <1>3. QED
    BY <1>1, <1>2

\* The ledger's invariants say the same in both instances.
LEMMA SameInvariants ==
    /\ L!WithinLimits <=> P!WithinLimits
    /\ L!Conservation <=> P!Conservation
    /\ L!LotStatusAgrees <=> P!LotStatusAgrees
    /\ L!FulfilmentAgrees <=> P!FulfilmentAgrees
    /\ L!Traceable <=> P!Traceable
  <1>1. L!WithinLimits <=> P!WithinLimits
    BY DEF L!WithinLimits, P!WithinLimits
  <1>2. L!Conservation <=> P!Conservation
    BY DEF L!Conservation, P!Conservation, L!Weight, P!Weight, L!MapThenSumSet, P!MapThenSumSet,
           L!MapThenFoldSet, P!MapThenFoldSet
  <1>3. L!LotStatusAgrees <=> P!LotStatusAgrees
    BY DEF L!LotStatusAgrees, P!LotStatusAgrees, L!LotStatusOf, P!LotStatusOf, L!OpenAllocations,
           P!OpenAllocations
  <1>4. L!FulfilmentAgrees <=> P!FulfilmentAgrees
    BY DEF L!FulfilmentAgrees, P!FulfilmentAgrees, L!NextContractStatus, P!NextContractStatus
  <1>5. L!Traceable <=> P!Traceable
    BY DEF L!Traceable, P!Traceable, L!ReferencesExist, P!ReferencesExist, L!SnapshotFaithful,
           P!SnapshotFaithful, L!DocumentsAgree, P!DocumentsAgree, L!Lines, P!Lines,
           L!AllocationsOf, P!AllocationsOf
  <1>6. QED
    BY <1>1, <1>2, <1>3, <1>4, <1>5

\* Writing a single row over a table inserts it or replaces the old one.
LEMMA OverRow ==
    ASSUME NEW table, NEW keys, NEW rows, IsTable(table, keys, rows), NEW key, NEW row
    PROVE  /\ Over(table, Row(key, row)) = Insert(table, key, row)
           /\ key \in DOMAIN table => Over(table, Row(key, row)) = [table EXCEPT ![key] = row]
           /\ Over(table, Empty) = table
  BY DEF IsTable, Over, Row, Insert, Empty

\* A set of naturals has a least member.
LEMMA LeastOf ==
    ASSUME NEW S \in SUBSET Nat, S # {}
    PROVE  Min(S) \in S /\ \A k \in S : Min(S) <= k
  <1>1. PICK m \in S : \A k \in S : <<k, m>> \notin OpToRel(<, Nat)
    BY WFMin, NatLessThanWellFounded, Zenon
  <1>2. \A k \in S : ~(k < m)
    BY <1>1, Zenon DEF OpToRel
  <1>3. \A k \in S : m <= k
    BY <1>2
  <1>4. QED
    BY <1>3 DEF Min

\* The order of the statements of every call.
LEMMA FollowingIs ==
    ASSUME NEW r \in Req
    PROVE  /\ call[r].op = "allocate" =>
                /\ pc[r] = "contract" => Following(r) = "lot"
                /\ pc[r] = "lot" => Following(r) = "refresh"
                /\ pc[r] = "refresh" => Following(r) = "commit"
           /\ call[r].op = "ship" =>
                /\ pc[r] = "contract" => Following(r) = "number"
                /\ pc[r] = "number" => Following(r) = "allocations"
                /\ pc[r] = "allocations" => Following(r) = "lot"
                /\ pc[r] = "lot" => Following(r) = "refresh"
                /\ pc[r] = "refresh" => Following(r) = "commit"
           /\ call[r].op = "adjust" =>
                /\ pc[r] = "lot" => Following(r) = "refresh"
                /\ pc[r] = "refresh" => Following(r) = "commit"
           /\ call[r].op = "status" => (pc[r] = "shipment" => Following(r) = "commit")
           /\ call[r].op = "docs" =>
                /\ pc[r] = "read" => Following(r) = "list"
                /\ pc[r] = "list" => Following(r) = "insert"
                /\ pc[r] = "insert" => Following(r) = "commit"
  <1>1. CASE call[r].op = "allocate"
    <2>1. Program(call[r].op) = <<"contract", "lot", "refresh", "commit">>
      BY <1>1 DEF Program
    <2>2. DOMAIN <<"contract", "lot", "refresh", "commit">> = 1..4
      OBVIOUS
    <2>3. QED
      BY <1>1, <2>1, <2>2 DEF Following
  <1>2. CASE call[r].op = "ship"
    <2>1. Program(call[r].op) = <<"contract", "number", "allocations", "lot", "refresh", "commit">>
      BY <1>2 DEF Program
    <2>2. DOMAIN <<"contract", "number", "allocations", "lot", "refresh", "commit">> = 1..6
      OBVIOUS
    <2>3. QED
      BY <1>2, <2>1, <2>2 DEF Following
  <1>3. CASE call[r].op = "adjust"
    <2>1. Program(call[r].op) = <<"lot", "refresh", "commit">>
      BY <1>3 DEF Program
    <2>2. DOMAIN <<"lot", "refresh", "commit">> = 1..3
      OBVIOUS
    <2>3. QED
      BY <1>3, <2>1, <2>2 DEF Following
  <1>4. CASE call[r].op = "status"
    <2>1. Program(call[r].op) = <<"shipment", "commit">>
      BY <1>4 DEF Program
    <2>2. DOMAIN <<"shipment", "commit">> = 1..2
      OBVIOUS
    <2>3. QED
      BY <1>4, <2>1, <2>2 DEF Following
  <1>5. CASE call[r].op = "docs"
    <2>1. Program(call[r].op) = <<"read", "list", "insert", "commit">>
      BY <1>5 DEF Program
    <2>2. DOMAIN <<"read", "list", "insert", "commit">> = 1..4
      OBVIOUS
    <2>3. QED
      BY <1>5, <2>1, <2>2 DEF Following
  <1>6. QED
    BY <1>1, <1>2, <1>3, <1>4, <1>5

------------------------------------------------------------------------------
\* The inductive invariant: where each call is

\* What a request has written, field by field, when it is not selecting allocations.
Writes(lotRows, contractRows, allocRows, shipmentRows, docs, read, waiting) ==
    [lots |-> lotRows, contracts |-> contractRows, allocs |-> allocRows,
     shipments |-> shipmentRows, documents |-> docs, reading |-> read, next |-> {},
     todo |-> waiting]

\* allocateLot: the contract is locked and open, then the lot is locked too, both
\* have room for the weight, and the rows written are made from the rows locked.
AllocateFits(r) ==
    LET c == call[r].contract
        l == call[r].lot
    IN  /\ c \in DOMAIN contracts /\ contracts[c].status # "closed"
        /\ l \in DOMAIN lots
        /\ ~Exceeds(call[r].x, contracts[c].quantity - contracts[c].allocated)
        /\ ~Exceeds(call[r].x, lots[l].available)
        /\ holds[r] = {Key("contract", c), Key("lot", l)}

\* The row allocateLot inserts, and all that it writes.
NewAllocation(r) ==
    [contract |-> call[r].contract, lot |-> call[r].lot, kg |-> Stored(call[r].x),
     status |-> "allocated", shipment |-> NoShipment]

AllocateWrites(r, lotRow, waiting) ==
    LET c == call[r].contract
    IN  Writes(Row(call[r].lot, lotRow),
               Row(c, [contracts[c] EXCEPT !.allocated = Stored(Scale * contracts[c].allocated + call[r].x)]),
               Row(call[r].alloc, NewAllocation(r)), Empty, {}, {}, waiting)

\* Where allocateLot is, what it has locked by then and what it has written.
AllocateOK(r) ==
    LET c == call[r].contract
        l == call[r].lot
        taken == Taken(lots[l], call[r].x)
    IN  \/ /\ At(r, "contract")
           /\ holds[r] = {}
           /\ draft[r] = Writes(Empty, Empty, Empty, Empty, {}, {}, {l})
        \/ /\ At(r, "lot")
           /\ holds[r] = {Key("contract", c)}
           /\ draft[r] = Writes(Empty, Empty, Empty, Empty, {}, {}, {l})
           /\ c \in DOMAIN contracts /\ contracts[c].status # "closed"
        \/ /\ At(r, "refresh")
           /\ AllocateFits(r)
           /\ draft[r] = AllocateWrites(r, taken, {l})
        \/ /\ At(r, "commit")
           /\ AllocateFits(r)
           /\ draft[r] = AllocateWrites(r, [taken EXCEPT !.status = "allocated"], {})

\* adjustStock: the lot is locked, and the row written is made from it.
AdjustFits(r) ==
    LET l == call[r].lot
        delta == call[r].delta
    IN  /\ l \in DOMAIN lots
        /\ Scale * lots[l].total + delta >= -Epsilon
        /\ Scale * lots[l].available + delta >= -Epsilon
        /\ Corrected(lots[l], delta).total <= MaxTotal
        /\ holds[r] = {Key("lot", l)}

\* Where adjustStock is, what it has locked by then and what it has written.
AdjustOK(r) ==
    LET l == call[r].lot
        corrected == Corrected(lots[l], call[r].delta)
        status == LotStatusOf(corrected.available, OpenAllocations(allocs, l))
    IN  \/ /\ At(r, "lot")
           /\ holds[r] = {}
           /\ draft[r] = Writes(Empty, Empty, Empty, Empty, {}, {}, {l})
        \/ /\ At(r, "refresh")
           /\ AdjustFits(r)
           /\ draft[r] = Writes(Row(l, corrected), Empty, Empty, Empty, {}, {}, {l})
        \/ /\ At(r, "commit")
           /\ AdjustFits(r)
           /\ draft[r] = Writes(Row(l, [corrected EXCEPT !.status = status]),
                                Empty, Empty, Empty, {}, {}, {})

\* updateStatus: the shipment is locked, and the row written is made from it.
StatusOK(r) ==
    LET s == call[r].shipment
    IN  \/ /\ At(r, "shipment")
           /\ holds[r] = {}
           /\ draft[r] = Writes(Empty, Empty, Empty, Empty, {}, {}, {})
        \/ /\ At(r, "commit")
           /\ holds[r] = {Key("shipment", s)}
           /\ s \in DOMAIN shipments
           /\ StageOf[call[r].status] >= StageOf[shipments[s].status]
           /\ draft[r] = Writes(Empty, Empty, Empty,
                                Row(s, [shipments[s] EXCEPT !.status = call[r].status]), {}, {}, {})

\* generateDocuments: what was read without a lock is still what is stored, as a
\* snapshot is frozen and a shipment keeps its allocations.
DocsWrites(r) ==
    LET s == call[r].shipment
        snapshot == shipments[s].snapshot
    IN  Writes(Empty, Empty, Empty, Empty,
               {[shipment |-> s, type |-> type, payload |-> snapshot] : type \in call[r].types},
               snapshot, {})

\* Where generateDocuments is, and what it has read by then.
DocsOK(r) ==
    LET s == call[r].shipment
    IN  \/ /\ At(r, "read")
           /\ holds[r] = {}
           /\ draft[r] = Writes(Empty, Empty, Empty, Empty, {}, {}, {})
        \/ /\ At(r, "list")
           /\ holds[r] = {}
           /\ s \in DOMAIN shipments
           /\ draft[r] = Writes(Empty, Empty, Empty, Empty, {}, shipments[s].snapshot, {})
        \/ /\ pc[r] \in {"insert", "commit"}
           /\ holds[r] = IF At(r, "insert") THEN {} ELSE {Key("shipment_ref", s)}
           /\ s \in DOMAIN shipments
           /\ AllocationsOf(allocs, s) # {}
           /\ draft[r] = DocsWrites(r)

\* createShipment: the contract is locked, then the number is taken, then the
\* allocations are locked in the order of their ids, and then their lots in turn.
Touched(r) == {allocs[a].lot : a \in call[r].ids}

\* The row createShipment inserts.
NewShipment(r, snapshot) ==
    [contract |-> call[r].contract, status |-> "planned", snapshot |-> snapshot]

\* The allocation, the contract and the lot createShipment goes on to write.
ShippedRow(r, a) == [allocs[a] EXCEPT !.status = "shipped", !.shipment = call[r].shipment]
ShippedContract(r) ==
    LET contract == contracts[call[r].contract]
        shipped == contract.shipped + Weight(allocs, call[r].ids)
    IN  [contract EXCEPT !.shipped = shipped,
                         !.status = NextContractStatus(shipped, contract.quantity, contract.status)]
RefreshedRow(r, l) ==
    [lots[l] EXCEPT !.status =
        LotStatusOf(lots[l].available, OpenAllocations(allocs, l) \ call[r].ids)]

\* What createShipment has written while it locks its allocations, this one next.
SelectWrites(r, a) ==
    [Writes(Empty, Empty, Empty, Row(call[r].shipment, NewShipment(r, {})), {}, {}, {})
        EXCEPT !.next = {a}]

\* All that createShipment has written once it refreshes lots.
ShipWrites(r) ==
    Writes(draft[r].lots,
           Row(call[r].contract, ShippedContract(r)),
           [a \in call[r].ids |-> ShippedRow(r, a)],
           Row(call[r].shipment, NewShipment(r, Lines(allocs, call[r].ids))),
           {}, {}, draft[r].todo)

\* createShipment from its checks on: what they read is locked and still so, and
\* the lots that are no longer waiting are refreshed and locked.
ShippingOK(r) ==
    /\ call[r].contract \in DOMAIN contracts
    /\ call[r].shipment \notin DOMAIN shipments
    /\ call[r].ids \subseteq DOMAIN allocs
    /\ ShipmentFits(r)
    /\ Key("contract", call[r].contract) \in holds[r]
    /\ Key("shipment", call[r].shipment) \in holds[r]
    /\ \A a \in call[r].ids : Key("alloc", a) \in holds[r]
    /\ \A key \in holds[r] : key[1] = "alloc" => key[2] \in call[r].ids
    /\ draft[r] = ShipWrites(r)
    /\ draft[r].todo \subseteq Touched(r)
    /\ DOMAIN draft[r].lots = Touched(r) \ draft[r].todo
    /\ draft[r].lots = [l \in DOMAIN draft[r].lots |-> RefreshedRow(r, l)]
    /\ \A l \in DOMAIN draft[r].lots : Key("lot", l) \in holds[r]

\* Where createShipment is, what it has locked by then and what it has written.
ShipOK(r) ==
    LET c == call[r].contract
        s == call[r].shipment
        ids == call[r].ids
    IN  \/ /\ At(r, "contract")
           /\ holds[r] = {}
           /\ draft[r] = Writes(Empty, Empty, Empty, Empty, {}, {}, {})
        \/ /\ At(r, "number")
           /\ holds[r] = {Key("contract", c)}
           /\ draft[r] = Writes(Empty, Empty, Empty, Empty, {}, {}, {})
           /\ c \in DOMAIN contracts
        \/ /\ At(r, "allocations")
           /\ \E A \in SUBSET (ids \cap DOMAIN allocs) :
                /\ holds[r] = {Key("contract", c), Key("shipment", s)} \cup {Key("alloc", a) : a \in A}
                /\ \E a \in (ids \cap DOMAIN allocs) \ A : draft[r] = SelectWrites(r, a)
           /\ c \in DOMAIN contracts
           /\ s \notin DOMAIN shipments
        \/ /\ At(r, "lot")
           /\ ShippingOK(r)
           /\ draft[r].todo # {}
        \/ /\ At(r, "refresh")
           /\ ShippingOK(r)
           /\ draft[r].todo # {}
           /\ Key("lot", NextLot(r)) \in holds[r]
        \/ /\ At(r, "commit")
           /\ ShippingOK(r)
           /\ draft[r].todo = {}

\* What holds of each request, and what holds between requests: a row has one
\* owner (documents only refer to their shipment), and an allocation id is new.
StageOK(r) ==
    \/ call[r].op = "allocate" /\ AllocateOK(r)
    \/ call[r].op = "ship" /\ ShipOK(r)
    \/ call[r].op = "adjust" /\ AdjustOK(r)
    \/ call[r].op = "status" /\ StatusOK(r)
    \/ call[r].op = "docs" /\ DocsOK(r)

\* Outside its transaction a request holds nothing.
RequestOK(r) ==
    /\ pc[r] \in InTransaction => StageOK(r)
    /\ pc[r] \notin InTransaction => holds[r] = {} /\ draft[r] = NoDraft

\* A locked row has one owner, except for references to a shipment.
Exclusive ==
    \A r, q \in Req : r # q =>
        \A key \in holds[r] \cap holds[q] : key[1] = "shipment_ref"

\* The id of a new allocation is nobody else's.
FreshIds ==
    \A r \in Req : call[r].op = "allocate" =>
        /\ pc[r] \in InTransaction \cup {"connect"} => call[r].alloc \notin DOMAIN allocs
        /\ \A q \in Req : r # q /\ call[q].op = "allocate" => call[q].alloc # call[r].alloc

\* The types of the control state.
Processes ==
    /\ call \in [Req -> Calls \cup {NoCall}]
    /\ pc \in [Req -> InTransaction \cup {"idle", "connect", "notify", "done", "failed"}]
    /\ holds = [r \in Req |-> holds[r]]
    /\ draft = [r \in Req |-> draft[r]]
    /\ notices \in [Req -> SUBSET Notice]
    /\ \A r \in Req :
        /\ (pc[r] = "idle" <=> call[r] = NoCall)
        /\ pc[r] # "notify" => notices[r] = {}
        /\ \A m, n \in notices[r] : m = n

\* The parts of the inductive invariant.
Requests == Exclusive /\ FreshIds /\ \A r \in Req : RequestOK(r)

Tables == Typed /\ P!Traceable /\ IsFiniteSet(DOMAIN allocs)

TxInv == Tables /\ Processes /\ Requests

------------------------------------------------------------------------------
\* What the others leave a request

\* What the other requests leave a request: its own control, the rows it has
\* locked, the allocations counted for a lot it has locked, and what is never
\* rewritten at all.
Kept(r) ==
    /\ call'[r] = call[r] /\ pc'[r] = pc[r] /\ holds'[r] = holds[r] /\ draft'[r] = draft[r]
    /\ \A c \in DOMAIN contracts : Key("contract", c) \in holds[r] =>
            c \in DOMAIN contracts' /\ contracts'[c] = contracts[c]
    /\ \A l \in DOMAIN lots : Key("lot", l) \in holds[r] =>
            /\ l \in DOMAIN lots' /\ lots'[l] = lots[l]
            /\ OpenAllocations(allocs', l) = OpenAllocations(allocs, l)
    /\ \A a \in DOMAIN allocs :
            /\ a \in DOMAIN allocs'
            /\ Key("alloc", a) \in holds[r] => allocs'[a] = allocs[a]
    /\ \A s : Key("shipment", s) \in holds[r] =>
            /\ s \in DOMAIN shipments' <=> s \in DOMAIN shipments
            /\ s \in DOMAIN shipments => shipments'[s] = shipments[s]
    /\ \A s \in DOMAIN shipments :
            /\ s \in DOMAIN shipments' /\ shipments'[s].snapshot = shipments[s].snapshot
            /\ AllocationsOf(allocs, s) # {} => AllocationsOf(allocs', s) # {}

\* allocateLot stays where it is: the rows it has read are its own.
LEMMA AllocateKept ==
    ASSUME NEW r \in Req, AllocateOK(r), Kept(r)
    PROVE  AllocateOK(r)'
  <1> DEFINE c == call[r].contract
             l == call[r].lot
  <1>1. Key("contract", c) \in holds[r] /\ c \in DOMAIN contracts
            => c \in DOMAIN contracts' /\ contracts'[c] = contracts[c]
    BY DEF Kept
  <1>2. Key("lot", l) \in holds[r] /\ l \in DOMAIN lots => l \in DOMAIN lots' /\ lots'[l] = lots[l]
    BY DEF Kept
  <1>3. call'[r] = call[r] /\ pc'[r] = pc[r] /\ holds'[r] = holds[r] /\ draft'[r] = draft[r]
    BY DEF Kept
  <1>4. AllocateFits(r) => AllocateFits(r)'
    BY <1>1, <1>2, <1>3 DEF AllocateFits
  <1>5. AllocateFits(r) => contracts'[c] = contracts[c] /\ lots'[l] = lots[l]
    BY <1>1, <1>2 DEF AllocateFits
  <1>6. NewAllocation(r)' = NewAllocation(r)
    BY <1>3 DEF NewAllocation
  <1>7. CASE At(r, "contract")
    BY <1>3, <1>7 DEF AllocateOK, AllocateFits, At
  <1>8. CASE At(r, "lot")
    BY <1>1, <1>3, <1>8 DEF AllocateOK, AllocateFits, At
  <1>9. CASE At(r, "refresh")
    <2>1. AllocateFits(r) /\ draft[r] = AllocateWrites(r, Taken(lots[l], call[r].x), {l})
      BY <1>9 DEF AllocateOK, At
    <2>2. Taken(lots[l], call[r].x)' = Taken(lots[l], call[r].x)
      BY <1>3, <1>5, <2>1, Zenon DEF Taken
    <2>3. AllocateWrites(r, Taken(lots[l], call[r].x), {l})' = AllocateWrites(r, Taken(lots[l], call[r].x), {l})
      BY <1>3, <1>5, <1>6, <2>1, <2>2, Zenon DEF AllocateWrites
    <2>4. QED
      BY <1>3, <1>4, <1>9, <2>1, <2>3 DEF AllocateOK, At
  <1>10. CASE At(r, "commit")
    <2>1. AllocateFits(r)
          /\ draft[r] = AllocateWrites(r, [Taken(lots[l], call[r].x) EXCEPT !.status = "allocated"], {})
      BY <1>10 DEF AllocateOK, At
    <2>2. Taken(lots[l], call[r].x)' = Taken(lots[l], call[r].x)
      BY <1>3, <1>5, <2>1, Zenon DEF Taken
    <2>3. AllocateWrites(r, [Taken(lots[l], call[r].x) EXCEPT !.status = "allocated"], {})'
            = AllocateWrites(r, [Taken(lots[l], call[r].x) EXCEPT !.status = "allocated"], {})
      BY <1>3, <1>5, <1>6, <2>1, <2>2, Zenon DEF AllocateWrites
    <2>4. QED
      BY <1>3, <1>4, <1>10, <2>1, <2>3 DEF AllocateOK, At
  <1>11. QED
    BY <1>7, <1>8, <1>9, <1>10 DEF AllocateOK

\* adjustStock stays where it is: the allocations of a locked lot do not change.
LEMMA AdjustKept ==
    ASSUME NEW r \in Req, AdjustOK(r), Kept(r)
    PROVE  AdjustOK(r)'
  <1> DEFINE l == call[r].lot
             corrected == Corrected(lots[l], call[r].delta)
             status == LotStatusOf(corrected.available, OpenAllocations(allocs, l))
  <1>1. Key("lot", l) \in holds[r] /\ l \in DOMAIN lots
            => /\ l \in DOMAIN lots' /\ lots'[l] = lots[l]
               /\ OpenAllocations(allocs', l) = OpenAllocations(allocs, l)
    BY DEF Kept
  <1>2. call'[r] = call[r] /\ pc'[r] = pc[r] /\ holds'[r] = holds[r] /\ draft'[r] = draft[r]
    BY DEF Kept
  <1>3. AdjustFits(r) => lots'[l] = lots[l] /\ OpenAllocations(allocs', l) = OpenAllocations(allocs, l)
    BY <1>1 DEF AdjustFits
  <1>4. AdjustFits(r) => corrected' = corrected /\ status' = status
    BY <1>2, <1>3, Zenon DEF Corrected, LotStatusOf
  <1>5. AdjustFits(r) => AdjustFits(r)'
    BY <1>1, <1>2, <1>4 DEF AdjustFits
  <1>6. CASE At(r, "lot")
    BY <1>2, <1>6 DEF AdjustOK, AdjustFits, At
  <1>7. CASE At(r, "refresh")
    BY <1>2, <1>4, <1>5, <1>7 DEF AdjustOK, At
  <1>8. CASE At(r, "commit")
    BY <1>2, <1>4, <1>5, <1>8 DEF AdjustOK, At
  <1>9. QED
    BY <1>6, <1>7, <1>8 DEF AdjustOK

\* updateStatus stays where it is.
LEMMA StatusKept ==
    ASSUME NEW r \in Req, StatusOK(r), Kept(r)
    PROVE  StatusOK(r)'
  <1> DEFINE s == call[r].shipment
  <1>1. Key("shipment", s) \in holds[r] /\ s \in DOMAIN shipments
            => s \in DOMAIN shipments' /\ shipments'[s] = shipments[s]
    BY DEF Kept
  <1>2. call'[r] = call[r] /\ pc'[r] = pc[r] /\ holds'[r] = holds[r] /\ draft'[r] = draft[r]
    BY DEF Kept
  <1>3. QED
    BY <1>1, <1>2 DEF StatusOK, At

\* generateDocuments stays where it is: what it read is never rewritten.
LEMMA DocsKept ==
    ASSUME NEW r \in Req, DocsOK(r), Kept(r)
    PROVE  DocsOK(r)'
  <1> DEFINE s == call[r].shipment
  <1>1. s \in DOMAIN shipments
            => /\ s \in DOMAIN shipments' /\ shipments'[s].snapshot = shipments[s].snapshot
               /\ AllocationsOf(allocs, s) # {} => AllocationsOf(allocs', s) # {}
    BY DEF Kept
  <1>2. call'[r] = call[r] /\ pc'[r] = pc[r] /\ holds'[r] = holds[r] /\ draft'[r] = draft[r]
    BY DEF Kept
  <1>3. s \in DOMAIN shipments => DocsWrites(r)' = DocsWrites(r)
    BY <1>1, <1>2 DEF DocsWrites
  <1>4. QED
    BY <1>1, <1>2, <1>3 DEF DocsOK, At

\* The rows of an allocation table can be added up.
LEMMA TableWeighed ==
    ASSUME NEW table, IsTable(table, Alloc, AllocRow), IsFiniteSet(DOMAIN table)
    PROVE  P!Weighed(table)
  BY DEF P!Weighed, IsTable, AllocRow, P!IsFiniteSet, IsFiniteSet

\* The lot a shipment refreshes next is one it has still to refresh.
LEMMA NextLotIs ==
    ASSUME NEW r \in Req, Tables, call[r].op = "ship", ShippingOK(r), draft[r].todo # {}
    PROVE  LET next == Min({a \in call[r].ids : allocs[a].lot \in draft[r].todo})
           IN  next \in call[r].ids /\ NextLot(r) = allocs[next].lot /\ NextLot(r) \in draft[r].todo
  <1> DEFINE waiting == {a \in call[r].ids : allocs[a].lot \in draft[r].todo}
  <1>1. waiting \in SUBSET Nat /\ waiting # {}
    BY CallsAssumption DEF Tables, Typed, IsTable, ShippingOK, Touched
  <1>2. Min(waiting) \in waiting
    BY <1>1, LeastOf
  <1>3. QED
    BY <1>2 DEF NextLot

\* createShipment keeps its allocations, its contract, its number and its lots.
LEMMA ShippingKept ==
    ASSUME NEW r \in Req, Tables, Tables', ShippingOK(r), Kept(r)
    PROVE  /\ ShippingOK(r)'
           /\ \A a \in call[r].ids : allocs'[a] = allocs[a]
  <1> DEFINE c == call[r].contract
             s == call[r].shipment
             ids == call[r].ids
  <1>1. call'[r] = call[r] /\ holds'[r] = holds[r] /\ draft'[r] = draft[r]
    BY DEF Kept
  <1>2. c \in DOMAIN contracts' /\ contracts'[c] = contracts[c]
    BY DEF Kept, ShippingOK
  <1>3. s \notin DOMAIN shipments'
    BY DEF Kept, ShippingOK
  <1>4. ids \subseteq DOMAIN allocs' /\ \A a \in ids : allocs'[a] = allocs[a]
    BY DEF Kept, ShippingOK
  <1>5. Weight(allocs', ids) = Weight(allocs, ids)
    <2>1. P!Weighed(allocs) /\ P!Weighed(allocs')
      BY TableWeighed DEF Tables, Typed
    <2>2. ids \in SUBSET DOMAIN allocs /\ ids \subseteq DOMAIN allocs'
          /\ \A a \in ids : allocs'[a].kg = allocs[a].kg
      BY <1>4 DEF ShippingOK
    <2>3. P!Weight(allocs', ids) = P!Weight(allocs, ids)
      BY <2>1, <2>2, P!WeightSame, ScaleAssumption, NoShipmentAssumption, WeightsAssumption, Zenon
    <2>4. QED
      BY <2>3, SameWeight
  <1>6. Lines(allocs', ids) = Lines(allocs, ids)
    BY <1>4 DEF Lines
  <1>7. Touched(r)' = Touched(r)
    BY <1>1, <1>4 DEF Touched
  <1>8. ShippedContract(r)' = ShippedContract(r)
    BY <1>1, <1>2, <1>5, Zenon DEF ShippedContract
  <1>9. \A a \in ids : ShippedRow(r, a)' = ShippedRow(r, a)
    BY <1>1, <1>4 DEF ShippedRow
  <1>10. Touched(r) \subseteq DOMAIN lots
    BY SameOperators DEF Tables, P!Traceable, P!ReferencesExist, Touched, ShippingOK
  <1>11. \A l \in DOMAIN draft[r].lots : RefreshedRow(r, l)' = RefreshedRow(r, l)
    <2> SUFFICES ASSUME NEW l \in DOMAIN draft[r].lots
                 PROVE  RefreshedRow(r, l)' = RefreshedRow(r, l)
      OBVIOUS
    <2>1. lots'[l] = lots[l] /\ OpenAllocations(allocs', l) = OpenAllocations(allocs, l)
      BY <1>10 DEF Kept, ShippingOK
    <2>2. QED
      BY <1>1, <2>1, Zenon DEF RefreshedRow
  <1>12. ShipmentFits(r)'
    BY <1>1, <1>2, <1>4, <1>5 DEF ShipmentFits, ShippingOK
  <1>13. ShipWrites(r)' = ShipWrites(r)
    <2>1. [a \in ids |-> ShippedRow(r, a)]' = [a \in ids |-> ShippedRow(r, a)]
      BY <1>1, <1>9
    <2>2. Row(s, NewShipment(r, Lines(allocs, ids)))' = Row(s, NewShipment(r, Lines(allocs, ids)))
      BY <1>1, <1>6, Zenon DEF NewShipment
    <2>3. QED
      BY <1>1, <1>8, <2>1, <2>2, Zenon DEF ShipWrites
  <1>14. draft'[r].lots = [l \in DOMAIN draft[r].lots |-> RefreshedRow(r, l)']
    BY <1>1, <1>11 DEF ShippingOK
  <1>15. QED
    BY <1>1, <1>2, <1>3, <1>4, <1>7, <1>12, <1>13, <1>14 DEF ShippingOK

\* createShipment stays where it is.
LEMMA ShipKept ==
    ASSUME NEW r \in Req, Tables, Tables', ShipOK(r), Kept(r)
    PROVE  ShipOK(r)'
  <1> DEFINE c == call[r].contract
             s == call[r].shipment
             ids == call[r].ids
  <1>1. call'[r] = call[r] /\ pc'[r] = pc[r] /\ holds'[r] = holds[r] /\ draft'[r] = draft[r]
    BY DEF Kept
  <1>2. CASE At(r, "contract")
    BY <1>1, <1>2 DEF ShipOK, At, ShippingOK
  <1>3. CASE At(r, "number")
    BY <1>1, <1>3 DEF ShipOK, At, Kept, ShippingOK
  <1>4. CASE At(r, "allocations")
    <2>1. PICK A \in SUBSET (ids \cap DOMAIN allocs), a \in ids \cap DOMAIN allocs :
            /\ a \notin A
            /\ holds[r] = {Key("contract", c), Key("shipment", s)} \cup {Key("alloc", b) : b \in A}
            /\ draft[r] = SelectWrites(r, a)
      BY <1>4 DEF ShipOK, At
    <2>2. A \in SUBSET (ids \cap DOMAIN allocs') /\ a \in (ids \cap DOMAIN allocs') \ A
      <3>1. DOMAIN allocs \subseteq DOMAIN allocs'
        BY DEF Kept
      <3>2. QED
        BY <2>1, <3>1
    <2>3. c \in DOMAIN contracts' /\ s \notin DOMAIN shipments'
      BY <1>4, <2>1 DEF Kept, ShipOK, At
    <2>4. SelectWrites(r, a)' = SelectWrites(r, a)
      BY <1>1, Zenon DEF SelectWrites, NewShipment
    <2>5. QED
      BY <1>1, <1>4, <2>1, <2>2, <2>3, <2>4 DEF ShipOK, At
  <1>5. CASE pc[r] \in {"lot", "refresh", "commit"}
    <2>1. ShippingOK(r)
      BY <1>5 DEF ShipOK, At
    <2>2. ShippingOK(r)' /\ \A a \in ids : allocs'[a] = allocs[a]
      BY <2>1, ShippingKept
    <2>3. draft[r].todo # {} => NextLot(r)' = NextLot(r)
      <3> SUFFICES ASSUME draft[r].todo # {} PROVE NextLot(r)' = NextLot(r)
        OBVIOUS
      <3> DEFINE waiting == {a \in ids : allocs[a].lot \in draft[r].todo}
      <3>1. {a \in ids : allocs'[a].lot \in draft[r].todo} = waiting
        BY <2>2
      <3>2. Min({a \in ids : allocs'[a].lot \in draft[r].todo}) = Min(waiting)
        BY <3>1, Zenon
      <3>3. call[r].op = "ship" => Min(waiting) \in ids
        BY <2>1, NextLotIs
      <3>4. allocs'[Min(waiting)].lot = allocs[Min(waiting)].lot \/ call[r].op # "ship"
        BY <2>2, <3>3
      <3>5. QED
        BY <1>1, <3>2, <3>4 DEF NextLot
    <2>4. QED
      BY <1>1, <1>5, <2>1, <2>2, <2>3 DEF ShipOK, At
  <1>6. QED
    BY <1>2, <1>3, <1>4, <1>5 DEF ShipOK, At

\* Whatever keeps what a request relies on keeps the request as it is.
LEMMA RequestKept ==
    ASSUME NEW r \in Req, Tables, Tables', RequestOK(r), Kept(r)
    PROVE  RequestOK(r)'
  <1>1. call'[r] = call[r] /\ pc'[r] = pc[r] /\ holds'[r] = holds[r] /\ draft'[r] = draft[r]
    BY DEF Kept
  <1>2. StageOK(r) => StageOK(r)'
    BY <1>1, AllocateKept, ShipKept, AdjustKept, StatusKept, DocsKept DEF StageOK
  <1>3. QED
    BY <1>1, <1>2 DEF RequestOK

\* A step that leaves the tables alone leaves every request its own.
LEMMA TablesKept ==
    ASSUME NEW r \in Req, UNCHANGED tables,
           call'[r] = call[r], pc'[r] = pc[r], holds'[r] = holds[r], draft'[r] = draft[r]
    PROVE  Kept(r)
  BY DEF tables, Kept

\* The rows a request is about to commit are locked, and so is the lot of every
\* allocation it writes.
LEMMA WritesAreLocked ==
    ASSUME TxInv, NEW r \in Req, At(r, "commit")
    PROVE  /\ StageOK(r)
           /\ \A c \in DOMAIN draft[r].contracts : Key("contract", c) \in holds[r]
           /\ \A l \in DOMAIN draft[r].lots : Key("lot", l) \in holds[r]
           /\ \A s \in DOMAIN draft[r].shipments : Key("shipment", s) \in holds[r]
           /\ \A a \in DOMAIN draft[r].allocs :
                /\ \/ Key("alloc", a) \in holds[r] /\ a \in DOMAIN allocs
                   \/ call[r].op = "allocate" /\ a = call[r].alloc /\ a \notin DOMAIN allocs
                /\ Key("lot", draft[r].allocs[a].lot) \in holds[r]
                /\ a \in DOMAIN allocs => allocs[a].lot = draft[r].allocs[a].lot
  <1>1. StageOK(r)
    BY DEF TxInv, Requests, RequestOK, At, InTransaction
  <1>2. call[r].op = "allocate" => call[r].alloc \notin DOMAIN allocs
    BY DEF TxInv, Requests, FreshIds, At, InTransaction
  <1>3. DOMAIN Empty = {}
    BY DEF Empty
  <1>4. CASE call[r].op = "allocate"
    <2>1. AllocateFits(r) /\ \E row : draft[r] = AllocateWrites(r, row, {})
      BY <1>1, <1>4 DEF StageOK, AllocateOK, At
    <2>2. QED
      BY <1>1, <1>2, <1>3, <1>4, <2>1 DEF AllocateFits, AllocateWrites, Writes, Row, NewAllocation
  <1>5. CASE call[r].op = "ship"
    <2>1. ShippingOK(r) /\ draft[r].todo = {}
      BY <1>1, <1>5 DEF StageOK, ShipOK, At
    <2>2. draft[r].contracts = Row(call[r].contract, ShippedContract(r))
          /\ draft[r].shipments = Row(call[r].shipment, NewShipment(r, Lines(allocs, call[r].ids)))
          /\ draft[r].allocs = [a \in call[r].ids |-> ShippedRow(r, a)]
      BY <2>1 DEF ShippingOK, ShipWrites, Writes
    <2>3. \A a \in call[r].ids : ShippedRow(r, a).lot = allocs[a].lot
      BY <2>1 DEF ShippedRow, ShippingOK, TxInv, Tables, Typed, IsTable, AllocRow
    <2>4. \A a \in call[r].ids : allocs[a].lot \in DOMAIN draft[r].lots
      BY <2>1 DEF ShippingOK, Touched
    <2>5. \A a \in call[r].ids : Key("alloc", a) \in holds[r] /\ a \in DOMAIN allocs
          /\ Key("lot", allocs[a].lot) \in holds[r]
      BY <2>1, <2>4 DEF ShippingOK
    <2>6. \A a \in DOMAIN draft[r].allocs : a \in call[r].ids /\ draft[r].allocs[a] = ShippedRow(r, a)
      BY <2>2
    <2>7. (\A c \in DOMAIN draft[r].contracts : Key("contract", c) \in holds[r])
          /\ (\A s \in DOMAIN draft[r].shipments : Key("shipment", s) \in holds[r])
          /\ (\A l \in DOMAIN draft[r].lots : Key("lot", l) \in holds[r])
      BY <2>1, <2>2 DEF ShippingOK, Row
    <2>8. QED
      BY <1>1, <2>3, <2>5, <2>6, <2>7
  <1>6. CASE call[r].op = "adjust"
    <2>1. AdjustFits(r) /\ \E row : draft[r] = Writes(Row(call[r].lot, row), Empty, Empty, Empty, {}, {}, {})
      BY <1>1, <1>6 DEF StageOK, AdjustOK, At
    <2>2. QED
      BY <1>1, <1>3, <2>1 DEF AdjustFits, Writes, Row
  <1>7. CASE call[r].op = "status"
    <2>1. holds[r] = {Key("shipment", call[r].shipment)}
          /\ \E row : draft[r] = Writes(Empty, Empty, Empty, Row(call[r].shipment, row), {}, {}, {})
      BY <1>1, <1>7 DEF StageOK, StatusOK, At
    <2>2. QED
      BY <1>1, <1>3, <2>1 DEF Writes, Row
  <1>8. CASE call[r].op = "docs"
    <2>1. draft[r] = DocsWrites(r)
      BY <1>1, <1>8 DEF StageOK, DocsOK, At
    <2>2. QED
      BY <1>1, <1>3, <2>1 DEF Writes, DocsWrites
  <1>9. QED
    BY <1>1, <1>4, <1>5, <1>6, <1>7, <1>8 DEF StageOK

------------------------------------------------------------------------------
\* A COMMIT is a call of the ledger

\* What all requests have still to announce.
Outbox == UNION {notices[r] : r \in Req}

\* A cardinality is the same one in either module.
LEMMA SameCardinality == \A S : P!Cardinality(S) = Cardinality(S)
  BY DEF P!Cardinality, Cardinality

\* Every request has at most one notification to send.
LEMMA OutboxBounded ==
    ASSUME Processes
    PROVE  P!Cardinality(Outbox) < Cardinality(Req) + 1
  <1> DEFINE senders == {r \in Req : notices[r] # {}}
             sends == [r \in senders |-> CHOOSE n : n \in notices[r]]
  <1>1. IsFiniteSet(senders) /\ Cardinality(senders) <= Cardinality(Req)
    BY RequestsAssumption, FS_Subset
  <1>2. \A r \in senders : sends[r] \in notices[r]
    OBVIOUS
  <1>3. \A n \in Outbox : \E r \in senders : sends[r] = n
    BY <1>2 DEF Outbox, Processes
  <1>4. sends \in Surjection(senders, Outbox)
    BY <1>2, <1>3 DEF Surjection, Outbox
  <1>5. IsFiniteSet(Outbox) /\ Cardinality(Outbox) <= Cardinality(senders)
    BY <1>1, <1>4, FS_Surjection
  <1>6. Cardinality(Outbox) \in Nat /\ Cardinality(senders) \in Nat /\ Cardinality(Req) \in Nat
    BY <1>1, <1>5, RequestsAssumption, FS_CardinalityType
  <1>7. QED
    BY <1>1, <1>5, <1>6, SameCardinality

\* A commit puts its notifications into the outbox.
LEMMA CommitAnnounces ==
    ASSUME TxInv, NEW r \in Req, Commit(r)
    PROVE  \A news : Announced(r) = news =>
                /\ P!Cardinality(UNION {notices[q] : q \in Req}) < Cardinality(Req) + 1
                /\ UNION {notices'[q] : q \in Req} = (UNION {notices[q] : q \in Req}) \cup news
  <1>1. notices' = [notices EXCEPT ![r] = Announced(r)] /\ notices[r] = {} /\ DOMAIN notices = Req
    BY DEF Commit, TxInv, Processes, At
  <1>2. UNION {notices'[q] : q \in Req} = (UNION {notices[q] : q \in Req}) \cup Announced(r)
    BY <1>1
  <1>3. P!Cardinality(Outbox) < Cardinality(Req) + 1
    BY OutboxBounded DEF TxInv
  <1>4. QED
    BY <1>2, <1>3 DEF Outbox

\* The tables that a call does not write stay as they are.
LEMMA OverNothing ==
    ASSUME Tables
    PROVE  /\ Over(lots, Empty) = lots /\ Over(contracts, Empty) = contracts
           /\ Over(allocs, Empty) = allocs /\ Over(shipments, Empty) = shipments
           /\ documents \cup {} = documents
           /\ [l \in Lot |-> adjustments[l]] = adjustments
  BY DEF Tables, Typed, IsTable, Over, Empty

\* A call that the ledger allows is a step of it.
LEMMA CallIsStep ==
    /\ \A a \in Alloc, c \in DOMAIN contracts, l \in DOMAIN lots, x \in Weights :
            P!AllocateLot(a, c, l, x) => P!Next
    /\ \A s \in Shipment, c \in DOMAIN contracts, ids \in (SUBSET DOMAIN allocs) \ {{}} :
            P!CreateShipment(s, c, ids) => P!Next
    /\ \A l \in DOMAIN lots, delta \in Adjustments : P!AdjustStock(l, delta) => P!Next
    /\ \A s \in DOMAIN shipments, status \in ShipmentStatus : P!UpdateStatus(s, status) => P!Next
    /\ \A s \in DOMAIN shipments, types \in (SUBSET DocType) \ {{}} :
            P!GenerateDocuments(s, types) => P!Next
    /\ \A n \in Outbox : P!Dispatch(n) => P!Next
  <1>1. ShipmentStatus = P!ShipmentStatus
    BY DEF ShipmentStatus, P!ShipmentStatus
  <1>2. QED
    BY <1>1 DEF P!Next, Outbox

\* What a commit does to the tables, once the rows it writes are known.
LEMMA CommitAllocate ==
    ASSUME TxInv, NEW r \in Req, Commit(r), call[r].op = "allocate"
    PROVE  P!Next
  <1> PICK a, c, l, x :
            a = call[r].alloc /\ c = call[r].contract /\ l = call[r].lot /\ x = call[r].x
    OBVIOUS
  <1> DEFINE taken == Taken(lots[l], x)
             newAllocs == Insert(allocs, a, NewAllocation(r))
             allocated == Stored(Scale * contracts[c].allocated + x)
  <1>1. a \in Alloc /\ c \in Contract /\ l \in Lot /\ x \in Weights
    BY CallsAssumption DEF TxInv, Processes, Call, NoCall
  <1>2. AllocateFits(r) /\ draft[r] = AllocateWrites(r, [taken EXCEPT !.status = "allocated"], {})
        /\ a \notin DOMAIN allocs
    BY WritesAreLocked DEF StageOK, AllocateOK, At, Commit, TxInv, Requests, FreshIds, InTransaction
  <1>3. /\ draft[r].lots = Row(l, [taken EXCEPT !.status = "allocated"])
        /\ draft[r].contracts = Row(c, [contracts[c] EXCEPT !.allocated = allocated])
        /\ draft[r].allocs = Row(a, NewAllocation(r))
        /\ draft[r].shipments = Empty /\ draft[r].documents = {}
    BY <1>2 DEF AllocateWrites, Writes
  <1>4. /\ IsTable(lots, Lot, LotRow) /\ IsTable(contracts, Contract, ContractRow)
        /\ IsTable(allocs, Alloc, AllocRow)
    BY DEF TxInv, Tables, Typed
  <1>5. allocs' = newAllocs
    <2>1. allocs' = Over(allocs, Row(a, NewAllocation(r)))
      BY <1>3 DEF Commit
    <2>2. QED
      BY <1>4, <2>1, OverRow
  <1>6. contracts' = [contracts EXCEPT ![c].allocated = allocated]
    <2>1. contracts' = [contracts EXCEPT ![c] = [contracts[c] EXCEPT !.allocated = allocated]]
      <3>1. contracts' = Over(contracts, Row(c, [contracts[c] EXCEPT !.allocated = allocated]))
        BY <1>3 DEF Commit
      <3>2. c \in DOMAIN contracts
        BY <1>2 DEF AllocateFits
      <3> HIDE DEF allocated
      <3>3. QED
        BY <1>4, <3>1, <3>2, OverRow
    <2>2. QED
      BY <2>1
  <1>7. lots' = [lots EXCEPT ![l] = [taken EXCEPT !.status = "allocated"]]
    <2>1. lots' = Over(lots, Row(l, [taken EXCEPT !.status = "allocated"]))
      BY <1>3 DEF Commit
    <2>2. l \in DOMAIN lots
      BY <1>2 DEF AllocateFits
    <2> HIDE DEF taken
    <2>3. QED
      BY <1>4, <2>1, <2>2, OverRow
  <1>8. P!Refreshed(P!Taken(lots[l], x), l, newAllocs) = [taken EXCEPT !.status = "allocated"]
    <2>1. a \in OpenAllocations(newAllocs, l)
      BY DEF OpenAllocations, Insert, NewAllocation
    <2>2. LotStatusOf(taken.available, OpenAllocations(newAllocs, l)) = "allocated"
      BY <2>1 DEF LotStatusOf
    <2>3. P!Taken(lots[l], x) = taken
          /\ P!LotStatusOf(taken.available, P!OpenAllocations(newAllocs, l))
                = LotStatusOf(taken.available, OpenAllocations(newAllocs, l))
      BY SameOperators, Zenon
    <2>4. QED
      BY <2>2, <2>3, Zenon DEF P!Refreshed
  <1>9. Announced(r) = {n \in {[event |-> "contract_fully_allocated", about |-> c]} :
                          allocated >= contracts[c].quantity}
    <2>1. draft[r].contracts[c] = [contracts[c] EXCEPT !.allocated = allocated]
      BY <1>3 DEF Row
    <2>2. contracts[c] \in ContractRow
      BY <1>2, <1>4 DEF AllocateFits, IsTable
    <2>3. draft[r].contracts[c].allocated = allocated /\ draft[r].contracts[c].quantity = contracts[c].quantity
      BY <2>1, <2>2 DEF ContractRow
    <2>4. QED
      BY <2>3 DEF Announced
  <1>10. UNCHANGED <<shipments, documents, adjustments>>
    BY <1>3, OverNothing DEF Commit, TxInv
  <1>11. P!AllocateLot(a, c, l, x)
    <2>1. ~P!Exceeds(x, contracts[c].quantity - contracts[c].allocated)
          /\ ~P!Exceeds(x, lots[l].available)
      BY <1>2, SameOperators DEF AllocateFits
    <2>2. contracts[c].status # "closed"
      BY <1>2 DEF AllocateFits
    <2> DEFINE inserted == P!Insert(allocs, a, [contract |-> c, lot |-> l, kg |-> P!Stored(x),
                                                status |-> "allocated", shipment |-> NoShipment])
               total == P!Stored(Scale * contracts[c].allocated + x)
    <2>3. inserted = newAllocs
      BY SameOperators, Zenon DEF NewAllocation
    <2>4. total = allocated
      BY SameOperators, Zenon
    <2> HIDE DEF taken, newAllocs, allocated, inserted, total
    <2>5. allocs' = inserted
      BY <1>5, <2>3
    <2>6. contracts' = [contracts EXCEPT ![c].allocated = total]
      BY <1>6, <2>4, Zenon
    <2>7. lots' = [lots EXCEPT ![l] = P!Refreshed(P!Taken(lots[l], x), l, inserted)]
      BY <1>7, <1>8, <2>3, Zenon
    <2>8. P!Announce({n \in {[event |-> "contract_fully_allocated", about |-> c]} :
                          total >= contracts[c].quantity})
      BY <1>9, <2>4, CommitAnnounces, Zenon DEF P!Announce
    <2>9. QED
      BY <1>2, <1>10, <2>1, <2>2, <2>5, <2>6, <2>7, <2>8, Zenon DEF P!AllocateLot, inserted, total
  <1>12. c \in DOMAIN contracts /\ l \in DOMAIN lots
    BY <1>2 DEF AllocateFits
  <1>13. QED
    BY <1>1, <1>11, <1>12, CallIsStep

\* The COMMIT of adjustStock is the ledger's AdjustStock.
LEMMA CommitAdjust ==
    ASSUME TxInv, NEW r \in Req, Commit(r), call[r].op = "adjust"
    PROVE  P!Next
  <1> PICK l, delta : l = call[r].lot /\ delta = call[r].delta
    OBVIOUS
  <1> DEFINE corrected == Corrected(lots[l], delta)
             status == LotStatusOf(corrected.available, OpenAllocations(allocs, l))
  <1>1. l \in Lot /\ delta \in Adjustments
    BY CallsAssumption DEF TxInv, Processes, Call, NoCall
  <1>2. AdjustFits(r)
        /\ draft[r] = Writes(Row(l, [corrected EXCEPT !.status = status]), Empty, Empty, Empty, {}, {}, {})
    BY WritesAreLocked DEF StageOK, AdjustOK, At, Commit
  <1>3. /\ draft[r].lots = Row(l, [corrected EXCEPT !.status = status])
        /\ draft[r].contracts = Empty /\ draft[r].allocs = Empty
        /\ draft[r].shipments = Empty /\ draft[r].documents = {}
    BY <1>2 DEF Writes
  <1>4. IsTable(lots, Lot, LotRow) /\ adjustments \in [Lot -> Int]
    BY DEF TxInv, Tables, Typed
  <1>5. lots' = [lots EXCEPT ![l] = [corrected EXCEPT !.status = status]]
    <2>1. lots' = Over(lots, Row(l, [corrected EXCEPT !.status = status]))
      BY <1>3 DEF Commit
    <2>2. l \in DOMAIN lots
      BY <1>2 DEF AdjustFits
    <2> HIDE DEF corrected, status
    <2>3. QED
      BY <1>4, <2>1, <2>2, OverRow
  <1>6. P!Refreshed(P!Corrected(lots[l], delta), l, allocs) = [corrected EXCEPT !.status = status]
    BY SameOperators, Zenon DEF P!Refreshed
  <1>7. adjustments' = [adjustments EXCEPT ![l] = @ + P!StoredCorrection(delta)]
    <2>1. adjustments' = [m \in Lot |-> IF m = l THEN adjustments[m] + StoredCorrection(delta)
                                        ELSE adjustments[m]]
      BY DEF Commit
    <2>2. P!StoredCorrection(delta) = StoredCorrection(delta)
      BY SameOperators
    <2>3. QED
      BY <1>1, <1>4, <2>1, <2>2
  <1>8. UNCHANGED <<contracts, allocs, shipments, documents>>
    BY <1>3, OverNothing DEF Commit, TxInv
  <1>9. P!Announce({[event |-> "stock_adjusted", about |-> l]})
    <2>1. Announced(r) = {[event |-> "stock_adjusted", about |-> l]}
      BY DEF Announced
    <2>2. QED
      BY <2>1, CommitAnnounces, Zenon DEF P!Announce
  <1>10. P!Corrected(lots[l], delta) = corrected
    BY SameOperators, Zenon
  <1>11. P!AdjustStock(l, delta)
    <2>1. Scale * lots[l].total + delta >= -Epsilon /\ Scale * lots[l].available + delta >= -Epsilon
          /\ P!Corrected(lots[l], delta).total <= MaxTotal
      BY <1>2, <1>10, Zenon DEF AdjustFits
    <2> HIDE DEF corrected, status
    <2>2. QED
      BY <1>5, <1>6, <1>7, <1>8, <1>9, <2>1, Zenon DEF P!AdjustStock
  <1>12. l \in DOMAIN lots
    BY <1>2 DEF AdjustFits
  <1>13. QED
    BY <1>1, <1>11, <1>12, CallIsStep

\* The COMMIT of updateStatus is the ledger's UpdateStatus.
LEMMA CommitStatus ==
    ASSUME TxInv, NEW r \in Req, Commit(r), call[r].op = "status"
    PROVE  P!Next
  <1> PICK s, status : s = call[r].shipment /\ status = call[r].status
    OBVIOUS
  <1>1. status \in ShipmentStatus
    BY CallsAssumption DEF TxInv, Processes, Call, NoCall
  <1>2. /\ s \in DOMAIN shipments /\ StageOf[status] >= StageOf[shipments[s].status]
        /\ draft[r] = Writes(Empty, Empty, Empty, Row(s, [shipments[s] EXCEPT !.status = status]), {}, {}, {})
    BY WritesAreLocked DEF StageOK, StatusOK, At, Commit
  <1>3. /\ draft[r].shipments = Row(s, [shipments[s] EXCEPT !.status = status])
        /\ draft[r].contracts = Empty /\ draft[r].allocs = Empty
        /\ draft[r].lots = Empty /\ draft[r].documents = {}
    BY <1>2 DEF Writes
  <1>4. shipments' = [shipments EXCEPT ![s].status = status]
    <2>1. IsTable(shipments, Shipment, ShipmentRow)
      BY DEF TxInv, Tables, Typed
    <2>2. shipments' = [shipments EXCEPT ![s] = [shipments[s] EXCEPT !.status = status]]
      <3>1. shipments' = Over(shipments, Row(s, [shipments[s] EXCEPT !.status = status]))
        BY <1>3 DEF Commit
      <3>2. QED
        BY <1>2, <2>1, <3>1, OverRow
    <2>3. QED
      BY <2>2
  <1>5. UNCHANGED <<lots, contracts, allocs, documents, adjustments>>
    BY <1>3, OverNothing DEF Commit, TxInv
  <1>6. P!Announce({n \in {[event |-> "shipment_status_changed", about |-> s, status |-> status]} :
                      status # "planned"})
    <2>1. Announced(r) = {n \in {[event |-> "shipment_status_changed", about |-> s, status |-> status]} :
                              status # "planned"}
      BY DEF Announced
    <2>2. QED
      BY <2>1, CommitAnnounces, Zenon DEF P!Announce
  <1>7. P!NotBackwards(s, status)
    BY <1>2 DEF P!NotBackwards, P!StageOf, StageOf
  <1>8. P!UpdateStatus(s, status)
    BY <1>4, <1>5, <1>6, <1>7, Zenon DEF P!UpdateStatus
  <1>9. QED
    BY <1>1, <1>2, <1>8, CallIsStep

\* The COMMIT of generateDocuments is the ledger's GenerateDocuments.
LEMMA CommitDocs ==
    ASSUME TxInv, NEW r \in Req, Commit(r), call[r].op = "docs"
    PROVE  P!Next
  <1> PICK s, types : s = call[r].shipment /\ types = call[r].types
    OBVIOUS
  <1> DEFINE snapshot == shipments[s].snapshot
  <1>1. types \in (SUBSET DocType) \ {{}}
    BY CallsAssumption DEF TxInv, Processes, Call, NoCall
  <1>2. s \in DOMAIN shipments /\ AllocationsOf(allocs, s) # {} /\ draft[r] = DocsWrites(r)
    BY WritesAreLocked DEF StageOK, DocsOK, At, Commit
  <1>3. /\ draft[r].documents = {[shipment |-> s, type |-> type, payload |-> snapshot] : type \in types}
        /\ draft[r].contracts = Empty /\ draft[r].allocs = Empty
        /\ draft[r].lots = Empty /\ draft[r].shipments = Empty
    BY <1>2 DEF Writes, DocsWrites
  <1>4. UNCHANGED <<lots, contracts, allocs, shipments, adjustments>>
    BY <1>3, OverNothing DEF Commit, TxInv
  <1>5. P!Announce({[event |-> "shipment_documents_ready", about |-> s]})
    <2>1. Announced(r) = {[event |-> "shipment_documents_ready", about |-> s]}
      BY DEF Announced
    <2>2. QED
      BY <2>1, CommitAnnounces, Zenon DEF P!Announce
  <1>6. P!Lines(allocs, P!AllocationsOf(allocs, s)) = snapshot
    BY <1>2 DEF TxInv, Tables, P!Traceable, P!SnapshotFaithful
  <1>7. P!AllocationsOf(allocs, s) # {}
    BY <1>2, SameOperators
  <1>8. documents' = documents \cup
            {[shipment |-> s, type |-> type,
              payload |-> IF type = "traceability_report" THEN shipments[s].snapshot
                          ELSE P!Lines(allocs, P!AllocationsOf(allocs, s))] : type \in types}
    BY <1>3, <1>6 DEF Commit
  <1>9. P!GenerateDocuments(s, types)
    BY <1>4, <1>5, <1>7, <1>8, Zenon DEF P!GenerateDocuments
  <1>10. QED
    BY <1>1, <1>2, <1>9, CallIsStep

\* createShipment's check of the total leaves the contract within its quantity.
LEMMA ShippedTotal ==
    ASSUME Tables, NEW r \in Req, ShippingOK(r)
    PROVE  contracts[call[r].contract].shipped + Weight(allocs, call[r].ids)
                \in 0 .. contracts[call[r].contract].quantity
  <1> DEFINE contract == contracts[call[r].contract]
             weight == Weight(allocs, call[r].ids)
             total == contract.shipped + weight
  <1>1. contract.shipped \in Nat /\ contract.quantity \in Nat
    BY DEF Tables, Typed, IsTable, ContractRow, ShippingOK
  <1>2. weight \in Nat
    <2>1. P!Weighed(allocs)
      BY TableWeighed DEF Tables, Typed
    <2>2. call[r].ids \in SUBSET DOMAIN allocs
      BY DEF ShippingOK
    <2>3. P!Weight(allocs, call[r].ids) \in Nat
      BY <2>1, <2>2, P!WeightType, ScaleAssumption, NoShipmentAssumption, WeightsAssumption, Zenon
    <2>4. QED
      BY <2>3, SameWeight
  <1>3. ~(Scale * total - Scale * contract.quantity > Epsilon)
    BY DEF ShippingOK, ShipmentFits, Exceeds
  <1> HIDE DEF contract, weight
  <1>4. total \in Int /\ contract.quantity \in Int /\ total >= 0
    BY <1>1, <1>2
  <1>5. Scale * total < Scale * contract.quantity + Scale
    <2> HIDE DEF total
    <2>1. Scale * total \in Int /\ Scale * contract.quantity \in Int
      BY <1>4, ScaleAssumption
    <2>2. QED
      BY <1>3, <2>1, ScaleAssumption
  <1>6. total <= contract.quantity
    <2> HIDE DEF total
    <2>1. QED
      BY <1>4, <1>5, P!TimesCancel, ScaleAssumption, NoShipmentAssumption, WeightsAssumption, Zenon
  <1>7. QED
    BY <1>4, <1>6 DEF contract, weight

\* What a lot has open once the allocations of a shipment have left.
LEMMA OpenAfterShipping ==
    ASSUME Tables, NEW ids \in SUBSET DOMAIN allocs, NEW s, NEW l
    PROVE  OpenAllocations(P!ShippedIn(ids, s), l) = OpenAllocations(allocs, l) \ ids
  <1>1. \A a \in DOMAIN allocs :
            /\ P!ShippedIn(ids, s)[a].lot = allocs[a].lot
            /\ P!ShippedIn(ids, s)[a].status = IF a \in ids THEN "shipped" ELSE allocs[a].status
    BY DEF P!ShippedIn, Tables, Typed, IsTable, AllocRow
  <1>2. DOMAIN P!ShippedIn(ids, s) = DOMAIN allocs
    BY DEF P!ShippedIn
  <1>3. QED
    BY <1>1, <1>2 DEF OpenAllocations

\* The COMMIT of createShipment is the ledger's CreateShipment.
LEMMA CommitShip ==
    ASSUME TxInv, NEW r \in Req, Commit(r), call[r].op = "ship"
    PROVE  P!Next
  <1> PICK c, s, ids : c = call[r].contract /\ s = call[r].shipment /\ ids = call[r].ids
    OBVIOUS
  <1> DEFINE contract == contracts[c]
             shipped == contract.shipped + Weight(allocs, ids)
             newAllocs == P!ShippedIn(ids, s)
  <1>1. s \in Shipment /\ ids # {}
    BY CallsAssumption DEF TxInv, Processes, Call, NoCall
  <1>2. ShippingOK(r) /\ draft[r].todo = {}
    BY WritesAreLocked DEF StageOK, ShipOK, At, Commit
  <1>3. /\ c \in DOMAIN contracts /\ s \notin DOMAIN shipments /\ ids \in SUBSET DOMAIN allocs
        /\ \A a \in ids : P!Shippable(a, c)
    BY <1>2 DEF ShippingOK, ShipmentFits, P!Shippable
  <1>4. /\ draft[r].contracts = Row(c, ShippedContract(r))
        /\ draft[r].allocs = [a \in ids |-> ShippedRow(r, a)]
        /\ draft[r].shipments = Row(s, NewShipment(r, Lines(allocs, ids)))
        /\ draft[r].documents = {}
        /\ DOMAIN draft[r].lots = Touched(r)
        /\ draft[r].lots = [l \in DOMAIN draft[r].lots |-> RefreshedRow(r, l)]
    BY <1>2 DEF ShippingOK, ShipWrites, Writes
  <1>5. /\ IsTable(lots, Lot, LotRow) /\ IsTable(contracts, Contract, ContractRow)
        /\ IsTable(allocs, Alloc, AllocRow) /\ IsTable(shipments, Shipment, ShipmentRow)
        /\ Tables
    BY DEF TxInv, Tables, Typed
  <1>6. allocs' = newAllocs
    <2>1. allocs' = Over(allocs, [a \in ids |-> ShippedRow(r, a)])
      BY <1>4 DEF Commit
    <2>2. \A a \in ids : ShippedRow(r, a) = [allocs[a] EXCEPT !.status = "shipped", !.shipment = s]
      BY DEF ShippedRow
    <2>3. QED
      BY <1>3, <2>1, <2>2 DEF Over, P!ShippedIn
  <1>7. contracts' = [contracts EXCEPT
                        ![c].shipped = shipped,
                        ![c].status = NextContractStatus(shipped, contract.quantity, contract.status)]
    <2> DEFINE status == NextContractStatus(shipped, contract.quantity, contract.status)
    <2>1. ShippedContract(r) = [contracts[c] EXCEPT !.shipped = shipped, !.status = status]
      BY DEF ShippedContract
    <2>2. contracts' = Over(contracts, Row(c, ShippedContract(r)))
      BY <1>4 DEF Commit
    <2> HIDE DEF shipped
    <2>3. contracts' = [contracts EXCEPT ![c] = ShippedContract(r)]
      BY <1>3, <1>5, <2>2, OverRow
    <2>4. QED
      BY <1>3, <1>5, <2>1, <2>3 DEF IsTable, ContractRow
  <1>8. shipped \in 0 .. contract.quantity
    BY <1>2, <1>5, ShippedTotal
  <1>9. shipments' = P!Insert(shipments, s, [contract |-> c, status |-> "planned",
                                              snapshot |-> P!Lines(allocs, ids)])
    <2>1. shipments' = Over(shipments, Row(s, NewShipment(r, Lines(allocs, ids))))
      BY <1>4 DEF Commit
    <2>2. shipments' = Insert(shipments, s, NewShipment(r, Lines(allocs, ids)))
      BY <1>5, <2>1, OverRow
    <2>3. QED
      BY <2>2, SameOperators, Zenon DEF NewShipment
  <1>10. lots' = [l \in DOMAIN lots |->
                    IF l \in {allocs[a].lot : a \in ids} THEN P!Refreshed(lots[l], l, newAllocs) ELSE lots[l]]
    <2>1. \A l : P!Refreshed(lots[l], l, newAllocs) = RefreshedRow(r, l)
      <3> SUFFICES ASSUME NEW l PROVE P!Refreshed(lots[l], l, newAllocs) = RefreshedRow(r, l)
        OBVIOUS
      <3>1. OpenAllocations(newAllocs, l) = OpenAllocations(allocs, l) \ ids
        BY <1>3, <1>5, OpenAfterShipping
      <3>2. P!OpenAllocations(newAllocs, l) = OpenAllocations(allocs, l) \ ids
        BY <3>1, SameOperators, Zenon
      <3>3. QED
        BY <3>2, SameOperators, Zenon DEF P!Refreshed, RefreshedRow
    <2>2. Touched(r) = {allocs[a].lot : a \in ids}
      BY DEF Touched
    <2>3. Touched(r) \subseteq DOMAIN lots
      BY <1>3, <1>5 DEF Tables, P!Traceable, P!ReferencesExist, Touched
    <2>4. lots' = Over(lots, draft[r].lots)
      BY DEF Commit
    <2> HIDE DEF newAllocs
    <2>5. QED
      BY <1>4, <2>1, <2>2, <2>3, <2>4 DEF Over
  <1>11. P!Announce({[event |-> "shipment_created", about |-> s]})
    <2>1. Announced(r) = {[event |-> "shipment_created", about |-> s]}
      BY DEF Announced
    <2>2. QED
      BY <2>1, CommitAnnounces, Zenon DEF P!Announce
  <1>12. UNCHANGED <<documents, adjustments>>
    BY <1>4, OverNothing DEF Commit, TxInv
  <1>13. P!CreateShipment(s, c, ids)
    <2> DEFINE total == contracts[c].shipped + P!Weight(allocs, ids)
    <2>1. shipped = total
      BY SameWeight, Zenon
    <2>2. NextContractStatus(shipped, contract.quantity, contract.status)
            = P!NextContractStatus(shipped, contract.quantity, contract.status)
      BY SameOperators, Zenon
    <2>3. \E newShipped \in 0 .. contracts[c].quantity :
            /\ newShipped = contracts[c].shipped + P!Weight(allocs, ids)
            /\ contracts' = [contracts EXCEPT
                  ![c].shipped = newShipped,
                  ![c].status = P!NextContractStatus(newShipped, contracts[c].quantity,
                                                     contracts[c].status)]
      <3> HIDE DEF shipped
      <3>1. shipped \in 0 .. contracts[c].quantity
            /\ contracts' = [contracts EXCEPT
                  ![c].shipped = shipped,
                  ![c].status = P!NextContractStatus(shipped, contracts[c].quantity,
                                                     contracts[c].status)]
        BY <1>7, <1>8, <2>2, Zenon
      <3>2. QED
        BY <2>1, <3>1, Zenon
    <2> HIDE DEF shipped, contract
    <2>4. QED
      BY <1>3, <1>6, <1>9, <1>10, <1>11, <1>12, <2>3, Zenon DEF P!CreateShipment
  <1>14. QED
    BY <1>1, <1>3, <1>13, CallIsStep

\* A transaction commits as one call of the ledger.
LEMMA CommitIsCall ==
    ASSUME TxInv, NEW r \in Req, Commit(r)
    PROVE  P!Next
  <1>1. StageOK(r)
    BY WritesAreLocked DEF Commit
  <1>2. QED
    BY <1>1, CommitAllocate, CommitShip, CommitAdjust, CommitStatus, CommitDocs DEF StageOK

------------------------------------------------------------------------------
\* A COMMIT leaves the others their rows

\* The ledger's type invariant and traces, as its lemmas want them.
LEMMA LedgerTyped ==
    ASSUME Tables, Processes
    PROVE  P!TypeOK /\ P!Traceable
  <1>1. UNION {notices[r] : r \in Req} \subseteq Notice
    BY DEF Processes
  <1>2. QED
    BY <1>1, SameTypes DEF Tables

\* What the other transactions commit leaves a request the rows it has locked.
LEMMA CommitKept ==
    ASSUME TxInv, NEW q \in Req, Commit(q), NEW r \in Req, r # q
    PROVE  Kept(r)
  <1>1. /\ P!AllocationsKept /\ P!ShipmentsKept
    <2>1. P!TypeOK
      BY LedgerTyped DEF TxInv
    <2>2. [P!Next]_(P!vars)
      BY CommitIsCall
    <2>3. QED
      BY <2>1, <2>2, P!RecordsNext, ScaleAssumption, NoShipmentAssumption, WeightsAssumption, Zenon
  <1>2. /\ \A c \in DOMAIN draft[q].contracts : Key("contract", c) \in holds[q]
        /\ \A l \in DOMAIN draft[q].lots : Key("lot", l) \in holds[q]
        /\ \A s \in DOMAIN draft[q].shipments : Key("shipment", s) \in holds[q]
        /\ \A a \in DOMAIN draft[q].allocs :
                /\ Key("alloc", a) \in holds[q] \/ a \notin DOMAIN allocs
                /\ Key("lot", draft[q].allocs[a].lot) \in holds[q]
                /\ a \in DOMAIN allocs => allocs[a].lot = draft[q].allocs[a].lot
    BY WritesAreLocked DEF Commit
  <1>3. \A key \in holds[r] : key \in holds[q] => key[1] = "shipment_ref"
    BY DEF TxInv, Requests, Exclusive
  <1>4. \A table, k : Key(table, k)[1] = table
    BY DEF Key
  <1>5. call'[r] = call[r] /\ pc'[r] = pc[r] /\ holds'[r] = holds[r] /\ draft'[r] = draft[r]
    BY DEF TxInv, Processes, Commit, Goto, LetGo
  <1>6. \A c \in DOMAIN contracts : Key("contract", c) \in holds[r] =>
            c \in DOMAIN contracts' /\ contracts'[c] = contracts[c]
    BY <1>2, <1>3, <1>4 DEF Commit, Over
  <1>7. \A l \in DOMAIN lots : Key("lot", l) \in holds[r] =>
            l \in DOMAIN lots' /\ lots'[l] = lots[l]
    BY <1>2, <1>3, <1>4 DEF Commit, Over
  <1>8. \A l : Key("lot", l) \in holds[r] => OpenAllocations(allocs', l) = OpenAllocations(allocs, l)
    <2> SUFFICES ASSUME NEW l, Key("lot", l) \in holds[r]
                 PROVE  OpenAllocations(allocs', l) = OpenAllocations(allocs, l)
      OBVIOUS
    <2>1. allocs' = Over(allocs, draft[q].allocs)
      BY DEF Commit
    <2>2. \A a \in DOMAIN draft[q].allocs :
            draft[q].allocs[a].lot # l /\ (a \in DOMAIN allocs => allocs[a].lot # l)
      BY <1>2, <1>3, <1>4
    <2>3. QED
      BY <2>1, <2>2 DEF Over, OpenAllocations
  <1>9. \A a \in DOMAIN allocs :
            /\ a \in DOMAIN allocs'
            /\ Key("alloc", a) \in holds[r] => allocs'[a] = allocs[a]
    BY <1>2, <1>3, <1>4 DEF Commit, Over
  <1>10. \A s : Key("shipment", s) \in holds[r] =>
            /\ s \in DOMAIN shipments' <=> s \in DOMAIN shipments
            /\ s \in DOMAIN shipments => shipments'[s] = shipments[s]
    BY <1>2, <1>3, <1>4 DEF Commit, Over
  <1>11. \A s \in DOMAIN shipments :
            /\ s \in DOMAIN shipments' /\ shipments'[s].snapshot = shipments[s].snapshot
            /\ AllocationsOf(allocs, s) # {} => AllocationsOf(allocs', s) # {}
    <2> SUFFICES ASSUME NEW s \in DOMAIN shipments
                 PROVE  /\ s \in DOMAIN shipments' /\ shipments'[s].snapshot = shipments[s].snapshot
                        /\ AllocationsOf(allocs, s) # {} => AllocationsOf(allocs', s) # {}
      OBVIOUS
    <2>1. s \in DOMAIN shipments' /\ shipments'[s].snapshot = shipments[s].snapshot
      BY <1>1 DEF P!ShipmentsKept
    <2>2. ASSUME NEW a \in DOMAIN allocs, allocs[a].shipment = s
          PROVE  a \in DOMAIN allocs' /\ allocs'[a].shipment = s
      <3>1. s # NoShipment
        BY NoShipmentAssumption DEF TxInv, Tables, Typed, IsTable
      <3>2. allocs[a].status # "allocated"
        BY <2>2, <3>1 DEF TxInv, Tables, P!Traceable, P!ReferencesExist
      <3>3. a \in DOMAIN allocs' /\ allocs'[a] = allocs[a]
        BY <1>1, <3>2 DEF P!AllocationsKept
      <3>4. QED
        BY <2>2, <3>3
    <2>3. QED
      BY <2>1, <2>2 DEF AllocationsOf
  <1>12. QED
    BY <1>5, <1>6, <1>7, <1>8, <1>9, <1>10, <1>11 DEF Kept

\* The ledger of the next state, and its types and traces.
LEMMA CommitTables ==
    ASSUME TxInv, NEW r \in Req, Commit(r)
    PROVE  Tables'
  <1>1. P!TypeOK' /\ P!Traceable'
    <2>1. P!TypeOK /\ P!Traceable
      BY LedgerTyped DEF TxInv
    <2>2. [P!Next]_(P!vars)
      BY CommitIsCall
    <2>3. P!TypeOK'
      BY <2>1, <2>2, P!TypeNext, ScaleAssumption, NoShipmentAssumption, WeightsAssumption, Zenon
    <2>4. P!Traceable'
      BY <2>1, <2>2, P!TraceableNext, ScaleAssumption, NoShipmentAssumption, WeightsAssumption, Zenon
    <2>5. QED
      BY <2>3, <2>4
  <1>2. Typed'
    BY <1>1 DEF P!TypeOK, Typed, P!IsTable, IsTable, P!LotRow, LotRow, P!ContractRow, ContractRow,
                P!AllocRow, AllocRow, P!ShipmentRow, ShipmentRow, P!Document, Document,
                P!Line, Line, P!LotStatus, LotStatus, P!ContractStatus, ContractStatus,
                P!ShipmentStatus, ShipmentStatus
  <1>3. IsFiniteSet(DOMAIN allocs')
    <2>1. IsFiniteSet(DOMAIN draft[r].allocs)
      <3>1. \A a \in DOMAIN draft[r].allocs : a \in DOMAIN allocs \cup {call[r].alloc}
        BY WritesAreLocked DEF Commit
      <3>2. IsFiniteSet(DOMAIN allocs \cup {call[r].alloc})
        BY FS_AddElement DEF TxInv, Tables
      <3>3. QED
        BY <3>1, <3>2, FS_Subset
    <2>2. DOMAIN allocs' = DOMAIN allocs \cup DOMAIN draft[r].allocs
      BY DEF Commit, Over
    <2>3. IsFiniteSet(DOMAIN allocs \cup DOMAIN draft[r].allocs)
      BY <2>1, FS_Union DEF TxInv, Tables
    <2>4. QED
      BY <2>2, <2>3, Zenon
  <1>4. QED
    BY <1>1, <1>2, <1>3 DEF Tables

------------------------------------------------------------------------------
\* Every statement takes its request to the next stage

\* A draft is its eight fields.
Fields == {"lots", "contracts", "allocs", "shipments", "documents", "reading", "next", "todo"}

\* A record of the eight fields is what they say.
LEMMA WritesIs ==
    ASSUME NEW d, d = [field \in Fields |-> d[field]], d.next = {}
    PROVE  d = Writes(d.lots, d.contracts, d.allocs, d.shipments, d.documents, d.reading, d.todo)
  <1> DEFINE w == Writes(d.lots, d.contracts, d.allocs, d.shipments, d.documents, d.reading, d.todo)
  <1>1. w = [field \in DOMAIN w |-> w[field]]
    BY DEF Writes
  <1>2. DOMAIN w = Fields
    BY DEF Writes, Fields
  <1>3. \A field \in Fields : d[field] = w[field]
    BY DEF Writes, Fields
  <1> HIDE DEF w
  <1>4. d = [field \in Fields |-> w[field]]
    BY <1>3, Zenon
  <1>5. QED
    BY <1>1, <1>2, <1>4, Zenon DEF w

\* A rollback leaves nothing of a request.
LEMMA RolledBack ==
    ASSUME Processes, NEW r \in Req, Rollback(r)
    PROVE  RequestOK(r)' /\ pc'[r] = "failed"
  BY DEF Processes, Rollback, Goto, LetGo, RequestOK, InTransaction, At

\* Every request has its control state.
LEMMA ProcessDomains ==
    ASSUME Processes
    PROVE  DOMAIN call = Req /\ DOMAIN pc = Req /\ DOMAIN holds = Req /\ DOMAIN draft = Req
  BY DEF Processes

\* A request in a transaction makes one of the calls.
LEMMA CallOf ==
    ASSUME Processes, NEW r \in Req, pc[r] # "idle"
    PROVE  /\ call[r] \in Call
           /\ call[r].op \in {"allocate", "ship", "adjust", "status", "docs"}
  BY CallsAssumption DEF Processes, Call

\* BEGIN comes before the first statement, with nothing locked or written.
LEMMA ConnectStage ==
    ASSUME TxInv, NEW r \in Req, Connect(r)
    PROVE  RequestOK(r)'
  <1>1. At(r, "connect") /\ holds[r] = {} /\ draft[r] = NoDraft
    BY DEF TxInv, Requests, RequestOK, Connect, At, InTransaction
  <1>2. call'[r] = call[r] /\ holds'[r] = {}
    BY <1>1 DEF Connect
  <1>3. pc'[r] = Head(Program(call[r].op))
    BY DEF TxInv, Processes, Connect, Goto
  <1>4. draft'[r] = Writes(Empty, Empty, Empty, Empty, {}, {},
                           IF call[r].op \in {"allocate", "adjust"} THEN {call[r].lot} ELSE {})
    <2> DEFINE waiting == IF call[r].op \in {"allocate", "adjust"} THEN {call[r].lot} ELSE {}
    <2>1. draft' = [draft EXCEPT ![r].todo = waiting]
      BY DEF Connect
    <2> HIDE DEF waiting
    <2>2. draft'[r] = [draft[r] EXCEPT !.todo = waiting]
      BY <2>1, ProcessDomains DEF TxInv
    <2>3. draft'[r] = Writes(Empty, Empty, Empty, Empty, {}, {}, waiting)
      BY <1>1, <2>2 DEF NoDraft, Writes
    <2>4. QED
      BY <2>3 DEF waiting
  <1>5. call[r].op \in {"allocate", "ship", "adjust", "status", "docs"}
    BY <1>1, CallOf DEF TxInv, At
  <1>6. CASE call[r].op = "allocate"
    <2>1. pc'[r] = "contract"
      BY <1>3, <1>6 DEF Program
    <2>2. QED
      BY <1>2, <1>4, <1>6, <2>1 DEF RequestOK, StageOK, AllocateOK, At, InTransaction
  <1>7. CASE call[r].op = "ship"
    <2>1. pc'[r] = "contract"
      BY <1>3, <1>7 DEF Program
    <2>2. QED
      BY <1>2, <1>4, <1>7, <2>1 DEF RequestOK, StageOK, ShipOK, At, InTransaction
  <1>8. CASE call[r].op = "adjust"
    <2>1. pc'[r] = "lot"
      BY <1>3, <1>8 DEF Program
    <2>2. QED
      BY <1>2, <1>4, <1>8, <2>1 DEF RequestOK, StageOK, AdjustOK, At, InTransaction
  <1>9. CASE call[r].op = "status"
    <2>1. pc'[r] = "shipment"
      BY <1>3, <1>9 DEF Program
    <2>2. QED
      BY <1>2, <1>4, <1>9, <2>1 DEF RequestOK, StageOK, StatusOK, At, InTransaction
  <1>10. CASE call[r].op = "docs"
    <2>1. pc'[r] = "read"
      BY <1>3, <1>10 DEF Program
    <2>2. QED
      BY <1>2, <1>4, <1>10, <2>1 DEF RequestOK, StageOK, DocsOK, At, InTransaction
  <1>11. QED
    BY <1>5, <1>6, <1>7, <1>8, <1>9, <1>10

\* The contract is there and, for an allocation, open once it is locked.
LEMMA LockContractStage ==
    ASSUME TxInv, NEW r \in Req, LockContract(r)
    PROVE  RequestOK(r)'
  <1> DEFINE c == call[r].contract
  <1>1. At(r, "contract") /\ UNCHANGED <<tables, call>> /\ StageOK(r)
    BY DEF TxInv, Requests, RequestOK, LockContract, At, InTransaction
  <1>2. holds[r] = {} /\ call[r].op \in {"allocate", "ship"}
        /\ (call[r].op = "allocate" => draft[r] = Writes(Empty, Empty, Empty, Empty, {}, {}, {call[r].lot}))
        /\ (call[r].op = "ship" => draft[r] = Writes(Empty, Empty, Empty, Empty, {}, {}, {}))
    BY <1>1 DEF StageOK, AllocateOK, ShipOK, AdjustOK, StatusOK, DocsOK, At
  <1>3. CASE Rollback(r)
    BY <1>3, RolledBack DEF TxInv
  <1>4. ASSUME c \in DOMAIN contracts, call[r].op = "allocate" => contracts[c].status # "closed",
               TakeLock(r), Goto(r, Following(r)), UNCHANGED draft
        PROVE  RequestOK(r)'
    <2>1. holds'[r] = {Key("contract", c)}
      BY <1>1, <1>2, <1>4 DEF TakeLock, TxInv, Processes, Wanted, At
    <2>2. pc'[r] = IF call[r].op = "allocate" THEN "lot" ELSE "number"
      BY <1>1, <1>2, <1>4, FollowingIs DEF Goto, TxInv, Processes, At
    <2>3. draft'[r] = draft[r] /\ call'[r] = call[r] /\ contracts' = contracts
      BY <1>1, <1>4 DEF tables
    <2>4. CASE call[r].op = "allocate"
      BY <1>2, <1>4, <2>1, <2>2, <2>3, <2>4 DEF RequestOK, StageOK, AllocateOK, At, InTransaction
    <2>5. CASE call[r].op = "ship"
      BY <1>2, <1>4, <2>1, <2>2, <2>3, <2>5 DEF RequestOK, StageOK, ShipOK, At, InTransaction
    <2>6. QED
      BY <1>2, <2>4, <2>5
  <1>5. QED
    BY <1>3, <1>4 DEF LockContract

\* Both of allocateLot's checks are made on rows that are locked.
LEMMA TakeFromLotStage ==
    ASSUME TxInv, NEW r \in Req, TakeFromLot(r)
    PROVE  RequestOK(r)'
  <1> DEFINE c == call[r].contract
             l == call[r].lot
             x == call[r].x
  <1>1. At(r, "lot") /\ call[r].op = "allocate" /\ UNCHANGED <<tables, call>> /\ AllocateOK(r)
    BY DEF TxInv, Requests, RequestOK, StageOK, TakeFromLot, At, InTransaction
  <1>2. holds[r] = {Key("contract", c)} /\ c \in DOMAIN contracts /\ contracts[c].status # "closed"
        /\ draft[r] = Writes(Empty, Empty, Empty, Empty, {}, {}, {l})
    BY <1>1 DEF AllocateOK, At
  <1>3. CASE Rollback(r)
    BY <1>3, RolledBack DEF TxInv
  <1>4. ASSUME l \in DOMAIN lots,
               ~Exceeds(x, contracts[c].quantity - contracts[c].allocated),
               ~Exceeds(x, lots[l].available),
               TakeLock(r), Goto(r, Following(r)),
               draft' = [draft EXCEPT
                    ![r].allocs = Row(call[r].alloc, [contract |-> c, lot |-> l, kg |-> Stored(x),
                                        status |-> "allocated", shipment |-> NoShipment]),
                    ![r].contracts = Row(c, [contracts[c] EXCEPT
                                        !.allocated = Stored(Scale * contracts[c].allocated + x)]),
                    ![r].lots = Row(l, Taken(lots[l], x))]
        PROVE  RequestOK(r)'
    <2>1. holds'[r] = {Key("contract", c), Key("lot", l)}
      BY <1>1, <1>2, <1>4 DEF TakeLock, TxInv, Processes, Wanted, NextLot, At
    <2>2. pc'[r] = "refresh"
      BY <1>1, <1>2, <1>4, FollowingIs DEF Goto, TxInv, Processes, At
    <2>3. call'[r] = call[r] /\ contracts' = contracts /\ lots' = lots
      BY <1>1 DEF tables
    <2>4. AllocateFits(r)'
      BY <1>2, <1>4, <2>1, <2>3 DEF AllocateFits
    <2>5. draft'[r] = AllocateWrites(r, Taken(lots[l], x), {l})
      <3> DEFINE as == Row(call[r].alloc, [contract |-> c, lot |-> l, kg |-> Stored(x),
                                           status |-> "allocated", shipment |-> NoShipment])
                 cs == Row(c, [contracts[c] EXCEPT
                                    !.allocated = Stored(Scale * contracts[c].allocated + x)])
                 ls == Row(l, Taken(lots[l], x))
      <3>1. AllocateWrites(r, Taken(lots[l], x), {l}) = Writes(ls, cs, as, Empty, {}, {}, {l})
        BY Zenon DEF AllocateWrites, NewAllocation
      <3>2. draft' = [draft EXCEPT ![r].allocs = as, ![r].contracts = cs, ![r].lots = ls]
        BY <1>4, Zenon
      <3> HIDE DEF as, cs, ls
      <3>3. draft'[r] = [draft[r] EXCEPT !.allocs = as, !.contracts = cs, !.lots = ls]
        BY <3>2, ProcessDomains DEF TxInv
      <3>4. PICK d : d = draft'[r]
        OBVIOUS
      <3>5. DOMAIN draft[r] = Fields /\ draft[r].shipments = Empty /\ draft[r].documents = {}
            /\ draft[r].reading = {} /\ draft[r].next = {} /\ draft[r].todo = {l}
        BY <1>2 DEF Writes, Fields
      <3>6. d = [field \in Fields |-> d[field]]
        BY <3>3, <3>4, <3>5
      <3>7. /\ d.lots = ls /\ d.contracts = cs /\ d.allocs = as /\ d.shipments = Empty
            /\ d.documents = {} /\ d.reading = {} /\ d.next = {} /\ d.todo = {l}
        BY <3>3, <3>4, <3>5 DEF Fields
      <3>8. d = Writes(ls, cs, as, Empty, {}, {}, {l})
        <4>1. d = Writes(d.lots, d.contracts, d.allocs, d.shipments, d.documents, d.reading, d.todo)
          BY <3>6, <3>7, WritesIs, Zenon
        <4>2. QED
          BY <3>7, <4>1
      <3>9. QED
        BY <3>1, <3>4, <3>8, Zenon
    <2>6. AllocateWrites(r, Taken(lots[l], x), {l})' = AllocateWrites(r, Taken(lots[l], x), {l})
      BY <2>3, Zenon DEF AllocateWrites, NewAllocation, Taken
    <2>7. AllocateOK(r)'
      BY <2>2, <2>3, <2>4, <2>5, <2>6 DEF AllocateOK, At
    <2>8. QED
      BY <1>1, <2>2, <2>3, <2>7 DEF RequestOK, StageOK, InTransaction
  <1>5. QED
    BY <1>3, <1>4 DEF TakeFromLot

\* adjustStock's check is made on a row that is locked.
LEMMA CorrectLotStage ==
    ASSUME TxInv, NEW r \in Req, CorrectLot(r)
    PROVE  RequestOK(r)'
  <1> DEFINE l == call[r].lot
             delta == call[r].delta
  <1>1. At(r, "lot") /\ call[r].op = "adjust" /\ UNCHANGED <<tables, call>> /\ AdjustOK(r)
    BY DEF TxInv, Requests, RequestOK, StageOK, CorrectLot, At, InTransaction
  <1>2. holds[r] = {} /\ draft[r] = Writes(Empty, Empty, Empty, Empty, {}, {}, {l})
    BY <1>1 DEF AdjustOK, At
  <1>3. CASE Rollback(r)
    BY <1>3, RolledBack DEF TxInv
  <1>4. ASSUME l \in DOMAIN lots,
               Scale * lots[l].total + delta >= -Epsilon,
               Scale * lots[l].available + delta >= -Epsilon,
               Corrected(lots[l], delta).total <= MaxTotal,
               TakeLock(r), Goto(r, Following(r)),
               draft' = [draft EXCEPT ![r].lots = Row(l, Corrected(lots[l], delta))]
        PROVE  RequestOK(r)'
    <2>1. holds'[r] = {Key("lot", l)}
      BY <1>1, <1>2, <1>4 DEF TakeLock, TxInv, Processes, Wanted, NextLot, At
    <2>2. pc'[r] = "refresh"
      BY <1>1, <1>2, <1>4, FollowingIs DEF Goto, TxInv, Processes, At
    <2>3. call'[r] = call[r] /\ lots' = lots /\ allocs' = allocs
      BY <1>1 DEF tables
    <2>4. AdjustFits(r)'
      <3>1. Corrected(lots[l], delta)' = Corrected(lots[l], delta)
        BY <2>3, Zenon DEF Corrected
      <3>2. QED
        BY <1>4, <2>1, <2>3, <3>1, Zenon DEF AdjustFits
    <2>5. draft'[r] = Writes(Row(l, Corrected(lots[l], delta)), Empty, Empty, Empty, {}, {}, {l})
      <3> DEFINE row == Row(l, Corrected(lots[l], delta))
      <3>1. draft' = [draft EXCEPT ![r].lots = row]
        BY <1>4
      <3> HIDE DEF row
      <3>2. draft'[r] = [draft[r] EXCEPT !.lots = row]
        BY <3>1, ProcessDomains DEF TxInv
      <3>3. draft'[r] = Writes(row, Empty, Empty, Empty, {}, {}, {l})
        BY <1>2, <3>2 DEF Writes
      <3>4. QED
        BY <3>3 DEF row
    <2>6. Corrected(lots[l], delta)' = Corrected(lots[l], delta)
      BY <2>3, Zenon DEF Corrected
    <2>7. AdjustOK(r)'
      BY <2>2, <2>3, <2>4, <2>5, <2>6 DEF AdjustOK, At
    <2>8. QED
      BY <1>1, <2>2, <2>3, <2>7 DEF RequestOK, StageOK, InTransaction
  <1>5. QED
    BY <1>3, <1>4 DEF CorrectLot

\* The number is free and taken by the insert.
LEMMA InsertShipmentStage ==
    ASSUME TxInv, NEW r \in Req, InsertShipment(r)
    PROVE  RequestOK(r)'
  <1> DEFINE c == call[r].contract
             s == call[r].shipment
  <1>1. At(r, "number") /\ UNCHANGED <<tables, call>> /\ StageOK(r)
    BY DEF TxInv, Requests, RequestOK, InsertShipment, At, InTransaction
  <1>2. call[r].op = "ship" /\ ShipOK(r)
    BY <1>1 DEF StageOK, AllocateOK, AdjustOK, StatusOK, DocsOK, At
  <1>3. holds[r] = {Key("contract", c)} /\ c \in DOMAIN contracts
        /\ draft[r] = Writes(Empty, Empty, Empty, Empty, {}, {}, {})
    BY <1>1, <1>2 DEF ShipOK, At
  <1>4. CASE Rollback(r)
    BY <1>4, RolledBack DEF TxInv
  <1>5. ASSUME NEW a \in ToLock(r), s \notin DOMAIN shipments, TakeLock(r), Goto(r, Following(r)),
               draft' = [draft EXCEPT
                    ![r].shipments = Row(s, [contract |-> c, status |-> "planned", snapshot |-> {}]),
                    ![r].next = {a}]
        PROVE  RequestOK(r)'
    <2>1. holds'[r] = {Key("contract", c), Key("shipment", s)}
      BY <1>1, <1>3, <1>5 DEF TakeLock, TxInv, Processes, Wanted, At
    <2>2. pc'[r] = "allocations"
      BY <1>1, <1>2, <1>5, FollowingIs DEF Goto, TxInv, Processes, At
    <2>3. call'[r] = call[r] /\ contracts' = contracts /\ shipments' = shipments /\ allocs' = allocs
      BY <1>1 DEF tables
    <2>4. draft'[r] = SelectWrites(r, a)
      <3> DEFINE row == Row(s, [contract |-> c, status |-> "planned", snapshot |-> {}])
      <3>1. row = Row(s, NewShipment(r, {}))
        BY DEF NewShipment
      <3>2. draft' = [draft EXCEPT ![r].shipments = row, ![r].next = {a}]
        BY <1>5
      <3> HIDE DEF row
      <3>3. draft'[r] = [draft[r] EXCEPT !.shipments = row, !.next = {a}]
        BY <3>2, ProcessDomains DEF TxInv
      <3>4. draft'[r] = [Writes(Empty, Empty, Empty, row, {}, {}, {}) EXCEPT !.next = {a}]
        <4>1. draft[r] = Writes(Empty, Empty, Empty, Empty, {}, {}, {})
          BY <1>3
        <4>2. [draft[r] EXCEPT !.shipments = row] = Writes(Empty, Empty, Empty, row, {}, {}, {})
          BY <4>1 DEF Writes
        <4>3. draft'[r] = [[draft[r] EXCEPT !.shipments = row] EXCEPT !.next = {a}]
          BY <3>3
        <4>4. QED
          BY <4>2, <4>3, Zenon
      <3>5. QED
        BY <3>1, <3>4, Zenon DEF SelectWrites
    <2>5. SelectWrites(r, a)' = SelectWrites(r, a)
      BY <2>3, Zenon DEF SelectWrites, NewShipment
    <2>6. \E A \in SUBSET (call[r].ids \cap DOMAIN allocs) :
                /\ holds'[r] = {Key("contract", c), Key("shipment", s)} \cup {Key("alloc", b) : b \in A}
                /\ \E b \in (call[r].ids \cap DOMAIN allocs) \ A : draft'[r] = SelectWrites(r, b)'
      <3>1. a \in call[r].ids \cap DOMAIN allocs
        BY <1>5 DEF ToLock
      <3>2. {Key("alloc", b) : b \in {}} = {}
        OBVIOUS
      <3>3. WITNESS {} \in SUBSET (call[r].ids \cap DOMAIN allocs)
      <3>4. QED
        BY <2>1, <2>4, <2>5, <3>1, <3>2
    <2>7. ShipOK(r)'
      BY <1>3, <1>5, <2>2, <2>3, <2>6 DEF ShipOK, At
    <2>8. QED
      BY <1>2, <2>2, <2>3, <2>7 DEF RequestOK, StageOK, InTransaction
  <1>6. QED
    BY <1>4, <1>5 DEF InsertShipment

\* updateStatus's check is made on a row that is locked.
LEMMA MoveShipmentStage ==
    ASSUME TxInv, NEW r \in Req, MoveShipment(r)
    PROVE  RequestOK(r)'
  <1> DEFINE s == call[r].shipment
             status == call[r].status
  <1>1. At(r, "shipment") /\ UNCHANGED <<tables, call>> /\ StageOK(r)
    BY DEF TxInv, Requests, RequestOK, MoveShipment, At, InTransaction
  <1>2. call[r].op = "status" /\ holds[r] = {}
        /\ draft[r] = Writes(Empty, Empty, Empty, Empty, {}, {}, {})
    BY <1>1 DEF StageOK, AllocateOK, ShipOK, AdjustOK, StatusOK, DocsOK, At
  <1>3. CASE Rollback(r)
    BY <1>3, RolledBack DEF TxInv
  <1>4. ASSUME s \in DOMAIN shipments, StageOf[status] >= StageOf[shipments[s].status],
               TakeLock(r), Goto(r, Following(r)),
               draft' = [draft EXCEPT ![r].shipments = Row(s, [shipments[s] EXCEPT !.status = status])]
        PROVE  RequestOK(r)'
    <2>1. holds'[r] = {Key("shipment", s)}
      BY <1>1, <1>2, <1>4 DEF TakeLock, TxInv, Processes, Wanted, At
    <2>2. pc'[r] = "commit"
      BY <1>1, <1>2, <1>4, FollowingIs DEF Goto, TxInv, Processes, At
    <2>3. call'[r] = call[r] /\ shipments' = shipments
      BY <1>1 DEF tables
    <2>4. draft'[r] = Writes(Empty, Empty, Empty,
                             Row(s, [shipments[s] EXCEPT !.status = status]), {}, {}, {})
      <3> DEFINE row == Row(s, [shipments[s] EXCEPT !.status = status])
      <3>1. draft' = [draft EXCEPT ![r].shipments = row]
        BY <1>4
      <3> HIDE DEF row
      <3>2. draft'[r] = [draft[r] EXCEPT !.shipments = row]
        BY <3>1, ProcessDomains DEF TxInv
      <3>3. draft'[r] = Writes(Empty, Empty, Empty, row, {}, {}, {})
        BY <1>2, <3>2 DEF Writes
      <3>4. QED
        BY <3>3 DEF row
    <2>5. StatusOK(r)'
      BY <1>4, <2>1, <2>2, <2>3, <2>4 DEF StatusOK, At
    <2>6. QED
      BY <1>2, <2>2, <2>3, <2>5 DEF RequestOK, StageOK, InTransaction
  <1>5. QED
    BY <1>3, <1>4 DEF MoveShipment

\* What generateDocuments reads first is the snapshot that is stored.
LEMMA ReadShipmentStage ==
    ASSUME TxInv, NEW r \in Req, ReadShipment(r)
    PROVE  RequestOK(r)'
  <1> DEFINE s == call[r].shipment
  <1>1. At(r, "read") /\ UNCHANGED <<tables, call>> /\ StageOK(r)
    BY DEF TxInv, Requests, RequestOK, ReadShipment, At, InTransaction
  <1>2. call[r].op = "docs" /\ holds[r] = {}
        /\ draft[r] = Writes(Empty, Empty, Empty, Empty, {}, {}, {})
    BY <1>1 DEF StageOK, AllocateOK, ShipOK, AdjustOK, StatusOK, DocsOK, At
  <1>3. CASE Rollback(r)
    BY <1>3, RolledBack DEF TxInv
  <1>4. ASSUME s \in DOMAIN shipments, Goto(r, Following(r)), UNCHANGED holds,
               draft' = [draft EXCEPT ![r].reading = shipments[s].snapshot]
        PROVE  RequestOK(r)'
    <2>1. pc'[r] = "list"
      BY <1>1, <1>2, <1>4, FollowingIs DEF Goto, TxInv, Processes, At
    <2>2. call'[r] = call[r] /\ shipments' = shipments
      BY <1>1 DEF tables
    <2>3. draft'[r] = Writes(Empty, Empty, Empty, Empty, {}, shipments[s].snapshot, {})
      <3>1. draft'[r] = [draft[r] EXCEPT !.reading = shipments[s].snapshot]
        BY <1>4, ProcessDomains DEF TxInv
      <3>2. QED
        BY <1>2, <3>1 DEF Writes
    <2>4. DocsOK(r)'
      BY <1>2, <1>4, <2>1, <2>2, <2>3 DEF DocsOK, At
    <2>5. QED
      BY <1>2, <2>1, <2>2, <2>4 DEF RequestOK, StageOK, InTransaction
  <1>5. QED
    BY <1>3, <1>4 DEF ReadShipment

\* The allocations generateDocuments lists are those of the snapshot it read, as the
\* traces of the ledger say.
LEMMA ListAllocationsStage ==
    ASSUME TxInv, NEW r \in Req, ListAllocations(r)
    PROVE  RequestOK(r)'
  <1> DEFINE s == call[r].shipment
             snapshot == shipments[s].snapshot
             now == AllocationsOf(allocs, s)
  <1>1. At(r, "list") /\ UNCHANGED <<tables, call>> /\ StageOK(r)
    BY DEF TxInv, Requests, RequestOK, ListAllocations, At, InTransaction
  <1>2. call[r].op = "docs" /\ holds[r] = {} /\ s \in DOMAIN shipments
        /\ draft[r] = Writes(Empty, Empty, Empty, Empty, {}, snapshot, {})
    BY <1>1 DEF StageOK, AllocateOK, ShipOK, AdjustOK, StatusOK, DocsOK, At
  <1>3. CASE Rollback(r)
    BY <1>3, RolledBack DEF TxInv
  <1>4. ASSUME now # {}, Goto(r, Following(r)), UNCHANGED holds,
               draft' = [draft EXCEPT ![r].documents =
                    {[shipment |-> s, type |-> type,
                      payload |-> IF type = "traceability_report" THEN draft[r].reading
                                  ELSE Lines(allocs, now)] : type \in call[r].types}]
        PROVE  RequestOK(r)'
    <2>1. pc'[r] = "insert"
      BY <1>1, <1>2, <1>4, FollowingIs DEF Goto, TxInv, Processes, At
    <2>2. call'[r] = call[r] /\ shipments' = shipments /\ allocs' = allocs /\ holds'[r] = {}
      BY <1>1, <1>2, <1>4 DEF tables
    <2>3. Lines(allocs, now) = snapshot
      <3>1. snapshot = P!Lines(allocs, P!AllocationsOf(allocs, s))
        BY <1>2 DEF TxInv, Tables, P!Traceable, P!SnapshotFaithful
      <3>2. P!Lines(allocs, P!AllocationsOf(allocs, s)) = Lines(allocs, now)
        BY SameOperators, Zenon
      <3>3. QED
        BY <3>1, <3>2, Zenon
    <2>4. draft[r].reading = snapshot
      BY <1>2 DEF Writes
    <2>5. draft'[r] = DocsWrites(r)
      <3> DEFINE docs == {[shipment |-> s, type |-> type, payload |-> snapshot] : type \in call[r].types}
      <3>1. {[shipment |-> s, type |-> type,
              payload |-> IF type = "traceability_report" THEN draft[r].reading
                          ELSE Lines(allocs, now)] : type \in call[r].types} = docs
        BY <2>3, <2>4
      <3>2. draft' = [draft EXCEPT ![r].documents = docs]
        BY <1>4, <3>1, Zenon
      <3> HIDE DEF docs, snapshot
      <3>3. draft'[r] = [draft[r] EXCEPT !.documents = docs]
        BY <3>2, ProcessDomains DEF TxInv
      <3>4. draft'[r] = Writes(Empty, Empty, Empty, Empty, docs, snapshot, {})
        BY <1>2, <3>3 DEF Writes
      <3>5. QED
        BY <3>4 DEF DocsWrites, docs, snapshot
    <2>6. DocsWrites(r)' = DocsWrites(r)
      BY <2>2, Zenon DEF DocsWrites
    <2>7. DocsOK(r)'
      BY <1>2, <1>4, <2>1, <2>2, <2>5, <2>6 DEF DocsOK, At
    <2>8. QED
      BY <1>2, <2>1, <2>2, <2>7 DEF RequestOK, StageOK, InTransaction
  <1>5. QED
    BY <1>3, <1>4 DEF ListAllocations

\* The insert locks the shipment it refers to.
LEMMA InsertDocumentsStage ==
    ASSUME TxInv, NEW r \in Req, InsertDocuments(r)
    PROVE  RequestOK(r)'
  <1> DEFINE s == call[r].shipment
  <1>1. At(r, "insert") /\ UNCHANGED <<tables, call, draft>> /\ StageOK(r)
    BY DEF TxInv, Requests, RequestOK, InsertDocuments, At, InTransaction
  <1>2. call[r].op = "docs" /\ holds[r] = {} /\ s \in DOMAIN shipments
        /\ AllocationsOf(allocs, s) # {} /\ draft[r] = DocsWrites(r)
    BY <1>1 DEF StageOK, AllocateOK, ShipOK, AdjustOK, StatusOK, DocsOK, At
  <1>3. holds'[r] = {Key("shipment_ref", s)}
    BY <1>1, <1>2 DEF InsertDocuments, TakeLock, TxInv, Processes, Wanted, At
  <1>4. pc'[r] = "commit"
    BY <1>1, <1>2, FollowingIs DEF InsertDocuments, Goto, TxInv, Processes, At
  <1>5. call'[r] = call[r] /\ shipments' = shipments /\ allocs' = allocs /\ draft'[r] = draft[r]
    BY <1>1 DEF tables
  <1>6. DocsWrites(r)' = DocsWrites(r)
    BY <1>5, Zenon DEF DocsWrites
  <1>7. DocsOK(r)'
    BY <1>2, <1>3, <1>4, <1>5, <1>6 DEF DocsOK, At
  <1>8. QED
    BY <1>2, <1>4, <1>5, <1>7 DEF RequestOK, StageOK, InTransaction

\* A shipment that locks its allocations holds the contract, its number and those it has
\* locked, and wants one of the others.
LEMMA Selecting ==
    ASSUME NEW r \in Req, At(r, "allocations"), ShipOK(r)
    PROVE  \E A \in SUBSET (call[r].ids \cap DOMAIN allocs),
              a \in call[r].ids \cap DOMAIN allocs :
                /\ a \notin A
                /\ holds[r] = {Key("contract", call[r].contract), Key("shipment", call[r].shipment)}
                                \cup {Key("alloc", b) : b \in A}
                /\ draft[r] = SelectWrites(r, a)
                /\ draft[r].next = {a}
                /\ Wanted(r) = {Key("alloc", a)}
                /\ ToLock(r) = (call[r].ids \cap DOMAIN allocs) \ A
  <1>1. PICK A \in SUBSET (call[r].ids \cap DOMAIN allocs),
             a \in call[r].ids \cap DOMAIN allocs :
            /\ a \notin A
            /\ holds[r] = {Key("contract", call[r].contract), Key("shipment", call[r].shipment)}
                            \cup {Key("alloc", b) : b \in A}
            /\ draft[r] = SelectWrites(r, a)
    BY DEF ShipOK, At
  <1>2. draft[r].next = {a}
    BY <1>1 DEF SelectWrites, Writes
  <1>3. Wanted(r) = {Key("alloc", a)}
    BY <1>2 DEF Wanted, At
  <1>4. ToLock(r) = (call[r].ids \cap DOMAIN allocs) \ A
    BY <1>1 DEF ToLock, Key
  <1>5. QED
    BY <1>1, <1>2, <1>3, <1>4

\* The allocations are locked one after the other, and the checks are made when the
\* last one is locked.
LEMMA LockAllocationStage ==
    ASSUME TxInv, NEW r \in Req, LockAllocation(r)
    PROVE  RequestOK(r)'
  <1> DEFINE c == call[r].contract
             s == call[r].shipment
             ids == call[r].ids
             found == ids \cap DOMAIN allocs
             left == ToLock(r) \ draft[r].next
  <1>1. At(r, "allocations") /\ UNCHANGED <<tables, call>> /\ StageOK(r)
    BY DEF TxInv, Requests, RequestOK, LockAllocation, At, InTransaction
  <1>2. call[r].op = "ship" /\ ShipOK(r)
    BY <1>1 DEF StageOK, AllocateOK, AdjustOK, StatusOK, DocsOK, At
  <1>3. c \in DOMAIN contracts /\ s \notin DOMAIN shipments
    BY <1>1, <1>2 DEF ShipOK, At
  <1>4. PICK A \in SUBSET found, a \in found :
            /\ a \notin A
            /\ holds[r] = {Key("contract", c), Key("shipment", s)} \cup {Key("alloc", b) : b \in A}
            /\ draft[r] = SelectWrites(r, a)
            /\ draft[r].next = {a}
            /\ Wanted(r) = {Key("alloc", a)}
            /\ ToLock(r) = found \ A
    BY <1>1, <1>2, Selecting
  <1>5. left = found \ (A \cup {a})
    BY <1>4
  <1>6. call'[r] = call[r] /\ UNCHANGED <<lots, contracts, allocs, shipments>>
    BY <1>1 DEF tables
  <1>7. ASSUME TakeLock(r)
        PROVE  holds'[r] = {Key("contract", c), Key("shipment", s)}
                                \cup {Key("alloc", b) : b \in A \cup {a}}
    <2>1. holds'[r] = holds[r] \cup {Key("alloc", a)}
      BY <1>4, <1>7, ProcessDomains DEF TakeLock, TxInv
    <2>2. QED
      BY <1>4, <2>1
  <1>8. CASE Rollback(r)
    BY <1>8, RolledBack DEF TxInv
  <1>9. ASSUME NEW b \in left, TakeLock(r), UNCHANGED pc, draft' = [draft EXCEPT ![r].next = {b}]
        PROVE  RequestOK(r)'
    <2> DEFINE B == A \cup {a}
    <2>1. B \in SUBSET found /\ b \in found \ B
      BY <1>4, <1>5, <1>9
    <2>2. holds'[r] = {Key("contract", c), Key("shipment", s)} \cup {Key("alloc", i) : i \in B}
      BY <1>7, <1>9
    <2> HIDE DEF B, left
    <2>3. draft'[r] = SelectWrites(r, b)
      <3>1. draft'[r] = [draft[r] EXCEPT !.next = {b}]
        BY <1>9, ProcessDomains DEF TxInv
      <3>2. [SelectWrites(r, a) EXCEPT !.next = {b}] = SelectWrites(r, b)
        BY DEF SelectWrites, Writes
      <3>3. QED
        BY <1>4, <3>1, <3>2, Zenon
    <2>4. SelectWrites(r, b)' = SelectWrites(r, b)
      BY <1>6, Zenon DEF SelectWrites, NewShipment
    <2>5. ShipOK(r)'
      BY <1>1, <1>3, <1>6, <1>9, <2>1, <2>2, <2>3, <2>4 DEF ShipOK, At
    <2>6. QED
      BY <1>1, <1>2, <1>6, <1>9, <2>5 DEF RequestOK, StageOK, InTransaction, At
  <1>10. ASSUME left = {}, ShipmentFits(r), TakeLock(r),
                draft' = [draft EXCEPT ![r] = ShipmentDraft(r)], Goto(r, Following(r))
         PROVE  RequestOK(r)'
    <2>1. ids \subseteq DOMAIN allocs /\ A \cup {a} = ids
      BY <1>4, <1>5, <1>10 DEF ShipmentFits
    <2>2. /\ \A b \in ids : Key("alloc", b) \in holds'[r]
          /\ \A key \in holds'[r] : key[1] = "alloc" => key[2] \in ids
      BY <1>7, <1>10, <2>1 DEF Key
    <2>3. Key("contract", c) \in holds'[r] /\ Key("shipment", s) \in holds'[r]
      BY <1>7, <1>10
    <2>4. pc'[r] = "lot"
      BY <1>1, <1>2, <1>10, FollowingIs DEF Goto, TxInv, Processes, At
    <2>5. draft'[r] = Writes(Empty, Row(c, ShippedContract(r)), [b \in ids |-> ShippedRow(r, b)],
                             Row(s, NewShipment(r, Lines(allocs, ids))), {}, {}, Touched(r))
      <3> DEFINE as == [b \in ids |-> ShippedRow(r, b)]
                 cs == Row(c, ShippedContract(r))
                 lines == Lines(allocs, ids)
                 td == Touched(r)
                 d == ShipmentDraft(r)
      <3>1. d = [draft[r] EXCEPT !.allocs = as, !.contracts = cs, !.shipments[s].snapshot = lines,
                                 !.next = {}, !.todo = td]
        BY Zenon DEF ShipmentDraft, ShippedRow, ShippedContract, Touched
      <3>2. draft'[r] = d
        BY <1>10, ProcessDomains DEF TxInv
      <3>3. [Row(s, NewShipment(r, {})) EXCEPT ![s].snapshot = lines] = Row(s, NewShipment(r, lines))
        BY DEF Row, NewShipment
      <3>4. DOMAIN draft[r] = Fields /\ draft[r].lots = Empty /\ draft[r].documents = {}
            /\ draft[r].shipments = Row(s, NewShipment(r, {})) /\ draft[r].reading = {}
        BY <1>4 DEF SelectWrites, Writes, Fields
      <3> HIDE DEF as, cs, lines, td, d
      <3>5. d = [field \in Fields |-> d[field]]
        BY <3>1, <3>4
      <3>6. /\ d.lots = Empty /\ d.contracts = cs /\ d.allocs = as
            /\ d.shipments = Row(s, NewShipment(r, lines))
            /\ d.documents = {} /\ d.reading = {} /\ d.next = {} /\ d.todo = td
        BY <3>1, <3>3, <3>4 DEF Fields
      <3>7. d = Writes(d.lots, d.contracts, d.allocs, d.shipments, d.documents, d.reading, d.todo)
        BY <3>5, <3>6, WritesIs, Zenon
      <3>8. d = Writes(Empty, cs, as, Row(s, NewShipment(r, lines)), {}, {}, td)
        BY <3>6, <3>7
      <3>9. QED
        BY <3>2, <3>8 DEF as, cs, lines, td
    <2>6. draft'[r].lots = Empty /\ draft'[r].todo = Touched(r)
      BY <2>5 DEF Writes
    <2>7. /\ ShippedContract(r)' = ShippedContract(r) /\ Touched(r)' = Touched(r)
          /\ [b \in ids |-> ShippedRow(r, b)]' = [b \in ids |-> ShippedRow(r, b)]
          /\ NewShipment(r, Lines(allocs, ids))' = NewShipment(r, Lines(allocs, ids))
      BY <1>6, Zenon DEF ShippedContract, Touched, ShippedRow, NewShipment
    <2>8. draft'[r] = ShipWrites(r)'
      BY <1>6, <2>5, <2>6, <2>7, Zenon DEF ShipWrites
    <2>9. ShipmentFits(r)'
      BY <1>6, <1>10, Zenon DEF ShipmentFits
    <2>10. Touched(r) # {}
      <3>1. ids # {}
        BY <1>1, <1>2, CallOf DEF TxInv, At, Call
      <3>2. QED
        BY <3>1 DEF Touched
    <2>11. DOMAIN draft'[r].lots = {} /\ draft'[r].lots = [l \in {} |-> RefreshedRow(r, l)']
      BY <2>6 DEF Empty
    <2>12. ShippingOK(r)'
      BY <1>3, <1>6, <1>10, <2>1, <2>2, <2>3, <2>6, <2>7, <2>8, <2>9, <2>11 DEF ShippingOK
    <2>13. ShipOK(r)'
      BY <2>4, <2>6, <2>10, <2>12 DEF ShipOK, At
    <2>14. QED
      BY <1>2, <1>6, <2>4, <2>13 DEF RequestOK, StageOK, InTransaction
  <1>11. QED
    BY <1>8, <1>9, <1>10 DEF LockAllocation

\* createShipment locks the lot it refreshes next.
LEMMA LockShippedLotStage ==
    ASSUME TxInv, NEW r \in Req, LockShippedLot(r)
    PROVE  RequestOK(r)'
  <1>1. At(r, "lot") /\ call[r].op = "ship" /\ UNCHANGED <<tables, call, draft>> /\ StageOK(r)
    BY DEF TxInv, Requests, RequestOK, LockShippedLot, At, InTransaction
  <1>2. ShippingOK(r) /\ draft[r].todo # {}
    BY <1>1 DEF StageOK, ShipOK, At
  <1>3. holds'[r] = holds[r] \cup {Key("lot", NextLot(r))}
    BY <1>1, ProcessDomains DEF LockShippedLot, TakeLock, TxInv, Wanted, At
  <1>4. pc'[r] = "refresh"
    BY <1>1, FollowingIs DEF LockShippedLot, Goto, TxInv, Processes, At
  <1>5. call'[r] = call[r] /\ draft'[r] = draft[r] /\ UNCHANGED <<lots, contracts, allocs, shipments>>
    BY <1>1 DEF tables
  <1>6. NextLot(r)' = NextLot(r)
    BY <1>1, Zenon DEF NextLot, tables
  <1>7. ShippingOK(r)'
    <2>1. ShipWrites(r)' = ShipWrites(r) /\ ShipmentFits(r)' = ShipmentFits(r) /\ Touched(r)' = Touched(r)
          /\ [l \in DOMAIN draft[r].lots |-> RefreshedRow(r, l)]'
                = [l \in DOMAIN draft[r].lots |-> RefreshedRow(r, l)]
      BY <1>1, Zenon DEF tables, ShipWrites, ShipmentFits, Touched, RefreshedRow, ShippedContract,
                         ShippedRow, NewShipment
    <2>2. \A key \in holds'[r] : key[1] = "alloc" => key[2] \in call[r].ids
      BY <1>2, <1>3 DEF ShippingOK, Key
    <2>3. QED
      BY <1>2, <1>3, <1>5, <2>1, <2>2 DEF ShippingOK
  <1>8. ShipOK(r)'
    BY <1>2, <1>3, <1>4, <1>5, <1>6, <1>7 DEF ShipOK, At
  <1>9. QED
    BY <1>1, <1>4, <1>5, <1>8 DEF RequestOK, StageOK, InTransaction

\* What a refresh does to the draft, field by field.
LEMMA RefreshWrites ==
    ASSUME TxInv, NEW r \in Req, RefreshLot(r), draft[r] = [field \in Fields |-> draft[r][field]],
           draft[r].next = {}
    PROVE  LET l == NextLot(r)
               row == Over(lots, draft[r].lots)[l]
               status == LotStatusOf(row.available, OpenAllocations(Over(allocs, draft[r].allocs), l))
           IN  /\ draft'[r].lots = Over(draft[r].lots, Row(l, [row EXCEPT !.status = status]))
               /\ draft'[r] = Writes(draft'[r].lots, draft[r].contracts, draft[r].allocs,
                                     draft[r].shipments, draft[r].documents, draft[r].reading,
                                     draft[r].todo \ {l})
  <1> DEFINE l == NextLot(r)
             row == Over(lots, draft[r].lots)[l]
             status == LotStatusOf(row.available, OpenAllocations(Over(allocs, draft[r].allocs), l))
             ls1 == Over(draft[r].lots, Row(l, [row EXCEPT !.status = status]))
  <1>2. Visible(r) = Over(allocs, draft[r].allocs)
    BY Zenon DEF Visible
  <1>3. draft' = [draft EXCEPT ![r].lots = Over(@, Row(l, [row EXCEPT !.status = status])),
                               ![r].todo = @ \ {l}]
    BY <1>2, Zenon DEF RefreshLot
  <1> HIDE DEF status, row, l
  <1>4. draft'[r] = [draft[r] EXCEPT !.lots = Over(@, Row(l, [row EXCEPT !.status = status])),
                                     !.todo = @ \ {l}]
    BY <1>3, ProcessDomains DEF TxInv
  <1>5. draft'[r] = [draft[r] EXCEPT !.lots = ls1, !.todo = draft[r].todo \ {l}]
    BY <1>4
  <1> HIDE DEF ls1
  <1>6. PICK d, e : d = draft'[r] /\ e = draft[r]
    OBVIOUS
  <1>7. e = [field \in Fields |-> e[field]] /\ d = [e EXCEPT !.lots = ls1, !.todo = e.todo \ {l}]
    BY <1>5, <1>6
  <1>8. DOMAIN e = Fields
    BY <1>7
  <1>9. d = [field \in Fields |-> d[field]]
    BY <1>7, <1>8
  <1>10. /\ d.lots = ls1 /\ d.contracts = e.contracts /\ d.allocs = e.allocs
         /\ d.shipments = e.shipments /\ d.documents = e.documents /\ d.reading = e.reading
         /\ d.next = {} /\ d.todo = e.todo \ {l}
    BY <1>6, <1>7, <1>8 DEF Fields
  <1>11. d = Writes(d.lots, d.contracts, d.allocs, d.shipments, d.documents, d.reading, d.todo)
    BY <1>9, <1>10, WritesIs, Zenon
  <1>12. d = Writes(d.lots, e.contracts, e.allocs, e.shipments, e.documents, e.reading, e.todo \ {l})
    BY <1>10, <1>11
  <1>13. d.lots = Over(e.lots, Row(l, [row EXCEPT !.status = status]))
    BY <1>6, <1>10, Zenon DEF ls1
  <1>14. QED
    BY <1>6, <1>12, <1>13, Zenon DEF status, row, l

\* A lot that has just been allocated from is refreshed to "allocated".
LEMMA RefreshAllocated ==
    ASSUME TxInv, NEW r \in Req, RefreshLot(r), call[r].op = "allocate"
    PROVE  RequestOK(r)'
  <1> DEFINE l == call[r].lot
             c == call[r].contract
             a == call[r].alloc
             taken == Taken(lots[l], call[r].x)
             cs == Row(c, [contracts[c] EXCEPT !.allocated = Stored(Scale * contracts[c].allocated + call[r].x)])
             as == Row(a, NewAllocation(r))
             new == [taken EXCEPT !.status = "allocated"]
  <1>1. At(r, "refresh") /\ UNCHANGED <<tables, call, holds>> /\ AllocateOK(r)
    BY DEF TxInv, Requests, RequestOK, StageOK, RefreshLot, At, InTransaction
  <1>2. AllocateFits(r) /\ draft[r] = AllocateWrites(r, taken, {l})
    BY <1>1 DEF AllocateOK, At
  <1>3. NextLot(r) = l
    BY DEF NextLot
  <1>4. draft[r] = Writes(Row(l, taken), cs, as, Empty, {}, {}, {l})
    BY <1>2, Zenon DEF AllocateWrites
  <1>5. /\ draft[r] = [field \in Fields |-> draft[r][field]]
        /\ draft[r].lots = Row(l, taken) /\ draft[r].contracts = cs /\ draft[r].allocs = as
        /\ draft[r].shipments = Empty /\ draft[r].documents = {} /\ draft[r].reading = {}
        /\ draft[r].next = {} /\ draft[r].todo = {l}
    BY <1>4 DEF Writes, Fields
  <1>6. Over(lots, draft[r].lots)[l] = taken
    BY <1>5 DEF Over, Row
  <1>7. LotStatusOf(taken.available, OpenAllocations(Over(allocs, as), l)) = "allocated"
    <2>1. a \in OpenAllocations(Over(allocs, as), l)
      BY DEF OpenAllocations, Over, Row, NewAllocation
    <2>2. QED
      BY <2>1 DEF LotStatusOf
  <1>8. draft'[r] = Writes(Row(l, new), cs, as, Empty, {}, {}, {})
    <2> HIDE DEF l, taken, cs, as
    <2>1. /\ draft'[r].lots = Over(Row(l, taken), Row(l, [taken EXCEPT !.status =
                                LotStatusOf(taken.available, OpenAllocations(Over(allocs, as), l))]))
          /\ draft'[r] = Writes(draft'[r].lots, cs, as, Empty, {}, {}, {l} \ {l})
      BY <1>3, <1>5, <1>6, RefreshWrites, Zenon
    <2>2. {l} \ {l} = {}
      OBVIOUS
    <2>3. Over(Row(l, taken), Row(l, new)) = Row(l, new)
      BY DEF Over, Row
    <2>4. QED
      BY <1>7, <2>1, <2>2, <2>3, Zenon
  <1>9. pc'[r] = "commit"
    BY <1>1, <1>3, <1>5, FollowingIs, ProcessDomains DEF RefreshLot, Goto, TxInv, At
  <1>10. AllocateFits(r)'
    BY <1>1, <1>2, Zenon DEF AllocateFits, tables
  <1>11. AllocateWrites(r, new, {})' = Writes(Row(l, new), cs, as, Empty, {}, {}, {})
    BY <1>1, Zenon DEF AllocateWrites, NewAllocation, tables
  <1>12. AllocateOK(r)'
    BY <1>8, <1>9, <1>10, <1>11 DEF AllocateOK, At
  <1>13. QED
    BY <1>1, <1>9, <1>12 DEF RequestOK, StageOK, InTransaction

\* A corrected lot is refreshed from the allocations nobody else can change.
LEMMA RefreshAdjusted ==
    ASSUME TxInv, NEW r \in Req, RefreshLot(r), call[r].op = "adjust"
    PROVE  RequestOK(r)'
  <1> DEFINE l == call[r].lot
             corrected == Corrected(lots[l], call[r].delta)
             status == LotStatusOf(corrected.available, OpenAllocations(allocs, l))
             new == [corrected EXCEPT !.status = status]
  <1>1. At(r, "refresh") /\ UNCHANGED <<tables, call, holds>> /\ AdjustOK(r)
    BY DEF TxInv, Requests, RequestOK, StageOK, RefreshLot, At, InTransaction
  <1>2. AdjustFits(r) /\ draft[r] = Writes(Row(l, corrected), Empty, Empty, Empty, {}, {}, {l})
    BY <1>1 DEF AdjustOK, At
  <1>3. NextLot(r) = l
    BY DEF NextLot
  <1>4. /\ draft[r] = [field \in Fields |-> draft[r][field]]
        /\ draft[r].lots = Row(l, corrected) /\ draft[r].contracts = Empty
        /\ draft[r].allocs = Empty /\ draft[r].shipments = Empty /\ draft[r].documents = {}
        /\ draft[r].reading = {} /\ draft[r].next = {} /\ draft[r].todo = {l}
    BY <1>2 DEF Writes, Fields
  <1>5. Over(lots, draft[r].lots)[l] = corrected
    BY <1>4 DEF Over, Row
  <1>6. Over(allocs, Empty) = allocs
    BY OverNothing DEF TxInv
  <1>7. draft'[r] = Writes(Row(l, new), Empty, Empty, Empty, {}, {}, {})
    <2> HIDE DEF l, corrected
    <2>1. /\ draft'[r].lots = Over(Row(l, corrected), Row(l, [corrected EXCEPT !.status =
                                LotStatusOf(corrected.available, OpenAllocations(Over(allocs, Empty), l))]))
          /\ draft'[r] = Writes(draft'[r].lots, Empty, Empty, Empty, {}, {}, {l} \ {l})
      BY <1>3, <1>4, <1>5, RefreshWrites, Zenon
    <2>2. {l} \ {l} = {}
      OBVIOUS
    <2>3. Over(Row(l, corrected), Row(l, new)) = Row(l, new)
      BY DEF Over, Row
    <2>4. QED
      BY <1>6, <2>1, <2>2, <2>3, Zenon
  <1>8. pc'[r] = "commit"
    BY <1>1, <1>3, <1>4, FollowingIs, ProcessDomains DEF RefreshLot, Goto, TxInv, At
  <1>9. AdjustFits(r)'
    BY <1>1, <1>2, Zenon DEF AdjustFits, tables
  <1>10. AdjustOK(r)'
    <2>1. Writes(Row(l, new), Empty, Empty, Empty, {}, {}, {})'
            = Writes(Row(l, new), Empty, Empty, Empty, {}, {}, {})
      BY <1>1, Zenon DEF tables
    <2>2. QED
      BY <1>7, <1>8, <1>9, <2>1, Zenon DEF AdjustOK, At
  <1>11. QED
    BY <1>1, <1>8, <1>10 DEF RequestOK, StageOK, InTransaction

\* A lot of the shipment is refreshed without the allocations the shipment takes.
LEMMA RefreshShipped ==
    ASSUME TxInv, NEW r \in Req, RefreshLot(r), call[r].op = "ship"
    PROVE  RequestOK(r)'
  <1> DEFINE c == call[r].contract
             s == call[r].shipment
             ids == call[r].ids
             cs == Row(c, ShippedContract(r))
             as == [a \in ids |-> ShippedRow(r, a)]
             ss == Row(s, NewShipment(r, Lines(allocs, ids)))
             td == draft[r].todo
             ls == draft[r].lots
  <1>1. At(r, "refresh") /\ UNCHANGED <<tables, call, holds>> /\ ShipOK(r)
    BY DEF TxInv, Requests, RequestOK, StageOK, RefreshLot, At, InTransaction
  <1>2. ShippingOK(r) /\ td # {} /\ Key("lot", NextLot(r)) \in holds[r]
    BY <1>1 DEF ShipOK, At
  <1>3. PICK l : l = NextLot(r)
    OBVIOUS
  <1>4. l \in td
    BY <1>2, <1>3, NextLotIs DEF TxInv
  <1>5. td \subseteq Touched(r) /\ DOMAIN ls = Touched(r) \ td
        /\ ls = [m \in DOMAIN ls |-> RefreshedRow(r, m)]
        /\ draft[r] = Writes(ls, cs, as, ss, {}, {}, td)
    BY <1>2, Zenon DEF ShippingOK, ShipWrites
  <1>18. /\ draft[r] = [field \in Fields |-> draft[r][field]]
         /\ draft[r].contracts = cs /\ draft[r].allocs = as /\ draft[r].shipments = ss
         /\ draft[r].documents = {} /\ draft[r].reading = {} /\ draft[r].next = {}
    <2>1. PICK d, l1, c1, a1, s1, t1 :
            d = draft[r] /\ l1 = ls /\ c1 = cs /\ a1 = as /\ s1 = ss /\ t1 = td
      OBVIOUS
    <2>2. d = Writes(l1, c1, a1, s1, {}, {}, t1)
      BY <1>5, <2>1, Zenon
    <2>3. /\ d = [field \in Fields |-> d[field]]
          /\ d.contracts = c1 /\ d.allocs = a1 /\ d.shipments = s1
          /\ d.documents = {} /\ d.reading = {} /\ d.next = {}
      BY <2>2 DEF Writes, Fields
    <2>4. QED
      BY <2>1, <2>3, Zenon
  <1>6. Touched(r) \subseteq DOMAIN lots
    BY <1>2 DEF TxInv, Tables, P!Traceable, P!ReferencesExist, Touched, ShippingOK
  <1>7. Over(lots, ls)[l] = lots[l]
    BY <1>4, <1>5, <1>6 DEF Over
  <1>8. OpenAllocations(Over(allocs, as), l) = OpenAllocations(allocs, l) \ ids
    <2>1. ids \subseteq DOMAIN allocs
      BY <1>2 DEF ShippingOK
    <2>2. \A a \in ids : ShippedRow(r, a).status = "shipped"
      BY <2>1 DEF ShippedRow, TxInv, Tables, Typed, IsTable, AllocRow
    <2>3. QED
      BY <2>1, <2>2 DEF Over, OpenAllocations
  <1>9. PICK ls1 : ls1 = Over(ls, Row(l, RefreshedRow(r, l)))
    OBVIOUS
  <1>10. draft'[r] = Writes(ls1, cs, as, ss, {}, {}, td \ {l})
    <2>1. RefreshedRow(r, l) = [lots[l] EXCEPT !.status =
            LotStatusOf(lots[l].available, OpenAllocations(Over(allocs, as), l))]
      BY <1>8, Zenon DEF RefreshedRow
    <2> HIDE DEF cs, as, ss
    <2>2. /\ draft'[r].lots = Over(ls, Row(l, [lots[l] EXCEPT !.status =
                                LotStatusOf(lots[l].available, OpenAllocations(Over(allocs, as), l))]))
          /\ draft'[r] = Writes(draft'[r].lots, cs, as, ss, {}, {}, td \ {l})
      BY <1>3, <1>18, <1>7, RefreshWrites, Zenon
    <2>3. QED
      BY <1>9, <2>1, <2>2, Zenon
  <1>11. draft'[r].lots = ls1 /\ draft'[r].todo = td \ {l}
    BY <1>10 DEF Writes
  <1>12. DOMAIN ls1 = DOMAIN ls \cup {l} /\ ls1 = [m \in DOMAIN ls1 |-> RefreshedRow(r, m)]
    BY <1>5, <1>9 DEF Over, Row
  <1>13. pc'[r] = IF td = {l} THEN "commit" ELSE "lot"
    BY <1>1, <1>3, FollowingIs, ProcessDomains DEF RefreshLot, Goto, TxInv, At
  <1>14. call'[r] = call[r] /\ holds'[r] = holds[r] /\ UNCHANGED <<lots, contracts, allocs, shipments>>
    BY <1>1 DEF tables
  <1>15. ShippingOK(r)'
    <2>1. cs' = cs /\ as' = as /\ ss' = ss /\ Touched(r)' = Touched(r) /\ ShipmentFits(r)' = ShipmentFits(r)
      BY <1>1, Zenon DEF tables, ShippedContract, ShippedRow, NewShipment, Touched, ShipmentFits
    <2>2. \A m : RefreshedRow(r, m)' = RefreshedRow(r, m)
      BY <1>1, Zenon DEF tables, RefreshedRow
    <2>3. draft'[r] = ShipWrites(r)'
      BY <1>10, <1>11, <1>14, <2>1, Zenon DEF ShipWrites
    <2>4. DOMAIN ls1 = Touched(r) \ (td \ {l}) /\ td \ {l} \subseteq Touched(r)
      BY <1>4, <1>5, <1>12
    <2>5. \A m \in DOMAIN ls1 : Key("lot", m) \in holds[r]
      BY <1>2, <1>3, <1>12 DEF ShippingOK
    <2>6. draft'[r].lots = [m \in DOMAIN draft'[r].lots |-> RefreshedRow(r, m)']
      BY <1>11, <1>12, <2>2
    <2> HIDE DEF cs, as, ss, ls, td
    <2>7. QED
      BY <1>2, <1>11, <1>14, <2>1, <2>3, <2>4, <2>5, <2>6 DEF ShippingOK
  <1>16. ShipOK(r)'
    <2>1. CASE td = {l}
      BY <1>11, <1>13, <1>15, <2>1 DEF ShipOK, At
    <2>2. CASE td # {l}
      BY <1>4, <1>11, <1>13, <1>15, <2>2 DEF ShipOK, At
    <2>3. QED
      BY <2>1, <2>2
  <1>17. QED
    BY <1>13, <1>14, <1>16 DEF RequestOK, StageOK, InTransaction

\* The refresh is right whoever calls it.
LEMMA RefreshLotStage ==
    ASSUME TxInv, NEW r \in Req, RefreshLot(r)
    PROVE  RequestOK(r)'
  <1>1. At(r, "refresh") /\ StageOK(r)
    BY DEF TxInv, Requests, RequestOK, RefreshLot, At, InTransaction
  <1>2. call[r].op \in {"allocate", "adjust", "ship"}
    BY <1>1 DEF StageOK, StatusOK, DocsOK, At
  <1>3. QED
    BY <1>2, RefreshAllocated, RefreshAdjusted, RefreshShipped

------------------------------------------------------------------------------
\* The control state

\* The steps of one request.
Acts(r) == Arrive(r) \/ Step(r) \/ Fail(r) \/ BreakDeadlock(r)

\* A statement that is not the last one is followed by one.
LEMMA FollowingTyped ==
    ASSUME TxInv, NEW r \in Req, pc[r] \in InTransaction \ {"commit"}
    PROVE  Following(r) \in InTransaction
  <1>1. StageOK(r)
    BY DEF TxInv, Requests, RequestOK
  <1>2. CASE call[r].op = "allocate"
    BY <1>1, <1>2, FollowingIs DEF StageOK, AllocateOK, At, InTransaction
  <1>3. CASE call[r].op = "ship"
    BY <1>1, <1>3, FollowingIs DEF StageOK, ShipOK, At, InTransaction
  <1>4. CASE call[r].op = "adjust"
    BY <1>1, <1>4, FollowingIs DEF StageOK, AdjustOK, At, InTransaction
  <1>5. CASE call[r].op = "status"
    BY <1>1, <1>5, FollowingIs DEF StageOK, StatusOK, At, InTransaction
  <1>6. CASE call[r].op = "docs"
    BY <1>1, <1>6, FollowingIs DEF StageOK, DocsOK, At, InTransaction
  <1>7. QED
    BY <1>1, <1>2, <1>3, <1>4, <1>5, <1>6 DEF StageOK

\* Who waits is at a statement that needs a row.
LEMMA WaitingAt ==
    ASSUME NEW r \in Req, Blockers(r) # {}
    PROVE  pc[r] \in {"contract", "lot", "number", "shipment", "insert", "allocations"}
  BY DEF Blockers, Wanted

\* The control of a step: a request changes its own entries only, and its locks
\* grow by what it was granted.
LEMMA ControlStep ==
    ASSUME TxInv, NEW r \in Req, Step(r) \/ Fail(r) \/ BreakDeadlock(r)
    PROVE  /\ UNCHANGED call
           /\ pc[r] \in InTransaction \cup {"connect", "notify"}
           /\ pc'[r] \in InTransaction \cup {"notify", "done", "failed"}
           /\ pc' = [pc EXCEPT ![r] = pc'[r]]
           /\ holds' = [holds EXCEPT ![r] = holds'[r]]
           /\ draft' = [draft EXCEPT ![r] = draft'[r]]
           /\ holds'[r] \subseteq holds[r] \/ (Granted(r) /\ holds'[r] = holds[r] \cup Wanted(r))
           /\ \/ UNCHANGED <<tables, notices>> /\ pc[r] # "notify" /\ pc'[r] \notin {"notify", "done"}
              \/ Commit(r)
              \/ Notify(r)
  <1> DEFINE Goal ==
           /\ UNCHANGED call
           /\ pc[r] \in InTransaction \cup {"connect", "notify"}
           /\ pc'[r] \in InTransaction \cup {"notify", "done", "failed"}
           /\ pc' = [pc EXCEPT ![r] = pc'[r]]
           /\ holds' = [holds EXCEPT ![r] = holds'[r]]
           /\ draft' = [draft EXCEPT ![r] = draft'[r]]
           /\ holds'[r] \subseteq holds[r] \/ (Granted(r) /\ holds'[r] = holds[r] \cup Wanted(r))
           /\ \/ UNCHANGED <<tables, notices>> /\ pc[r] # "notify" /\ pc'[r] \notin {"notify", "done"}
              \/ Commit(r)
              \/ Notify(r)
  <1>0. /\ DOMAIN pc = Req /\ DOMAIN holds = Req /\ DOMAIN draft = Req
        /\ pc = [pc EXCEPT ![r] = pc[r]] /\ holds = [holds EXCEPT ![r] = holds[r]]
        /\ draft = [draft EXCEPT ![r] = draft[r]]
    BY ProcessDomains DEF TxInv, Processes
  <1>1. pc[r] \in InTransaction \ {"commit"} => Following(r) \in InTransaction
    BY FollowingTyped
  <1>2. ASSUME pc[r] \in InTransaction, Rollback(r), UNCHANGED <<tables, call, notices>>
        PROVE  Goal
    <2>1. pc' = [pc EXCEPT ![r] = "failed"] /\ holds' = [holds EXCEPT ![r] = {}]
          /\ draft' = [draft EXCEPT ![r] = NoDraft]
      BY <1>2 DEF Rollback, Goto, LetGo
    <2>2. pc'[r] = "failed" /\ holds'[r] = {} /\ draft'[r] = NoDraft
      BY <1>0, <2>1
    <2>3. QED
      BY <1>2, <2>1, <2>2 DEF InTransaction
  <1>3. ASSUME pc[r] \in InTransaction \ {"commit"}, Goto(r, Following(r)),
               TakeLock(r) \/ UNCHANGED holds,
               draft' = [draft EXCEPT ![r] = draft'[r]], UNCHANGED <<tables, call, notices>>
        PROVE  Goal
    BY <1>0, <1>1, <1>3 DEF Goto, TakeLock, InTransaction
  <1>4. CASE Fail(r)
    BY <1>2, <1>4 DEF Fail
  <1>5. CASE BreakDeadlock(r)
    <2>1. pc[r] \in InTransaction
      BY <1>5, WaitingAt DEF BreakDeadlock, Cycle, InTransaction
    <2>2. QED
      BY <1>2, <1>5, <2>1 DEF BreakDeadlock
  <1>6. CASE Connect(r)
    <2>1. pc'[r] \in InTransaction
      <3>1. call[r].op \in {"allocate", "ship", "adjust", "status", "docs"}
        BY <1>6, CallOf DEF TxInv, Connect, At
      <3>2. Head(Program(call[r].op)) \in InTransaction
        BY <3>1 DEF Program, InTransaction
      <3>3. QED
        BY <1>0, <1>6, <3>2 DEF Connect, Goto
    <2>2. QED
      BY <1>0, <1>6, <2>1 DEF Connect, Goto, At, InTransaction
  <1>7. CASE LockContract(r)
    BY <1>0, <1>2, <1>3, <1>7 DEF LockContract, At, InTransaction
  <1>8. CASE TakeFromLot(r)
    <2>1. CASE Rollback(r)
      BY <1>2, <1>8, <2>1 DEF TakeFromLot, At, InTransaction
    <2>2. CASE TakeLock(r) /\ Goto(r, Following(r)) /\ draft' = [draft EXCEPT ![r] = draft'[r]]
      BY <1>3, <1>8, <2>2 DEF TakeFromLot, At, InTransaction
    <2>3. QED
      BY <1>0, <1>8, <2>1, <2>2 DEF TakeFromLot
  <1>9. CASE CorrectLot(r)
    <2>1. CASE Rollback(r)
      BY <1>2, <1>9, <2>1 DEF CorrectLot, At, InTransaction
    <2>2. CASE TakeLock(r) /\ Goto(r, Following(r)) /\ draft' = [draft EXCEPT ![r] = draft'[r]]
      BY <1>3, <1>9, <2>2 DEF CorrectLot, At, InTransaction
    <2>3. QED
      BY <1>0, <1>9, <2>1, <2>2 DEF CorrectLot
  <1>10. CASE InsertShipment(r)
    <2>1. CASE Rollback(r)
      BY <1>2, <1>10, <2>1 DEF InsertShipment, At, InTransaction
    <2>2. CASE TakeLock(r) /\ Goto(r, Following(r)) /\ draft' = [draft EXCEPT ![r] = draft'[r]]
      BY <1>3, <1>10, <2>2 DEF InsertShipment, At, InTransaction
    <2>3. QED
      BY <1>0, <1>10, <2>1, <2>2 DEF InsertShipment
  <1>11. CASE LockAllocation(r)
    <2>1. CASE Rollback(r)
      BY <1>2, <1>11, <2>1 DEF LockAllocation, At, InTransaction
    <2>2. CASE TakeLock(r) /\ UNCHANGED pc /\ draft' = [draft EXCEPT ![r] = draft'[r]]
      BY <1>0, <1>11, <2>2 DEF LockAllocation, At, InTransaction, TakeLock
    <2>3. CASE TakeLock(r) /\ Goto(r, Following(r)) /\ draft' = [draft EXCEPT ![r] = draft'[r]]
      BY <1>3, <1>11, <2>3 DEF LockAllocation, At, InTransaction
    <2>4. draft' = [draft EXCEPT ![r] = ShipmentDraft(r)] => draft' = [draft EXCEPT ![r] = draft'[r]]
      BY <1>0
    <2>5. ASSUME NEW b, draft' = [draft EXCEPT ![r].next = {b}]
          PROVE  draft' = [draft EXCEPT ![r] = draft'[r]]
      BY <1>0, <2>5
    <2>6. QED
      BY <1>11, <2>1, <2>2, <2>3, <2>4, <2>5 DEF LockAllocation
  <1>12. CASE LockShippedLot(r)
    BY <1>0, <1>3, <1>12 DEF LockShippedLot, At, InTransaction
  <1>13. CASE RefreshLot(r)
    <2>1. pc[r] = "refresh" /\ UNCHANGED <<tables, call, holds, notices>>
          /\ pc'[r] \in {Following(r), "lot"} /\ pc' = [pc EXCEPT ![r] = pc'[r]]
      BY <1>0, <1>13 DEF RefreshLot, Goto, At
    <2>2. draft' = [draft EXCEPT ![r] = draft'[r]]
      BY <1>0, <1>13 DEF RefreshLot
    <2>3. QED
      BY <1>0, <1>1, <2>1, <2>2 DEF InTransaction
  <1>14. CASE MoveShipment(r)
    <2>1. CASE Rollback(r)
      BY <1>2, <1>14, <2>1 DEF MoveShipment, At, InTransaction
    <2>2. CASE TakeLock(r) /\ Goto(r, Following(r)) /\ draft' = [draft EXCEPT ![r] = draft'[r]]
      BY <1>3, <1>14, <2>2 DEF MoveShipment, At, InTransaction
    <2>3. QED
      BY <1>0, <1>14, <2>1, <2>2 DEF MoveShipment
  <1>15. CASE ReadShipment(r)
    <2>1. CASE Rollback(r)
      BY <1>2, <1>15, <2>1 DEF ReadShipment, At, InTransaction
    <2>2. CASE UNCHANGED holds /\ Goto(r, Following(r)) /\ draft' = [draft EXCEPT ![r] = draft'[r]]
      BY <1>3, <1>15, <2>2 DEF ReadShipment, At, InTransaction
    <2>3. QED
      BY <1>0, <1>15, <2>1, <2>2 DEF ReadShipment
  <1>16. CASE ListAllocations(r)
    <2>1. CASE Rollback(r)
      BY <1>2, <1>16, <2>1 DEF ListAllocations, At, InTransaction
    <2>2. CASE UNCHANGED holds /\ Goto(r, Following(r)) /\ draft' = [draft EXCEPT ![r] = draft'[r]]
      BY <1>3, <1>16, <2>2 DEF ListAllocations, At, InTransaction
    <2>3. QED
      BY <1>0, <1>16, <2>1, <2>2 DEF ListAllocations
  <1>17. CASE InsertDocuments(r)
    BY <1>0, <1>3, <1>17 DEF InsertDocuments, At, InTransaction
  <1>18. CASE Commit(r)
    BY <1>0, <1>18 DEF Commit, At, Goto, LetGo, InTransaction
  <1>19. CASE Notify(r)
    BY <1>0, <1>19 DEF Notify, At, Goto, InTransaction
  <1>20. QED
    BY <1>4, <1>5, <1>6, <1>7, <1>8, <1>9, <1>10, <1>11, <1>12, <1>13, <1>14, <1>15, <1>16, <1>17,
       <1>18, <1>19, Zenon DEF Step

------------------------------------------------------------------------------
\* The invariant is inductive

\* A step of one request leaves every other one what it relies on.
LEMMA OthersKept ==
    ASSUME TxInv, NEW r \in Req, Acts(r), NEW q \in Req, q # r
    PROVE  Kept(q)
  <1>1. CASE Commit(r)
    BY <1>1, CommitKept
  <1>2. CASE Arrive(r)
    <2>1. UNCHANGED tables /\ call'[q] = call[q] /\ pc'[q] = pc[q] /\ holds'[q] = holds[q]
          /\ draft'[q] = draft[q]
      BY <1>2, ProcessDomains DEF TxInv, Arrive, Goto
    <2>2. QED
      BY <2>1, TablesKept
  <1>3. CASE ~Commit(r) /\ ~Arrive(r)
    <2>1. UNCHANGED tables /\ call'[q] = call[q] /\ pc'[q] = pc[q] /\ holds'[q] = holds[q]
          /\ draft'[q] = draft[q]
      BY <1>3, ControlStep, ProcessDomains DEF TxInv, Acts, Notify
    <2>2. QED
      BY <2>1, TablesKept
  <1>4. QED
    BY <1>1, <1>2, <1>3

\* Only a COMMIT changes the tables, and to tables as good.
LEMMA TablesNext ==
    ASSUME TxInv, NEW r \in Req, Acts(r)
    PROVE  Tables' /\ (Commit(r) \/ UNCHANGED tables)
  <1>1. CASE Commit(r)
    BY <1>1, CommitTables
  <1>2. CASE UNCHANGED tables
    <2>1. Typed'
      BY <1>2 DEF TxInv, Tables, Typed, tables
    <2>2. P!Traceable'
      BY <1>2, Zenon DEF TxInv, Tables, P!Traceable, P!ReferencesExist, P!SnapshotFaithful,
                  P!DocumentsAgree, tables
    <2>3. QED
      BY <1>2, <2>1, <2>2 DEF TxInv, Tables, tables
  <1>3. Commit(r) \/ UNCHANGED tables
    BY ControlStep DEF Acts, Arrive, Notify
  <1>4. QED
    BY <1>1, <1>2, <1>3

\* A call announces at most one thing.
LEMMA AnnouncedTyped ==
    ASSUME Processes, NEW r \in Req, Commit(r)
    PROVE  Announced(r) \subseteq Notice /\ \A m, n \in Announced(r) : m = n
  <1>1. call[r] \in Call
    BY CallOf DEF Commit, At
  <1>2. CASE call[r].op = "allocate"
    BY <1>1, <1>2 DEF Call, Announced, Notice
  <1>3. CASE call[r].op = "ship"
    BY <1>1, <1>3 DEF Call, Announced, Notice
  <1>4. CASE call[r].op = "adjust"
    BY <1>1, <1>4 DEF Call, Announced, Notice
  <1>5. CASE call[r].op = "status"
    BY <1>1, <1>5 DEF Call, Announced, Notice
  <1>6. CASE call[r].op = "docs"
    BY <1>1, <1>6 DEF Call, Announced, Notice
  <1>7. QED
    BY <1>1, <1>2, <1>3, <1>4, <1>5, <1>6 DEF Call

\* The types of the control state are inductive.
LEMMA ProcessesNext ==
    ASSUME TxInv, NEW r \in Req, Acts(r)
    PROVE  Processes'
  <1>1. CASE Arrive(r)
    <2>1. PICK c \in Calls : call' = [call EXCEPT ![r] = c]
      BY <1>1 DEF Arrive
    <2>2. c # NoCall
      BY CallsAssumption DEF Call, NoCall
    <2>3. pc' = [pc EXCEPT ![r] = "connect"] /\ UNCHANGED <<holds, draft, notices>> /\ pc[r] = "idle"
      BY <1>1 DEF Arrive, Goto, At
    <2>4. QED
      BY <2>1, <2>2, <2>3 DEF TxInv, Processes
  <1>2. ASSUME UNCHANGED call, pc[r] # "idle", pc'[r] \in InTransaction \cup {"notify", "done", "failed"},
               pc' = [pc EXCEPT ![r] = pc'[r]], holds' = [holds EXCEPT ![r] = holds'[r]],
               draft' = [draft EXCEPT ![r] = draft'[r]],
               NEW news \in SUBSET Notice, \A m, n \in news : m = n,
               notices' = [notices EXCEPT ![r] = news], pc'[r] # "notify" => news = {}
        PROVE  Processes'
    <2>1. pc'[r] # "idle"
      BY <1>2 DEF InTransaction
    <2>2. holds' = [q \in Req |-> holds'[q]] /\ draft' = [q \in Req |-> draft'[q]]
      BY <1>2 DEF TxInv, Processes
    <2>3. \A q \in Req : q # r => pc'[q] = pc[q] /\ notices'[q] = notices[q]
      BY <1>2 DEF TxInv, Processes
    <2>4. notices'[r] = news /\ notices' \in [Req -> SUBSET Notice]
      BY <1>2 DEF TxInv, Processes
    <2>5. pc' \in [Req -> InTransaction \cup {"idle", "connect", "notify", "done", "failed"}]
      BY <1>2 DEF TxInv, Processes
    <2>6. call' = call
      BY <1>2
    <2>7. \A q \in Req : /\ (pc'[q] = "idle" <=> call[q] = NoCall)
                         /\ pc'[q] # "notify" => notices'[q] = {}
                         /\ \A m, n \in notices'[q] : m = n
      <3> SUFFICES ASSUME NEW q \in Req
                   PROVE  /\ (pc'[q] = "idle" <=> call[q] = NoCall)
                          /\ pc'[q] # "notify" => notices'[q] = {}
                          /\ \A m, n \in notices'[q] : m = n
        OBVIOUS
      <3>1. CASE q = r
        BY <1>2, <2>1, <2>4, <3>1 DEF TxInv, Processes
      <3>2. CASE q # r
        BY <2>3, <3>2 DEF TxInv, Processes
      <3>3. QED
        BY <3>1, <3>2
    <2>8. QED
      BY <2>2, <2>4, <2>5, <2>6, <2>7 DEF TxInv, Processes
  <1>3. CASE Step(r) \/ Fail(r) \/ BreakDeadlock(r)
    <2>1. /\ UNCHANGED call /\ pc[r] # "idle"
          /\ pc'[r] \in InTransaction \cup {"notify", "done", "failed"}
          /\ pc' = [pc EXCEPT ![r] = pc'[r]] /\ holds' = [holds EXCEPT ![r] = holds'[r]]
          /\ draft' = [draft EXCEPT ![r] = draft'[r]]
      BY <1>3, ControlStep DEF InTransaction
    <2>2. CASE UNCHANGED notices /\ pc[r] # "notify" /\ pc'[r] # "notify"
      <3>1. notices' = [notices EXCEPT ![r] = {}]
        BY <2>2 DEF TxInv, Processes
      <3>2. {} \in SUBSET Notice /\ \A m, n \in {} : m = n
        OBVIOUS
      <3>3. QED
        BY <1>2, <2>1, <3>1, <3>2, Zenon
    <2>3. CASE Commit(r)
      <3>1. notices' = [notices EXCEPT ![r] = Announced(r)] /\ pc'[r] = "notify"
        BY <2>3, ProcessDomains DEF Commit, Goto, TxInv
      <3>2. Announced(r) \in SUBSET Notice /\ \A m, n \in Announced(r) : m = n
        BY <2>3, AnnouncedTyped DEF TxInv
      <3>3. QED
        BY <1>2, <2>1, <3>1, <3>2
    <2>4. CASE Notify(r)
      <3>1. notices' = [notices EXCEPT ![r] = {}]
        BY <2>4 DEF Notify
      <3>2. {} \in SUBSET Notice /\ \A m, n \in {} : m = n
        OBVIOUS
      <3>3. QED
        BY <1>2, <2>1, <3>1, <3>2, Zenon
    <2>5. QED
      BY <1>3, <2>2, <2>3, <2>4, ControlStep
  <1>4. QED
    BY <1>1, <1>3 DEF Acts

\* A step takes the request that makes it to its next stage.
LEMMA StageNext ==
    ASSUME TxInv, NEW r \in Req, Acts(r)
    PROVE  RequestOK(r)'
  <1>1. CASE Arrive(r)
    BY <1>1, ProcessDomains DEF TxInv, Requests, RequestOK, Arrive, Goto, At, InTransaction
  <1>2. CASE Fail(r) \/ BreakDeadlock(r)
    BY <1>2, RolledBack DEF TxInv, Fail, BreakDeadlock
  <1>3. CASE Commit(r)
    BY <1>3, ProcessDomains DEF TxInv, Commit, Goto, LetGo, RequestOK, InTransaction
  <1>4. CASE Notify(r)
    BY <1>4, ProcessDomains DEF TxInv, Requests, Notify, Goto, RequestOK, At, InTransaction
  <1>5. QED
    BY <1>1, <1>2, <1>3, <1>4, ConnectStage, LockContractStage, TakeFromLotStage, CorrectLotStage,
       InsertShipmentStage, LockAllocationStage, LockShippedLotStage, RefreshLotStage,
       MoveShipmentStage, ReadShipmentStage, ListAllocationsStage, InsertDocumentsStage
       DEF Acts, Step

\* A lock is granted when nobody else holds it.
LEMMA ExclusiveNext ==
    ASSUME TxInv, NEW r \in Req, Acts(r)
    PROVE  Exclusive'
  <1>1. \A q \in Req : q # r => holds'[q] = holds[q]
    BY OthersKept DEF Kept
  <1>2. holds'[r] \subseteq holds[r] \/ (Granted(r) /\ holds'[r] = holds[r] \cup Wanted(r))
    BY ControlStep DEF Acts, Arrive
  <1>3. ASSUME NEW q \in Req, q # r, NEW key \in holds'[r] \cap holds[q]
        PROVE  key[1] = "shipment_ref"
    <2>1. CASE key \in holds[r]
      BY <1>3, <2>1 DEF TxInv, Requests, Exclusive
    <2>2. CASE key \notin holds[r]
      <3>1. key \in Wanted(r) /\ Blockers(r) = {}
        BY <1>2, <1>3, <2>2 DEF Granted
      <3>2. holds[q] \cap Conflicting(key) = {}
        BY <1>3, <3>1 DEF Blockers
      <3>3. QED
        BY <1>3, <3>2 DEF Conflicting
    <2>3. QED
      BY <2>1, <2>2
  <1>4. QED
    BY <1>1, <1>3 DEF TxInv, Requests, Exclusive

\* Ids of new allocations stay new.
LEMMA FreshIdsNext ==
    ASSUME TxInv, NEW r \in Req, Acts(r)
    PROVE  FreshIds'
  <1>1. CASE Arrive(r)
    <2>1. PICK c \in Calls : /\ call' = [call EXCEPT ![r] = c]
                             /\ c.op = "allocate" =>
                                    /\ c.alloc \notin DOMAIN allocs
                                    /\ \A q \in Req : call[q].op = "allocate" => call[q].alloc # c.alloc
      BY <1>1 DEF Arrive
    <2>2. allocs' = allocs /\ pc' = [pc EXCEPT ![r] = "connect"]
      BY <1>1 DEF Arrive, Goto, tables
    <2>3. QED
      BY <2>1, <2>2, ProcessDomains DEF TxInv, Requests, FreshIds
  <1>2. CASE Step(r) \/ Fail(r) \/ BreakDeadlock(r)
    <2>1. UNCHANGED call /\ \A q \in Req : q # r => pc'[q] = pc[q]
      BY <1>2, ControlStep, OthersKept DEF Acts, Kept
    <2>2. CASE Commit(r)
      <3>1. pc'[r] \notin InTransaction \cup {"connect"}
        BY <2>2, ProcessDomains DEF Commit, Goto, TxInv, InTransaction
      <3>2. \A a \in DOMAIN allocs' : a \in DOMAIN allocs \/ (call[r].op = "allocate" /\ a = call[r].alloc)
        BY <2>2, WritesAreLocked DEF Commit, Over
      <3>3. QED
        BY <2>1, <3>1, <3>2 DEF TxInv, Requests, FreshIds
    <2>3. CASE ~Commit(r)
      <3>1. allocs' = allocs
        BY <2>3, TablesNext, <1>2 DEF Acts, tables
      <3>2. pc'[r] \in InTransaction \cup {"connect"} => pc[r] \in InTransaction \cup {"connect"}
        <4>1. CASE Notify(r)
          BY <4>1, ProcessDomains DEF TxInv, Notify, Goto, InTransaction
        <4>2. QED
          BY <1>2, <2>3, <4>1, ControlStep
      <3>3. QED
        BY <2>1, <3>1, <3>2 DEF TxInv, Requests, FreshIds
    <2>4. QED
      BY <2>2, <2>3
  <1>3. QED
    BY <1>1, <1>2 DEF Acts

\* The invariant is inductive: one request acts, the others keep what they rely on.
LEMMA TxInvNext ==
    ASSUME TxInv, [Next]_vars
    PROVE  TxInv'
  <1>1. CASE UNCHANGED vars
    <2>1. Tables'
      <3>1. Typed'
        BY <1>1 DEF TxInv, Tables, Typed, vars, tables
      <3>2. P!Traceable'
        BY <1>1, Zenon DEF TxInv, Tables, P!Traceable, P!ReferencesExist, P!SnapshotFaithful,
                  P!DocumentsAgree, vars, tables
      <3>3. QED
        BY <1>1, <3>1, <3>2 DEF TxInv, Tables, vars, tables
    <2>2. Processes'
      BY <1>1 DEF TxInv, Processes, vars
    <2>3. Exclusive' /\ FreshIds'
      BY <1>1 DEF TxInv, Requests, Exclusive, FreshIds, vars, tables
    <2>4. \A r \in Req : Kept(r)
      BY <1>1, TablesKept DEF vars
    <2>5. \A r \in Req : RequestOK(r)'
      BY <2>1, <2>4, RequestKept DEF TxInv, Requests
    <2>6. QED
      BY <2>1, <2>2, <2>3, <2>5 DEF TxInv, Requests
  <1>2. ASSUME NEW r \in Req, Acts(r)
        PROVE  TxInv'
    <2>1. Tables'
      BY <1>2, TablesNext
    <2>2. \A q \in Req : q # r => Kept(q)
      BY <1>2, OthersKept
    <2>3. \A q \in Req : q # r => RequestOK(q)'
      BY <2>1, <2>2, RequestKept DEF TxInv, Requests
    <2>4. RequestOK(r)'
      BY <1>2, StageNext
    <2>5. \A q \in Req : RequestOK(q)'
      BY <2>3, <2>4
    <2>6. Exclusive' /\ FreshIds' /\ Processes'
      BY <1>2, ExclusiveNext, FreshIdsNext, ProcessesNext
    <2>7. QED
      BY <2>1, <2>5, <2>6 DEF TxInv, Requests
  <1>3. QED
    BY <1>1, <1>2 DEF Next, Acts

------------------------------------------------------------------------------
\* The theorems

\* Tables a history of the ledger can have left behind.
WellFormed == L!TypeOK /\ L!Traceable /\ IsFiniteSet(DOMAIN allocs)

\* ... and that also agree with each other.
Consistent ==
    /\ WellFormed
    /\ CommittedConsistent
    /\ \A a \in DOMAIN allocs : allocs[a].kg > 0
    /\ \A c \in DOMAIN contracts : contracts[c].quantity > 0

\* The invariant holds at the start.
LEMMA TxInvInit ==
    ASSUME Init, WellFormed
    PROVE  TxInv
  <1>1. Tables
    BY SameTypes, SameInvariants DEF WellFormed, Tables
  <1>2. Processes
    BY DEF Init, Processes, Notice
  <1>3. Requests
    BY DEF Init, Requests, Exclusive, FreshIds, RequestOK, InTransaction, NoCall
  <1>4. QED
    BY <1>1, <1>2, <1>3 DEF TxInv

\* The invariant holds for every number of requests, calls and rows.
LEMMA TxInvHolds == WellFormed /\ Spec => []TxInv
  <1>1. WellFormed /\ Init => TxInv
    BY TxInvInit
  <1>2. TxInv /\ [Next]_vars => TxInv'
    BY TxInvNext
  <1>3. QED
    BY <1>1, <1>2, PTL DEF Spec

\* Type correctness, and nothing is locked or written outside a transaction
\* (withTransaction releases its connection on every path).
THEOREM TxTypeCorrect == WellFormed /\ Spec => []TypeOK
  <1>1. TxInv => TypeOK
    BY LedgerTyped, SameTypes DEF TxInv, TypeOK, Processes, Requests, RequestOK
  <1>2. QED
    BY <1>1, TxInvHolds, PTL

\* Every step is one of the ledger or leaves it alone.
LEMMA StepIsLedger ==
    ASSUME TxInv, [Next]_vars
    PROVE  [P!Next]_(P!vars)
  <1>1. CASE UNCHANGED vars
    BY <1>1 DEF vars, tables, P!vars
  <1>2. ASSUME NEW r \in Req, Acts(r)
        PROVE  [P!Next]_(P!vars)
    <2>1. CASE Commit(r)
      BY <2>1, CommitIsCall
    <2>2. CASE UNCHANGED <<tables, notices>>
      BY <2>2 DEF tables, P!vars
    <2>3. CASE Notify(r)
      <3>1. UNCHANGED tables /\ notices' = [notices EXCEPT ![r] = {}] /\ DOMAIN notices = Req
        BY <2>3 DEF Notify, TxInv, Processes
      <3>2. \A m, n \in notices[r] : m = n
        BY DEF TxInv, Processes
      <3>3. CASE UNION {notices'[q] : q \in Req} = UNION {notices[q] : q \in Req}
        BY <3>1, <3>3, Zenon DEF tables, P!vars
      <3>4. CASE UNION {notices'[q] : q \in Req} # UNION {notices[q] : q \in Req}
        <4>1. PICK n \in notices[r] : n \notin UNION {notices'[q] : q \in Req}
          BY <3>1, <3>4
        <4>2. UNION {notices'[q] : q \in Req} = (UNION {notices[q] : q \in Req}) \ {n}
          BY <3>1, <3>2, <4>1
        <4>3. P!Dispatch(n)
          BY <3>1, <4>2, Zenon DEF P!Dispatch, tables
        <4>4. QED
          BY <4>1, <4>3, CallIsStep DEF Outbox
      <3>5. QED
        BY <3>3, <3>4
    <2>4. QED
      BY <1>2, <2>1, <2>2, <2>3, ControlStep DEF Acts, Arrive
  <1>3. QED
    BY <1>1, <1>2 DEF Next, Acts

\* Transactions are serializable, for every number of requests, connections and
\* rows and at every scale: each COMMIT is one whole call of the ledger, made on
\* the tables as they are at that moment, and nothing else changes the tables.
\* So the checks of allocateLot, createShipment, adjustStock and updateStatus
\* still hold when they commit, and generateDocuments may read without a lock.
THEOREM TxSerializable == WellFormed /\ Spec => Serializable
  <1>1. TxInv /\ [Next]_vars => [L!Next]_(L!vars)
    BY StepIsLedger, SameSteps DEF L!vars, P!vars
  <1>2. QED
    BY <1>1, TxInvHolds, PTL DEF Spec, Serializable

\* The ledger's own invariants are inductive for what is committed.
Committed ==
    /\ P!WithinLimits /\ P!TotalsAgree /\ P!StockAgrees
    /\ P!LotStatusAgrees /\ P!ProgressAgrees

\* The ledger's invariants carry over to the committed tables, step by step.
LEMMA CommittedNext ==
    ASSUME WholeUnits, TxInv, Committed, [Next]_vars
    PROVE  Committed'
  <1>1. P!TypeOK /\ P!Traceable /\ P!ReferencesExist
    BY LedgerTyped DEF TxInv, P!Traceable
  <1>2. [P!Next]_(P!vars)
    BY StepIsLedger
  <1>3. P!WholeUnits
    BY DEF WholeUnits, P!WholeUnits
  <1>4. P!NothingTooSmall
    BY SameOperators, WeightsAssumption DEF WholeUnits, P!NothingTooSmall, Stored
  <1>5. P!WithinLimits'
    BY <1>1, <1>2, P!LimitsNext, ScaleAssumption, NoShipmentAssumption, WeightsAssumption, Zenon DEF Committed
  <1>6. P!TotalsAgree'
    BY <1>1, <1>2, P!TotalsNext, ScaleAssumption, NoShipmentAssumption, WeightsAssumption, Zenon DEF Committed
  <1>7. P!StockAgrees'
    BY <1>1, <1>2, <1>3, P!StockNext, ScaleAssumption, NoShipmentAssumption, WeightsAssumption, Zenon DEF Committed
  <1>8. P!LotStatusAgrees'
    BY <1>1, <1>2, <1>4, P!LotStatusNext, ScaleAssumption, NoShipmentAssumption, WeightsAssumption, Zenon DEF Committed
  <1>9. P!ProgressAgrees'
    BY <1>1, <1>2, <1>4, P!ProgressNext, ScaleAssumption, NoShipmentAssumption, WeightsAssumption, Zenon DEF Committed
  <1>10. QED
    BY <1>5, <1>6, <1>7, <1>8, <1>9 DEF Committed

\* What is inductive implies what is promised.
LEMMA CommittedMeans ==
    ASSUME TxInv, Committed
    PROVE  CommittedConsistent
  <1>1. P!TypeOK /\ P!Traceable
    BY LedgerTyped DEF TxInv
  <1>2. P!Conservation
    BY DEF Committed, P!TotalsAgree, P!StockAgrees, P!Conservation
  <1>3. P!FulfilmentAgrees
    BY <1>1, P!FulfilledMeansShipped, ScaleAssumption, NoShipmentAssumption, WeightsAssumption, Zenon DEF Committed
  <1>4. QED
    BY <1>1, <1>2, <1>3, SameInvariants DEF Committed, CommittedConsistent

\* Consistent tables satisfy the inductive form too.
LEMMA CommittedInit ==
    ASSUME Consistent
    PROVE  Committed
  <1>1. P!WithinLimits /\ P!Conservation /\ P!LotStatusAgrees /\ P!FulfilmentAgrees
    BY SameInvariants DEF Consistent, CommittedConsistent
  <1>2. P!IsFiniteSet(DOMAIN allocs)
    BY DEF Consistent, WellFormed, P!IsFiniteSet, IsFiniteSet
  <1>3. P!TotalsAgree /\ P!StockAgrees
    BY <1>1, <1>2 DEF P!TotalsAgree, P!StockAgrees, P!Conservation
  <1>4. P!ProgressAgrees
    BY <1>1 DEF Consistent, P!ProgressAgrees, P!FulfilmentAgrees
  <1>5. QED
    BY <1>1, <1>3, <1>4 DEF Committed

\* The committed tables are consistent at every moment, while any number of
\* calls is under way, if weights are sent in whole units: no lot or contract is
\* overcommitted, no weight is lost or counted twice, and statuses and snapshots
\* agree with the rows (the FOR UPDATE locks of contracts.service.ts,
\* shipments.service.ts, inventory.service.ts and refreshLotStatus).
THEOREM TxCommittedConsistent ==
    ASSUME WholeUnits
    PROVE  Consistent /\ Spec => []CommittedConsistent
  <1>1. Consistent => Committed /\ WellFormed
    BY CommittedInit DEF Consistent
  <1>2. TxInv /\ Committed /\ [Next]_vars => Committed'
    BY CommittedNext
  <1>3. TxInv /\ Committed => CommittedConsistent
    BY CommittedMeans
  <1>4. QED
    BY <1>1, <1>2, <1>3, TxInvHolds, PTL DEF Spec

------------------------------------------------------------------------------
\* Deadlocks

\* A request that holds a row and waits for one is allocating or shipping.
LEMMA HoldsAndWaits ==
    ASSUME TxInv, NEW r \in Req, holds[r] # {}, Blockers(r) # {}
    PROVE  \/ /\ call[r].op = "allocate" /\ At(r, "lot")
              /\ holds[r] = {Key("contract", call[r].contract)}
           \/ /\ call[r].op = "ship" /\ At(r, "number")
              /\ holds[r] = {Key("contract", call[r].contract)}
           \/ call[r].op = "ship" /\ At(r, "allocations") /\ ShipOK(r)
           \/ /\ call[r].op = "ship" /\ At(r, "lot") /\ ShipOK(r)
              /\ Key("contract", call[r].contract) \in holds[r]
  <1>1. pc[r] \in {"contract", "lot", "number", "shipment", "insert", "allocations"}
    BY WaitingAt
  <1>2. StageOK(r)
    BY <1>1 DEF TxInv, Requests, RequestOK, InTransaction
  <1>3. CASE call[r].op = "allocate"
    BY <1>1, <1>2, <1>3 DEF StageOK, AllocateOK, At
  <1>4. CASE call[r].op = "ship"
    <2>1. ShipOK(r)
      BY <1>2, <1>4 DEF StageOK
    <2>2. CASE At(r, "allocations")
      BY <1>4, <2>1, <2>2
    <2>3. CASE At(r, "lot")
      <3>1. ShippingOK(r)
        BY <2>1, <2>3 DEF ShipOK, At
      <3>2. QED
        BY <1>4, <2>1, <2>3, <3>1 DEF ShippingOK
    <2>4. CASE ~At(r, "allocations") /\ ~At(r, "lot")
      BY <1>1, <1>4, <2>1, <2>4 DEF ShipOK, At
    <2>5. QED
      BY <2>2, <2>3, <2>4
  <1>5. CASE call[r].op = "adjust"
    BY <1>1, <1>2, <1>5 DEF StageOK, AdjustOK, At
  <1>6. CASE call[r].op = "status"
    BY <1>1, <1>2, <1>6 DEF StageOK, StatusOK, At
  <1>7. CASE call[r].op = "docs"
    BY <1>1, <1>2, <1>7 DEF StageOK, DocsOK, At
  <1>8. QED
    BY <1>2, <1>3, <1>4, <1>5, <1>6, <1>7 DEF StageOK

\* The contract of an allocation that two shipments of different contracts name is
\* foreign to one of them.
LEMMA MeetOnForeign ==
    ASSUME NEW r, NEW q, NEW a \in DOMAIN allocs, a \in call[r].ids, a \in call[q].ids,
           call[r].contract # call[q].contract
    PROVE  NamesForeign(r) \/ NamesForeign(q)
  BY DEF NamesForeign

\* A shipment has locked no allocation that it does not name.
LEMMA HoldsNamed ==
    ASSUME NEW q \in Req, ShipOK(q), At(q, "allocations") \/ At(q, "lot"),
           NEW a, Key("alloc", a) \in holds[q]
    PROVE  a \in call[q].ids
  <1>1. CASE At(q, "allocations")
    BY <1>1, Selecting DEF Key
  <1>2. CASE At(q, "lot")
    BY <1>2 DEF ShipOK, ShippingOK, At, Key
  <1>3. QED
    BY <1>1, <1>2

\* Who holds a contract only blocks who has nothing yet.  So the members of a cycle are
\* shipments past their numbers, and each has its contract for itself: where one waits
\* for an allocation of another, the two name it for different contracts.
LEMMA DeadlockedShipments ==
    ASSUME TxInv, NEW D \in SUBSET Req, Cycle(D)
    PROVE  /\ \A r \in D :
                 /\ call[r].op = "ship"
                 /\ \/ pc[r] = "lot"
                    \/ /\ pc[r] = "allocations"
                       /\ \E q \in D \cap Blockers(r) : NamesForeign(r) \/ NamesForeign(q)
           /\ \A r, q \in D : r # q => call[r].contract # call[q].contract
  <1>1. \A r \in D : holds[r] # {} /\ Blockers(r) # {} /\ \E q \in D : r \in Blockers(q)
    BY DEF Cycle, Blockers
  <1>2. \A q \in D : At(q, "lot") \/ At(q, "number") \/ At(q, "allocations")
    BY <1>1, HoldsAndWaits
  <1>3. ASSUME NEW r \in D, holds[r] = {Key("contract", call[r].contract)}
        PROVE  FALSE
    <2>1. PICK q \in D : r \in Blockers(q)
      BY <1>1
    <2>2. PICK key \in Wanted(q) : Key("contract", call[r].contract) \in Conflicting(key)
      BY <1>3, <2>1 DEF Blockers
    <2>3. key[1] = "contract"
      BY <2>2 DEF Conflicting, Key
    <2>4. key[1] # "contract"
      BY <1>2, <2>2 DEF Wanted, At, Key
    <2>5. QED
      BY <2>3, <2>4
  <1>4. \A r \in D : /\ call[r].op = "ship" /\ ShipOK(r)
                     /\ At(r, "allocations") \/ At(r, "lot")
                     /\ Key("contract", call[r].contract) \in holds[r]
    <2>1. \A r \in D : At(r, "allocations") /\ ShipOK(r)
                            => Key("contract", call[r].contract) \in holds[r]
      BY Selecting
    <2>2. QED
      BY <1>1, <1>3, <2>1, HoldsAndWaits
  <1>5. ASSUME NEW r \in D, NEW q \in D, r # q, call[r].contract = call[q].contract
        PROVE  FALSE
    <2>1. Key("contract", call[r].contract) \in holds[r] \cap holds[q]
      BY <1>4, <1>5
    <2>2. QED
      BY <1>5, <2>1 DEF TxInv, Requests, Exclusive, Key
  <1>6. ASSUME NEW r \in D, At(r, "allocations")
        PROVE  \E q \in D \cap Blockers(r) : NamesForeign(r) \/ NamesForeign(q)
    <2>1. PICK q \in D \cap Blockers(r) : TRUE
      BY DEF Cycle
    <2>2. PICK a \in call[r].ids \cap DOMAIN allocs : Wanted(r) = {Key("alloc", a)}
      BY <1>4, <1>6, Selecting
    <2>3. Key("alloc", a) \in holds[q]
      BY <2>1, <2>2 DEF Blockers, Conflicting, Key
    <2>4. a \in call[q].ids
      BY <1>4, <2>1, <2>3, HoldsNamed
    <2>5. call[r].contract # call[q].contract
      BY <1>5, <2>1 DEF Blockers
    <2>6. QED
      BY <2>1, <2>2, <2>4, <2>5, MeetOnForeign
  <1>7. QED
    BY <1>4, <1>5, <1>6 DEF At

\* Only shipments of different contracts deadlock, over their lots or over an
\* allocation that one of them must not have, for every number of requests: a wait
\* cycle never goes through a contract or a shipment number, and never through an
\* allocation if every shipment names its own contract's only (the lock order of
\* allocateLot and createShipment, whose SELECT locks its allocations in any order).
THEOREM TxOnlyShipmentsDeadlock == WellFormed /\ Spec => []OnlyShipmentsDeadlock
  <1>1. TxInv => OnlyShipmentsDeadlock
    BY DeadlockedShipments DEF OnlyShipmentsDeadlock
  <1>2. QED
    BY <1>1, TxInvHolds, PTL
=============================================================================
