------------------------------- MODULE Catalog ------------------------------
(***************************************************************************)
(* Master data and procurement of one organization: calls that create,     *)
(* change, delete and list reference rows, import them from files, seed    *)
(* them when a process starts or an organization is created, and calls     *)
(* that build lots, agreements and contracts on them.                      *)
(*                                                                         *)
(* A call that is one statement is one action.  Imports, seeding and the   *)
(* intake calls read first and write later, on what they read; nothing     *)
(* locks the rows in between but the foreign keys of what is inserted.     *)
(* Each call of a behaviour runs once and may fail before it commits.      *)
(***************************************************************************)
EXTENDS CatalogData

CONSTANTS
    Lot, Agreement, Contract,
    NoGrade,            \* the NULL of contracts.grade_id
    Lag,                \* how many changes may lie between a row's time and its insert
    Calls,              \* the calls a request may make
    Tables              \* the tables a behaviour may start from

VARIABLES
    rows,       \* suppliers, buyers, warehouses, grades, bag_types
    lots, auctions, deliveries,     \* auction_procurements and direct_deliveries by lot
    agreements, \* direct_agreements: their suppliers
    contracts,
    clock,      \* how many statements have changed the rows
    req,        \* the calls: what they do, where they are, what they have read
    past        \* history: the rows that were changed or deleted, as they were

vars == <<rows, lots, auctions, deliveries, agreements, contracts, clock, req, past>>
intake == <<lots, auctions, deliveries, agreements, contracts>>

LotRow == [source : {"auction", "direct"}, supplier : Id, grade : Id, warehouse : Id, bag_type : Id]
ContractRow == [buyer : Id, grade : Id \cup {NoGrade}]

EntityCall ==
    [op : {"create"}, entity : Entity, input : Input]
    \cup [op : {"update"}, id : Id, input : Input]
    \cup [op : {"delete"}, id : Id]
    \cup [op : {"import"}, entity : Entity, file : Seq(Line)]
    \cup [op : {"list"}, entity : Entity]
    \cup [op : {"seed"}]
IntakeCall ==
    [op : {"auction"}, lot : Lot, agent : Id, grade : Id, warehouse : Id, bag_type : Id]
    \cup [op : {"agreement"}, agreement : Agreement, supplier : Id]
    \cup [op : {"delivery"}, lot : Lot, agreement : Agreement, grade : Id, warehouse : Id, bag_type : Id]
    \cup [op : {"contract"}, contract : Contract, buyer : Id, grade : Id \cup {NoGrade}]

\* A call: where it is, the rows it queued and the ids it saw, and of a client
\* that pages through a list the total it was told, the pages it got, and the
\* clock when it began.
Work == [call : EntityCall \cup IntakeCall,
         at : {"start", "read", "bag_types", "seeded", "grades", "checked",
               "counted", "paged", "done", "failed"},
         queue : SUBSET Item, saw : SUBSET Id,
         total : Nat, pages : Seq(SUBSET Id), began : Nat]

IsTable(table, keys, row) == DOMAIN table \subseteq keys /\ table \in [DOMAIN table -> row]

TypeOK ==
    /\ IsTable(rows, Id, Row)
    /\ IsTable(lots, Lot, LotRow)
    /\ IsTable(auctions, Lot, Id)
    /\ IsTable(deliveries, Lot, Agreement)
    /\ IsTable(agreements, Agreement, Id)
    /\ IsTable(contracts, Contract, ContractRow)
    /\ clock \in Nat
    /\ req \in [Req -> Work]
    /\ past \subseteq [id : Id, row : Row]

ASSUME CallsAssumption == Nobody \notin Req /\ Calls \subseteq EntityCall \cup IntakeCall
ASSUME LagAssumption == Lag \in Nat

\* What is there at the beginning came from other calls and is in order; its
\* times are numbered, equal ones alike.
ASSUME TablesAssumption ==
    \A t \in Tables :
        /\ IsTable(t.rows, Id, Row) /\ IsFiniteSet(DOMAIN t.rows)
        /\ \A i \in DOMAIN t.rows : i.by = Nobody /\ t.rows[i].created <= Cardinality(DOMAIN t.rows)
        /\ IsTable(t.agreements, Agreement, Id)
        /\ \A a \in DOMAIN t.agreements :
              /\ t.agreements[a] \in DOMAIN t.rows
              /\ t.agreements[a].entity = "supplier"
              /\ t.rows[t.agreements[a]].type # "auction_agent"

Empty == [k \in {} |-> k]
Arrived(call) ==
    [call |-> call, at |-> "start", queue |-> {}, saw |-> {},
     total |-> 0, pages |-> <<>>, began |-> 0]

\* The tables of Tables hold what calls before have put there.
Init ==
    /\ \E t \in Tables : rows = t.rows /\ agreements = t.agreements
    /\ lots = Empty /\ auctions = Empty /\ deliveries = Empty /\ contracts = Empty
    /\ clock = Cardinality(DOMAIN rows)
    /\ \E calls \in [Req -> Calls] : req = [r \in Req |-> Arrived(calls[r])]
    /\ past = {}

------------------------------------------------------------------------------

With(table, key, row) ==
    [k \in DOMAIN table \cup {key} |-> IF k = key THEN row ELSE table[k]]

At(r, op, at) == req[r].call.op = op /\ req[r].at = at
Goes(r, at) == req' = [req EXCEPT ![r].at = at]

IdsOf(entity) == {i \in DOMAIN rows : i.entity = entity}
RowsOf(entity) == {rows[i] : i \in IdsOf(entity)}
KeysOf(entity) == {row.key : row \in RowsOf(entity)}

\* ensureReference, and the foreign key when the row is inserted.
Exists(id, entity) == id \in DOMAIN rows /\ id.entity = entity

\* created_at is the start of the transaction, to the millisecond: it may be the
\* time of rows that are there, or lie before what was committed meanwhile.
Moments == {t \in 0..clock + 1 : t + Lag >= clock + 1}

\* One transaction inserts a set of rows into a table.
NewIds(r, entity, items) == {[by |-> r, entity |-> entity, line |-> c.line] : c \in items}
InsertRows(r, entity, items) ==
    /\ \A c \in items : Fits(c.input)
    /\ \E time \in Moments :
          rows' = [i \in DOMAIN rows \cup NewIds(r, entity, items) |->
                    IF i \in DOMAIN rows THEN rows[i]
                    ELSE RowOf((CHOOSE c \in items : c.line = i.line).input, time)]
    /\ clock' = clock + 1

\* The foreign keys that restrict a delete; contracts.grade_id is not among
\* them, it becomes NULL.  The mutated form leaves out the agreements.
InUseByLots(id) ==
    \/ \E l \in DOMAIN lots : id \in {lots[l].supplier, lots[l].grade, lots[l].warehouse, lots[l].bag_type}
    \/ \E c \in DOMAIN contracts : contracts[c].buyer = id
InUse(id) ==
    \/ \E l \in DOMAIN lots : id \in {lots[l].supplier, lots[l].grade, lots[l].warehouse, lots[l].bag_type}
    \/ \E l \in DOMAIN auctions : auctions[l] = id
    \/ \E a \in DOMAIN agreements : agreements[a] = id
    \/ \E c \in DOMAIN contracts : contracts[c].buyer = id
WithoutGrade(id) ==
    [c \in DOMAIN contracts |->
        IF contracts[c].grade = id THEN [contracts[c] EXCEPT !.grade = NoGrade] ELSE contracts[c]]

------------------------------------------------------------------------------
\* One entity: create, update, delete and list

Create(r, entity) ==
    /\ At(r, "create", "start")
    /\ req[r].call.entity = entity
    /\ InsertRows(r, entity, {ItemOf(1, req[r].call.input)})
    /\ Goes(r, "done")
    /\ UNCHANGED <<intake, past>>

Changes(id) ==
    /\ past' = past \cup {[id |-> id, row |-> rows[id]]}
    /\ clock' = clock + 1

Update(r, entity) ==
    LET id == req[r].call.id
        input == req[r].call.input
    IN  /\ At(r, "update", "start")
        /\ Exists(id, entity)
        /\ Fits(input)
        /\ rows' = [rows EXCEPT ![id] = RowOf(input, rows[id].created)]
        /\ Changes(id)
        /\ Goes(r, "done")
        /\ UNCHANGED intake

Delete(r, entity) ==
    LET id == req[r].call.id
    IN  /\ At(r, "delete", "start")
        /\ Exists(id, entity)
        /\ ~InUse(id)
        /\ rows' = [i \in DOMAIN rows \ {id} |-> rows[i]]
        /\ contracts' = WithoutGrade(id)
        /\ Changes(id)
        /\ Goes(r, "done")
        /\ UNCHANGED <<lots, auctions, deliveries, agreements>>

\* A list request counts the rows in one transaction ...
Count(r, entity) ==
    /\ At(r, "list", "start") \/ At(r, "list", "paged")
    /\ req[r].call.entity = entity
    /\ req' = [req EXCEPT ![r].at = "counted",
                          ![r].total = Cardinality(IdsOf(entity)),
                          ![r].saw = IF req[r].at = "start" THEN IdsOf(entity) ELSE @,
                          ![r].began = IF req[r].at = "start" THEN clock ELSE @]
    /\ UNCHANGED <<rows, intake, clock, past>>

\* ... and reads the page in another; the client goes on while there is a next.
ReadPage(r, entity) ==
    /\ At(r, "list", "counted")
    /\ req[r].call.entity = entity
    /\ LET page == Len(req[r].pages) + 1
       IN  \E answer \in Pages(rows, IdsOf(entity), page) :
              req' = [req EXCEPT ![r].at = IF HasNext(page, req[r].total) THEN "paged" ELSE "done",
                                 ![r].pages = Append(@, answer)]
    /\ UNCHANGED <<rows, intake, clock, past>>

EntityCalls(r, entity) ==
    \/ Create(r, entity) \/ Update(r, entity) \/ Delete(r, entity)
    \/ Count(r, entity) \/ ReadPage(r, entity)

SupplierCalls(r) == EntityCalls(r, "supplier")
BuyerCalls(r) == EntityCalls(r, "buyer")
WarehouseCalls(r) == EntityCalls(r, "warehouse")
GradeCalls(r) == EntityCalls(r, "grade")
BagTypeCalls(r) == EntityCalls(r, "bag_type")

------------------------------------------------------------------------------
\* Import and seeding: what is missing is found in one step, inserted in another

\* The call remembers the rows it saw and what it will insert.
Queues(r, at, saw, queue) ==
    /\ req' = [req EXCEPT ![r].at = at, ![r].saw = @ \cup saw, ![r].queue = queue]
    /\ UNCHANGED <<rows, intake, clock, past>>
Inserts(r, entity, at) ==
    /\ InsertRows(r, entity, req[r].queue)
    /\ Goes(r, at)
    /\ UNCHANGED <<intake, past>>

ReadKeys(r) ==
    LET entity == req[r].call.entity
        file == req[r].call.file
    IN  /\ At(r, "import", "start")
        /\ file # <<>> /\ Len(file) <= MaxImportRows
        /\ Queues(r, "read", IdsOf(entity), Queued(file, KeysOf(entity)))
InsertQueued(r) == At(r, "import", "read") /\ Inserts(r, req[r].call.entity, "done")

ReadBagTypes(r) ==
    /\ At(r, "seed", "start")
    /\ Queues(r, "bag_types", IdsOf("bag_type"), MissingBagTypes(RowsOf("bag_type")))
InsertBagTypes(r) == At(r, "seed", "bag_types") /\ Inserts(r, "bag_type", "seeded")
ReadGrades(r) ==
    /\ At(r, "seed", "seeded")
    /\ Queues(r, "grades", IdsOf("grade"), MissingGrades(RowsOf("grade")))
InsertGrades(r) == At(r, "seed", "grades") /\ Inserts(r, "grade", "done")

------------------------------------------------------------------------------
\* Procurement and contracts: the references are checked, then the rows inserted

Checks(r, op) ==
    /\ At(r, op, "start")
    /\ Goes(r, "checked")
    /\ UNCHANGED <<rows, intake, clock, past>>
IntakeExists(call) ==
    Exists(call.grade, "grade") /\ Exists(call.warehouse, "warehouse") /\ Exists(call.bag_type, "bag_type")

\* The rule of each channel for its supplier, and mutated forms that take any.
AnyAgent(id) == Exists(id, "supplier")
IsAgent(id) == Exists(id, "supplier") /\ rows[id].type = "auction_agent"
IsDirectSupplier(id) == Exists(id, "supplier") /\ rows[id].type # "auction_agent"

CheckAuction(r) ==
    LET call == req[r].call
    IN  Checks(r, "auction") /\ IsAgent(call.agent) /\ IntakeExists(call)

LotOf(source, supplier, call) ==
    [source |-> source, supplier |-> supplier, grade |-> call.grade,
     warehouse |-> call.warehouse, bag_type |-> call.bag_type]

InsertAuctionLot(r) ==
    LET call == req[r].call
    IN  /\ At(r, "auction", "checked")
        /\ call.lot \notin DOMAIN lots
        /\ Exists(call.agent, "supplier") /\ IntakeExists(call)
        /\ lots' = With(lots, call.lot, LotOf("auction", call.agent, call))
        /\ auctions' = With(auctions, call.lot, call.agent)
        /\ Goes(r, "done")
        /\ UNCHANGED <<rows, deliveries, agreements, contracts, clock, past>>

CheckAgreement(r) == Checks(r, "agreement") /\ IsDirectSupplier(req[r].call.supplier)
InsertAgreement(r) ==
    LET call == req[r].call
    IN  /\ At(r, "agreement", "checked")
        /\ call.agreement \notin DOMAIN agreements
        /\ Exists(call.supplier, "supplier")
        /\ agreements' = With(agreements, call.agreement, call.supplier)
        /\ Goes(r, "done")
        /\ UNCHANGED <<rows, lots, auctions, deliveries, contracts, clock, past>>

CheckDelivery(r) ==
    LET call == req[r].call
    IN  Checks(r, "delivery") /\ call.agreement \in DOMAIN agreements /\ IntakeExists(call)

\* The supplier of a delivered lot, and a mutated form that takes the channel's
\* first supplier instead of the agreement's.
FirstSupplier(call) == CHOOSE i \in IdsOf("supplier") : TRUE
SupplierOf(call) == agreements[call.agreement]

InsertDeliveredLot(r) ==
    LET call == req[r].call
        supplier == SupplierOf(call)
    IN  /\ At(r, "delivery", "checked")
        /\ call.lot \notin DOMAIN lots
        /\ Exists(supplier, "supplier") /\ IntakeExists(call)
        /\ lots' = With(lots, call.lot, LotOf("direct", supplier, call))
        /\ deliveries' = With(deliveries, call.lot, call.agreement)
        /\ Goes(r, "done")
        /\ UNCHANGED <<rows, auctions, agreements, contracts, clock, past>>

ContractExists(call) ==
    Exists(call.buyer, "buyer") /\ (call.grade = NoGrade \/ Exists(call.grade, "grade"))
CheckContract(r) == Checks(r, "contract") /\ ContractExists(req[r].call)
InsertContract(r) ==
    LET call == req[r].call
    IN  /\ At(r, "contract", "checked")
        /\ call.contract \notin DOMAIN contracts
        /\ ContractExists(call)
        /\ contracts' = With(contracts, call.contract, [buyer |-> call.buyer, grade |-> call.grade])
        /\ Goes(r, "done")
        /\ UNCHANGED <<rows, lots, auctions, deliveries, agreements, clock, past>>

\* A call is refused, a statement fails, or the process ends: the transaction
\* under way is rolled back, those before it stay.
Fail(r) ==
    /\ req[r].at \notin {"done", "failed"}
    /\ Goes(r, "failed")
    /\ UNCHANGED <<rows, intake, clock, past>>

Next == \E r \in Req :
    \/ SupplierCalls(r) \/ BuyerCalls(r) \/ WarehouseCalls(r) \/ GradeCalls(r) \/ BagTypeCalls(r)
    \/ ReadKeys(r) \/ InsertQueued(r)
    \/ ReadBagTypes(r) \/ InsertBagTypes(r) \/ ReadGrades(r) \/ InsertGrades(r)
    \/ CheckAuction(r) \/ InsertAuctionLot(r)
    \/ CheckAgreement(r) \/ InsertAgreement(r)
    \/ CheckDelivery(r) \/ InsertDeliveredLot(r)
    \/ CheckContract(r) \/ InsertContract(r)
    \/ Fail(r)

Spec == Init /\ [][Next]_vars

------------------------------------------------------------------------------
\* Properties

\* What a row was before it was changed or deleted, and all it has been.
Was(id) == {p.row : p \in {q \in past : q.id = id}}
Ever(id) == Was(id) \cup {rows[i] : i \in DOMAIN rows \cap {id}}

\* Whatever a lot, an auction, an agreement or a contract refers to exists and
\* is a row of the right table, however a delete came between the check of the
\* references (ensureReference) and the insert.
ReferencesHold ==
    /\ \A l \in DOMAIN lots :
          /\ Exists(lots[l].supplier, "supplier")
          /\ IntakeExists(lots[l])
    /\ \A l \in DOMAIN auctions : Exists(auctions[l], "supplier")
    /\ \A l \in DOMAIN deliveries : deliveries[l] \in DOMAIN agreements
    /\ \A a \in DOMAIN agreements : Exists(agreements[a], "supplier")
    /\ \A c \in DOMAIN contracts : ContractExists(contracts[c])

\* Every lot has the procurement record of its source and no other, and that
\* record leads to the lot's supplier: what getLotTraceability answers agrees
\* with the lot.
SourceKnown ==
    \A l \in Lot :
        /\ l \in DOMAIN lots <=> l \in DOMAIN auctions \cup DOMAIN deliveries
        /\ l \in DOMAIN auctions =>
              lots[l].source = "auction" /\ auctions[l] = lots[l].supplier
        /\ l \in DOMAIN deliveries =>
              lots[l].source = "direct" /\ agreements[deliveries[l]] = lots[l].supplier

\* A lot bought at auction has an auction agent as its supplier, and no lot or
\* agreement of the direct channel has one, unless somebody changed that
\* supplier's type: no order of intake calls alone mixes the channels.
ChannelsApart ==
    /\ \A l \in DOMAIN lots : lots[l].source = "auction" =>
          \E row \in Ever(lots[l].supplier) : row.type = "auction_agent"
    /\ \A a \in DOMAIN agreements :
          \E row \in Ever(agreements[a]) : row.type # "auction_agent"

\* No import and no seeding adds a row whose natural key stood before it in
\* the same file or in a row it had read: two unchanged rows of one key are
\* there only because one came after the other's call had read the keys.
Job(r) == r \in Req /\ req[r].call.op \in {"import", "seed"}
Twins(i, j) ==
    /\ i # j /\ i.entity = j.entity
    /\ rows[i].key = rows[j].key
    /\ Was(i) = {} /\ Was(j) = {}
DuplicatesOnlyByRace ==
    \A i, j \in DOMAIN rows :
        Twins(i, j) /\ Job(j.by) => i.by # j.by /\ i \notin req[j.by].saw

\* Once a seeding has passed a table, each of its standard rows is there, or
\* somebody has changed or deleted it since it was: a failed or a second
\* seeding leaves nothing out for good.
Known(entity) == RowsOf(entity) \cup {p.row : p \in {q \in past : q.id.entity = entity}}
StandardsPresent ==
    \A r \in Req : req[r].call.op = "seed" =>
        /\ req[r].at \in {"seeded", "grades", "done"} =>
              \A n \in DOMAIN StandardBagTypes :
                  \E row \in Known("bag_type") : SameBagType(row, StandardBagTypes[n])
        /\ req[r].at = "done" =>
              \A n \in DOMAIN StandardGrades :
                  \E row \in Known("grade") : row.key = StandardGrades[n]

\* A client that follows has_next through a list nobody changes meanwhile gets,
\* with the last page, as many rows as the list has, and each row exactly once
\* that shares its created_at with no other: nothing orders those that do (the
\* ORDER BY of the lists has one column).
Received(pages) == UNION {{<<n, i>> : i \in pages[n]} : n \in DOMAIN pages}
PagesWith(i, pages) == {n \in DOMAIN pages : i \in pages[n]}
Alone(i, listed) == \A j \in listed : rows[j].created = rows[i].created => j = i
EndsWalk(r) ==
    /\ At(r, "list", "counted") /\ req'[r].at = "done"
    /\ req[r].began = clock
WholeWalk(saw, pages) ==
    /\ Cardinality(Received(pages)) = Cardinality(saw)
    /\ \A i \in saw : Alone(i, saw) => Cardinality(PagesWith(i, pages)) = 1
WalkComplete ==
    [][\A r \in Req : EndsWalk(r) => WholeWalk(req'[r].saw, req'[r].pages)]_vars

=============================================================================
