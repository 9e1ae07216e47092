---------------------------- MODULE CatalogProofs ----------------------------
(***************************************************************************)
(* Proofs about the master data and the intake of an organization, for any *)
(* calls on any tables that are in order, however many run at a time.      *)
(***************************************************************************)
EXTENDS Catalog, FiniteSetTheorems, NaturalsInduction, TLAPS

Places == {"start", "read", "bag_types", "seeded", "grades", "checked",
           "counted", "paged", "done", "failed"}

------------------------------------------------------------------------------
\* Types

\* A call has the fields of its operation.
LEMMA CallFields ==
    ASSUME NEW call \in EntityCall \cup IntakeCall
    PROVE  /\ call.op = "create" => call.entity \in Entity /\ call.input \in Input
           /\ call.op = "update" => call.id \in Id /\ call.input \in Input
           /\ call.op = "delete" => call.id \in Id
           /\ call.op = "import" => call.entity \in Entity /\ call.file \in Seq(Line)
           /\ call.op = "list" => call.entity \in Entity
           /\ call.op = "auction" =>
                 call.lot \in Lot /\ call.agent \in Id
                 /\ call.grade \in Id /\ call.warehouse \in Id /\ call.bag_type \in Id
           /\ call.op = "agreement" => call.agreement \in Agreement /\ call.supplier \in Id
           /\ call.op = "delivery" =>
                 call.lot \in Lot /\ call.agreement \in Agreement
                 /\ call.grade \in Id /\ call.warehouse \in Id /\ call.bag_type \in Id
           /\ call.op = "contract" =>
                 call.contract \in Contract /\ call.buyer \in Id /\ call.grade \in Id \cup {NoGrade}
  <1>1. CASE call \in EntityCall
    BY <1>1 DEF EntityCall
  <1>2. CASE call \in IntakeCall
    BY <1>2 DEF IntakeCall
  <1>3. QED
    BY <1>1, <1>2

\* The fields of a call's record.
LEMMA WorkFields ==
    ASSUME TypeOK, NEW r \in Req
    PROVE  /\ req[r].call \in EntityCall \cup IntakeCall
           /\ req[r].at \in Places
           /\ req[r].queue \subseteq Item /\ req[r].saw \subseteq Id
           /\ req[r].total \in Nat /\ req[r].pages \in Seq(SUBSET Id)
           /\ req[r].began \in Nat
  BY DEF TypeOK, Work, Places

\* A call that goes to another place stays well typed.
LEMMA GoesTypes ==
    ASSUME TypeOK, NEW r \in Req, NEW at \in Places, Goes(r, at)
    PROVE  req' \in [Req -> Work]
  <1>1. [req[r] EXCEPT !.at = at] \in Work
    BY WorkFields DEF TypeOK, Work, Places
  <1>2. QED
    BY <1>1 DEF TypeOK, Goes

\* A call that has read is well typed if what it queues and saw is.
LEMMA QueuesTypes ==
    ASSUME TypeOK, NEW r \in Req, NEW at \in Places, NEW saw \in SUBSET Id, NEW queue \in SUBSET Item,
           Queues(r, at, saw, queue)
    PROVE  TypeOK'
  <1>1. [req[r] EXCEPT !.at = at, !.saw = @ \cup saw, !.queue = queue] \in Work
    BY WorkFields DEF TypeOK, Work, Places
  <1>2. req' \in [Req -> Work]
    BY <1>1 DEF TypeOK, Queues
  <1>3. QED
    BY <1>2 DEF TypeOK, Queues, intake

\* Inserting a row into a table keeps it a table.
LEMMA WithTypes ==
    ASSUME NEW table, NEW keys, NEW rowType, IsTable(table, keys, rowType),
           NEW key \in keys, NEW row \in rowType
    PROVE  IsTable(With(table, key, row), keys, rowType)
  BY DEF IsTable, With

\* What is inserted is rows with ids of the call ...
LEMMA InsertedRow ==
    ASSUME TypeOK, NEW r \in Req, NEW entity \in Entity, NEW items \in SUBSET Item,
           InsertRows(r, entity, items), NEW i \in DOMAIN rows' \ DOMAIN rows
    PROVE  /\ i.by = r /\ i.entity = entity
           /\ rows'[i] \in Row
           /\ \E c \in items, time \in Moments : c.line = i.line /\ rows'[i] = RowOf(c.input, time)
  <1>1. DOMAIN rows' = DOMAIN rows \cup NewIds(r, entity, items)
    BY DEF InsertRows
  <1>2. PICK d \in items : i = [by |-> r, entity |-> entity, line |-> d.line]
    BY <1>1 DEF NewIds
  <1> DEFINE c == CHOOSE x \in items : x.line = i.line
  <1>3. c \in items /\ c.line = i.line
    BY <1>2
  <1>4. PICK time \in Moments : rows'[i] = RowOf(c.input, time)
    BY <1>1 DEF InsertRows
  <1>5. c.input \in Input /\ c.input.weight <= MaxWeight
    BY <1>3 DEF InsertRows, Fits, Item
  <1>6. RowOf(c.input, time) \in Row
    BY <1>5, SizesAssumption DEF RowOf, Row, Input, Moments, TypeOK
  <1>7. QED
    BY <1>2, <1>3, <1>4, <1>6

\* ... and the rows there were stay.
LEMMA InsertedRows ==
    ASSUME TypeOK, NEW r \in Req, NEW entity \in Entity, NEW items \in SUBSET Item,
           InsertRows(r, entity, items)
    PROVE  /\ IsTable(rows', Id, Row)
           /\ clock' = clock + 1 /\ clock' \in Nat
           /\ DOMAIN rows' = DOMAIN rows \cup NewIds(r, entity, items)
           /\ \A i \in DOMAIN rows : rows'[i] = rows[i]
  <1>1. clock' = clock + 1 /\ clock' \in Nat
    BY DEF InsertRows, TypeOK
  <1>2. DOMAIN rows' = DOMAIN rows \cup NewIds(r, entity, items) /\ \A i \in DOMAIN rows : rows'[i] = rows[i]
    BY DEF InsertRows
  <1>3. NewIds(r, entity, items) \subseteq Id
    BY DEF NewIds, Id, Item
  <1>4. IsTable(rows', Id, Row)
    <2>1. \A i \in DOMAIN rows' : rows'[i] \in Row
      BY <1>2, InsertedRow DEF TypeOK, IsTable
    <2>2. rows' = [i \in DOMAIN rows' |-> rows'[i]]
      BY DEF InsertRows
    <2>3. QED
      BY <1>2, <1>3, <2>1, <2>2 DEF TypeOK, IsTable
  <1>5. QED
    BY <1>1, <1>2, <1>4

LEMMA FiniteImage ==
    ASSUME NEW S, IsFiniteSet(S), NEW f, f = [x \in S |-> f[x]]
    PROVE  IsFiniteSet({f[x] : x \in S})
  <1> DEFINE T == {f[x] : x \in S}
  <1>1. f \in Surjection(S, T)
    BY DEF Surjection
  <1>2. QED
    BY <1>1, FS_Surjection

LEMMA ElementTypes ==
    ASSUME NEW S, NEW s \in Seq(S)
    PROVE  \A n \in DOMAIN s : n \in Nat /\ s[n] \in S
  OBVIOUS

\* What an import queues is rows to insert, and no more than the file has lines.
LEMMA QueuedTypes ==
    ASSUME NEW file \in Seq(Line), NEW known
    PROVE  Queued(file, known) \in SUBSET Item /\ IsFiniteSet(Queued(file, known))
  <1>1. \A n \in DOMAIN file : n \in Nat /\ file[n] \in Line
    BY ElementTypes
  <1>2. \A n \in DOMAIN file : n \in Nat /\ file[n].input \in Input
    BY <1>1 DEF Line
  <1>3. Queued(file, known) \in SUBSET Item
    BY <1>2 DEF Queued, ItemOf, Item
  <1> DEFINE lines == {m \in DOMAIN file :
                          /\ file[m].valid
                          /\ file[m].input.key \notin known
                          /\ \A k \in DOMAIN file : k < m /\ file[k].valid
                                => file[k].input.key # file[m].input.key}
  <1>4. IsFiniteSet(DOMAIN file)
    BY FS_Interval
  <1>5. IsFiniteSet(lines)
    BY <1>4, FS_Subset
  <1> DEFINE items == [n \in lines |-> ItemOf(n, file[n].input)]
  <1>6. IsFiniteSet({items[n] : n \in lines})
    <2> HIDE DEF lines
    <2>1. items = [n \in lines |-> items[n]]
      OBVIOUS
    <2> HIDE DEF items
    <2>2. QED
      BY <1>5, <2>1, FiniteImage
  <1>7. {items[n] : n \in lines} = Queued(file, known)
    BY DEF Queued
  <1>8. QED
    BY <1>3, <1>6, <1>7


\* What the seeds queue is rows to insert, and no more than there are standards.
LEMMA MissingTypes ==
    ASSUME NEW table
    PROVE  /\ MissingBagTypes(table) \in SUBSET Item /\ IsFiniteSet(MissingBagTypes(table))
           /\ MissingGrades(table) \in SUBSET Item /\ IsFiniteSet(MissingGrades(table))
  <1>1. \A n \in DOMAIN StandardBagTypes :
            n \in Nat /\ StandardBagTypes[n] \in [key : Key, weight : 1..MaxWeight]
    BY SeedsAssumption, ElementTypes
  <1>2. \A n \in DOMAIN StandardBagTypes :
            Weighing(StandardBagTypes[n].key, StandardBagTypes[n].weight) \in Input
    BY <1>1, SizesAssumption DEF Weighing, Input
  <1>3. MissingBagTypes(table) \in SUBSET Item
    BY <1>1, <1>2 DEF MissingBagTypes, ItemOf, Item
  <1>4. \A n \in DOMAIN StandardGrades : n \in Nat /\ StandardGrades[n] \in Key
    BY SeedsAssumption, ElementTypes
  <1>5. \A n \in DOMAIN StandardGrades : Named(StandardGrades[n]) \in Input
    BY <1>4 DEF Named, Input
  <1>6. MissingGrades(table) \in SUBSET Item
    BY <1>4, <1>5 DEF MissingGrades, ItemOf, Item
  <1>7. IsFiniteSet(MissingBagTypes(table))
    <2> DEFINE lines == {m \in DOMAIN StandardBagTypes :
                            ~\E row \in table : SameBagType(row, StandardBagTypes[m])}
               items == [n \in lines |->
                            ItemOf(n, Weighing(StandardBagTypes[n].key, StandardBagTypes[n].weight))]
    <2>1. IsFiniteSet(DOMAIN StandardBagTypes)
      BY SeedsAssumption, FS_Interval
    <2>2. IsFiniteSet(lines)
      BY <2>1, FS_Subset
    <2>3. {items[n] : n \in lines} = MissingBagTypes(table)
      BY DEF MissingBagTypes
    <2>4. items = [n \in lines |-> items[n]]
      OBVIOUS
    <2> HIDE DEF items, lines
    <2>5. QED
      BY <2>2, <2>3, <2>4, FiniteImage
  <1>8. IsFiniteSet(MissingGrades(table))
    <2> DEFINE lines == {m \in DOMAIN StandardGrades : ~\E row \in table : row.key = StandardGrades[m]}
               items == [n \in lines |-> ItemOf(n, Named(StandardGrades[n]))]
    <2>1. IsFiniteSet(DOMAIN StandardGrades)
      BY SeedsAssumption, FS_Interval
    <2>2. IsFiniteSet(lines)
      BY <2>1, FS_Subset
    <2>3. {items[n] : n \in lines} = MissingGrades(table)
      BY DEF MissingGrades
    <2>4. items = [n \in lines |-> items[n]]
      OBVIOUS
    <2> HIDE DEF items, lines
    <2>5. QED
      BY <2>2, <2>3, <2>4, FiniteImage
  <1>9. QED
    BY <1>3, <1>6, <1>7, <1>8

------------------------------------------------------------------------------
\* A step is one call's

Finite == IsFiniteSet(DOMAIN rows) /\ \A r \in Req : IsFiniteSet(req[r].queue)

EntityStep(r) == \E entity \in Entity : EntityCalls(r, entity)
JobStep(r) ==
    \/ ReadKeys(r) \/ InsertQueued(r)
    \/ ReadBagTypes(r) \/ InsertBagTypes(r) \/ ReadGrades(r) \/ InsertGrades(r)
IntakeStep(r) ==
    \/ CheckAuction(r) \/ InsertAuctionLot(r)
    \/ CheckAgreement(r) \/ InsertAgreement(r)
    \/ CheckDelivery(r) \/ InsertDeliveredLot(r)
    \/ CheckContract(r) \/ InsertContract(r)
Step(r) == EntityStep(r) \/ JobStep(r) \/ IntakeStep(r) \/ Fail(r)

LEMMA NextSteps == Next <=> \E r \in Req : Step(r)
  <1>1. \A r \in Req : EntityStep(r) <=>
            SupplierCalls(r) \/ BuyerCalls(r) \/ WarehouseCalls(r) \/ GradeCalls(r) \/ BagTypeCalls(r)
    BY DEF EntityStep, Entity, SupplierCalls, BuyerCalls, WarehouseCalls, GradeCalls, BagTypeCalls
  <1>2. QED
    BY <1>1, Zenon DEF Next, Step, JobStep, IntakeStep

\* An insert keeps the rows finitely many.
LEMMA InsertedFinite ==
    ASSUME NEW r \in Req, NEW entity, NEW items, InsertRows(r, entity, items),
           IsFiniteSet(DOMAIN rows), IsFiniteSet(items)
    PROVE  IsFiniteSet(DOMAIN rows')
  <1> DEFINE ids == [c \in items |-> [by |-> r, entity |-> entity, line |-> c.line]]
  <1>1. ids = [c \in items |-> ids[c]] /\ {ids[c] : c \in items} = NewIds(r, entity, items)
    BY DEF NewIds
  <1> HIDE DEF ids
  <1>2. IsFiniteSet(NewIds(r, entity, items))
    BY <1>1, FiniteImage
  <1>3. DOMAIN rows' = DOMAIN rows \cup NewIds(r, entity, items)
    BY DEF InsertRows
  <1>4. QED
    BY <1>2, <1>3, FS_Union

LEMMA EntityStepTypes ==
    ASSUME TypeOK, Finite, NEW r \in Req, EntityStep(r)
    PROVE  TypeOK' /\ Finite'
  <1>1. PICK entity \in Entity : EntityCalls(r, entity)
    BY DEF EntityStep
  <1>2. CASE Create(r, entity)
    <2>1. {ItemOf(1, req[r].call.input)} \in SUBSET Item
      BY <1>2, WorkFields, CallFields DEF Create, At, ItemOf, Item
    <2>2. IsTable(rows', Id, Row) /\ clock' \in Nat
      BY <1>2, <2>1, InsertedRows DEF Create
    <2>3. req' \in [Req -> Work]
      BY <1>2, GoesTypes DEF Create, Places
    <2>4. IsFiniteSet({ItemOf(1, req[r].call.input)})
      BY FS_Singleton
    <2>5. IsFiniteSet(DOMAIN rows')
      BY <1>2, <2>4, InsertedFinite DEF Create, Finite
    <2>6. \A q \in Req : req'[q].queue = req[q].queue
      BY <1>2 DEF Create, Goes, TypeOK
    <2>7. QED
      BY <1>2, <2>2, <2>3, <2>5, <2>6 DEF Create, TypeOK, Finite, intake
  <1>3. CASE Update(r, entity)
    <2> DEFINE id == req[r].call.id
               input == req[r].call.input
    <2>1. id \in Id /\ input \in Input
      BY <1>3, WorkFields, CallFields DEF Update, At
    <2>2. id \in DOMAIN rows /\ rows[id] \in Row
      BY <1>3 DEF Update, Exists, TypeOK, IsTable
    <2>3. RowOf(input, rows[id].created) \in Row
      BY <1>3, <2>1, <2>2, SizesAssumption DEF Update, Fits, RowOf, Row, Input
    <2>4. rows' = [rows EXCEPT ![id] = RowOf(input, rows[id].created)]
      BY <1>3 DEF Update
    <2>5. IsTable(rows', Id, Row)
      BY <2>2, <2>3, <2>4 DEF TypeOK, IsTable
    <2>6. past' \subseteq [id : Id, row : Row] /\ clock' \in Nat
      BY <1>3, <2>1, <2>2 DEF Update, Changes, TypeOK
    <2>7. req' \in [Req -> Work]
      BY <1>3, GoesTypes DEF Update, Places
    <2>8. DOMAIN rows' = DOMAIN rows /\ \A q \in Req : req'[q].queue = req[q].queue
      BY <1>3, <2>4 DEF Update, Goes, TypeOK
    <2>9. QED
      BY <1>3, <2>5, <2>6, <2>7, <2>8 DEF Update, TypeOK, Finite, intake
  <1>4. CASE Delete(r, entity)
    <2> DEFINE id == req[r].call.id
    <2>1. id \in Id /\ id \in DOMAIN rows /\ rows[id] \in Row
      BY <1>4 DEF Delete, Exists, TypeOK, IsTable
    <2>2. IsTable(rows', Id, Row)
      BY <1>4 DEF Delete, TypeOK, IsTable
    <2>3. IsTable(contracts', Contract, ContractRow)
      BY <1>4 DEF Delete, WithoutGrade, TypeOK, IsTable, ContractRow
    <2>4. past' \subseteq [id : Id, row : Row] /\ clock' \in Nat
      BY <1>4, <2>1 DEF Delete, Changes, TypeOK
    <2>5. req' \in [Req -> Work]
      BY <1>4, GoesTypes DEF Delete, Places
    <2>6. DOMAIN rows' = DOMAIN rows \ {id} /\ \A q \in Req : req'[q].queue = req[q].queue
      BY <1>4 DEF Delete, Goes, TypeOK
    <2>7. IsFiniteSet(DOMAIN rows')
      BY <2>6, FS_Subset DEF Finite
    <2>8. QED
      BY <1>4, <2>2, <2>3, <2>4, <2>5, <2>6, <2>7 DEF Delete, TypeOK, Finite
  <1>5. CASE Count(r, entity)
    <2> DEFINE seen == IF req[r].at = "start" THEN IdsOf(entity) ELSE req[r].saw
               began == IF req[r].at = "start" THEN clock ELSE req[r].began
               total == Cardinality(IdsOf(entity))
    <2>1. IsFiniteSet(IdsOf(entity))
      BY FS_Subset DEF IdsOf, Finite
    <2>2. total \in Nat
      BY <2>1, FS_CardinalityType
    <2>3. seen \in SUBSET Id /\ began \in Nat
      BY WorkFields DEF IdsOf, TypeOK, IsTable
    <2>4. req' = [req EXCEPT ![r] = [req[r] EXCEPT !.at = "counted", !.total = total,
                                                   !.saw = seen, !.began = began]]
      BY <1>5 DEF Count, TypeOK, Work
    <2> HIDE DEF seen, began, total
    <2>5. [req[r] EXCEPT !.at = "counted", !.total = total, !.saw = seen, !.began = began] \in Work
      BY <2>2, <2>3, WorkFields DEF TypeOK, Work
    <2>6. req' \in [Req -> Work] /\ \A q \in Req : req'[q].queue = req[q].queue
      BY <2>4, <2>5 DEF TypeOK, Work
    <2>7. QED
      BY <1>5, <2>6 DEF Count, TypeOK, Finite, intake
  <1>6. CASE ReadPage(r, entity)
    <2> DEFINE page == Len(req[r].pages) + 1
               at == IF HasNext(page, req[r].total) THEN "paged" ELSE "done"
    <2>1. PICK answer \in Pages(rows, IdsOf(entity), page) :
             req' = [req EXCEPT ![r].at = at, ![r].pages = Append(@, answer)]
      BY <1>6 DEF ReadPage
    <2>2. answer \in SUBSET Id
      BY DEF Pages, IdsOf, TypeOK, IsTable
    <2>3. Append(req[r].pages, answer) \in Seq(SUBSET Id)
      BY <2>2, WorkFields
    <2>4. at \in Places
      BY DEF Places
    <2> HIDE DEF page, at
    <2>5. [req[r] EXCEPT !.at = at, !.pages = Append(@, answer)] \in Work
      BY <2>3, <2>4, WorkFields DEF TypeOK, Work, Places
    <2>6. req' \in [Req -> Work] /\ \A q \in Req : req'[q].queue = req[q].queue
      BY <2>1, <2>5 DEF TypeOK, Work
    <2>7. QED
      BY <1>6, <2>6 DEF ReadPage, TypeOK, Finite, intake
  <1>7. QED
    BY <1>1, <1>2, <1>3, <1>4, <1>5, <1>6 DEF EntityCalls

LEMMA JobStepTypes ==
    ASSUME TypeOK, Finite, NEW r \in Req, JobStep(r)
    PROVE  TypeOK' /\ Finite'
  <1>1. ASSUME NEW at \in Places, NEW saw \in SUBSET Id, NEW queue \in SUBSET Item,
               IsFiniteSet(queue), Queues(r, at, saw, queue)
        PROVE  TypeOK' /\ Finite'
    <2>1. TypeOK'
      BY <1>1, QueuesTypes
    <2>2. \A q \in Req : req'[q].queue = IF q = r THEN queue ELSE req[q].queue
      BY <1>1 DEF Queues, TypeOK, Work
    <2>3. QED
      BY <1>1, <2>1, <2>2 DEF Queues, Finite
  <1>2. ASSUME NEW entity \in Entity, NEW at \in Places, Inserts(r, entity, at)
        PROVE  TypeOK' /\ Finite'
    <2>1. req[r].queue \in SUBSET Item
      BY WorkFields
    <2>2. IsTable(rows', Id, Row) /\ clock' \in Nat
      BY <1>2, <2>1, InsertedRows DEF Inserts
    <2>3. req' \in [Req -> Work]
      BY <1>2, GoesTypes DEF Inserts
    <2>4. IsFiniteSet(DOMAIN rows')
      BY <1>2, InsertedFinite DEF Inserts, Finite
    <2>5. \A q \in Req : req'[q].queue = req[q].queue
      BY <1>2 DEF Inserts, Goes, TypeOK
    <2>6. QED
      BY <1>2, <2>2, <2>3, <2>4, <2>5 DEF Inserts, TypeOK, Finite, intake
  <1>3. \A entity : IdsOf(entity) \in SUBSET Id
    BY DEF IdsOf, TypeOK, IsTable
  <1>4. CASE ReadKeys(r)
    <2>1. req[r].call.file \in Seq(Line)
      BY <1>4, WorkFields, CallFields DEF ReadKeys, At
    <2>2. QED
      BY <1>1, <1>3, <1>4, <2>1, QueuedTypes DEF ReadKeys, Places
  <1>5. CASE InsertQueued(r)
    <2>1. req[r].call.entity \in Entity
      BY <1>5, WorkFields, CallFields DEF InsertQueued, At
    <2>2. QED
      BY <1>2, <1>5, <2>1 DEF InsertQueued, Places
  <1>6. CASE ReadBagTypes(r)
    BY <1>1, <1>3, <1>6, MissingTypes DEF ReadBagTypes, Places
  <1>7. CASE InsertBagTypes(r)
    BY <1>2, <1>7 DEF InsertBagTypes, Places, Entity
  <1>8. CASE ReadGrades(r)
    BY <1>1, <1>3, <1>8, MissingTypes DEF ReadGrades, Places
  <1>9. CASE InsertGrades(r)
    BY <1>2, <1>9 DEF InsertGrades, Places, Entity
  <1>10. QED
    BY <1>4, <1>5, <1>6, <1>7, <1>8, <1>9 DEF JobStep

LEMMA IntakeStepTypes ==
    ASSUME TypeOK, Finite, NEW r \in Req, IntakeStep(r) \/ Fail(r)
    PROVE  TypeOK' /\ Finite'
  <1>1. ASSUME NEW at \in Places, Goes(r, at), UNCHANGED rows
        PROVE  req' \in [Req -> Work] /\ Finite'
    <2>1. req' \in [Req -> Work]
      BY <1>1, GoesTypes
    <2>2. \A q \in Req : req'[q].queue = req[q].queue
      BY <1>1 DEF Goes, TypeOK
    <2>3. QED
      BY <1>1, <2>1, <2>2 DEF Finite
  <1>2. ASSUME NEW op, Checks(r, op) PROVE TypeOK' /\ Finite'
    <2>1. req' \in [Req -> Work] /\ Finite'
      BY <1>1, <1>2 DEF Checks, Places
    <2>2. QED
      BY <1>2, <2>1 DEF Checks, TypeOK, intake
  <1>3. CASE CheckAuction(r) \/ CheckAgreement(r) \/ CheckDelivery(r) \/ CheckContract(r)
    BY <1>2, <1>3 DEF CheckAuction, CheckAgreement, CheckDelivery, CheckContract
  <1>4. CASE InsertAuctionLot(r)
    <2> DEFINE call == req[r].call
    <2>1. /\ call.lot \in Lot /\ call.agent \in Id
          /\ call.grade \in Id /\ call.warehouse \in Id /\ call.bag_type \in Id
      BY <1>4, WorkFields, CallFields DEF InsertAuctionLot, At
    <2>2. LotOf("auction", call.agent, call) \in LotRow
      BY <2>1 DEF LotOf, LotRow
    <2>3. IsTable(lots', Lot, LotRow)
      BY <1>4, <2>1, <2>2, WithTypes DEF InsertAuctionLot, TypeOK
    <2>4. IsTable(auctions', Lot, Id)
      BY <1>4, <2>1, WithTypes DEF InsertAuctionLot, TypeOK
    <2>5. req' \in [Req -> Work] /\ Finite'
      BY <1>1, <1>4 DEF InsertAuctionLot, Places
    <2>6. QED
      BY <1>4, <2>3, <2>4, <2>5 DEF InsertAuctionLot, TypeOK
  <1>5. CASE InsertAgreement(r)
    <2> DEFINE call == req[r].call
    <2>1. call.agreement \in Agreement /\ call.supplier \in Id
      BY <1>5, WorkFields, CallFields DEF InsertAgreement, At
    <2>2. IsTable(agreements', Agreement, Id)
      BY <1>5, <2>1, WithTypes DEF InsertAgreement, TypeOK
    <2>3. req' \in [Req -> Work] /\ Finite'
      BY <1>1, <1>5 DEF InsertAgreement, Places
    <2>4. QED
      BY <1>5, <2>2, <2>3 DEF InsertAgreement, TypeOK
  <1>6. CASE InsertDeliveredLot(r)
    <2> DEFINE call == req[r].call
               supplier == SupplierOf(call)
    <2>1. /\ call.lot \in Lot /\ call.agreement \in Agreement
          /\ call.grade \in Id /\ call.warehouse \in Id /\ call.bag_type \in Id
      BY <1>6, WorkFields, CallFields DEF InsertDeliveredLot, At
    <2>2. supplier \in Id
      BY <1>6 DEF InsertDeliveredLot, Exists, TypeOK, IsTable
    <2> HIDE DEF supplier
    <2>3. LotOf("direct", supplier, call) \in LotRow
      BY <2>1, <2>2 DEF LotOf, LotRow
    <2>4. IsTable(lots', Lot, LotRow)
      BY <1>6, <2>1, <2>3, WithTypes DEF InsertDeliveredLot, TypeOK, supplier
    <2>5. IsTable(deliveries', Lot, Agreement)
      BY <1>6, <2>1, WithTypes DEF InsertDeliveredLot, TypeOK
    <2>6. req' \in [Req -> Work] /\ Finite'
      BY <1>1, <1>6 DEF InsertDeliveredLot, Places
    <2>7. QED
      BY <1>6, <2>4, <2>5, <2>6 DEF InsertDeliveredLot, TypeOK
  <1>7. CASE InsertContract(r)
    <2> DEFINE call == req[r].call
    <2>1. call.contract \in Contract /\ call.buyer \in Id /\ call.grade \in Id \cup {NoGrade}
      BY <1>7, WorkFields, CallFields DEF InsertContract, At
    <2>2. [buyer |-> call.buyer, grade |-> call.grade] \in ContractRow
      BY <2>1 DEF ContractRow
    <2>3. IsTable(contracts', Contract, ContractRow)
      BY <1>7, <2>1, <2>2, WithTypes DEF InsertContract, TypeOK
    <2>4. req' \in [Req -> Work] /\ Finite'
      BY <1>1, <1>7 DEF InsertContract, Places
    <2>5. QED
      BY <1>7, <2>3, <2>4 DEF InsertContract, TypeOK
  <1>8. CASE Fail(r)
    <2>1. req' \in [Req -> Work] /\ Finite'
      BY <1>1, <1>8 DEF Fail, Places
    <2>2. QED
      BY <1>8, <2>1 DEF Fail, TypeOK, intake
  <1>9. QED
    BY <1>3, <1>4, <1>5, <1>6, <1>7, <1>8 DEF IntakeStep

LEMMA InitTypes == Init => TypeOK /\ Finite
  <1> SUFFICES ASSUME Init PROVE TypeOK /\ Finite
    OBVIOUS
  <1>1. PICK t \in Tables : rows = t.rows /\ agreements = t.agreements
    BY DEF Init
  <1>2. IsTable(rows, Id, Row) /\ IsFiniteSet(DOMAIN rows) /\ IsTable(agreements, Agreement, Id)
    BY <1>1, TablesAssumption
  <1>3. clock \in Nat
    BY <1>2, FS_CardinalityType DEF Init
  <1>4. PICK calls \in [Req -> Calls] : req = [r \in Req |-> Arrived(calls[r])]
    BY DEF Init
  <1>5. \A call \in EntityCall \cup IntakeCall : Arrived(call) \in Work
    <2>1. <<>> \in Seq(SUBSET Id)
      OBVIOUS
    <2>2. QED
      BY <2>1 DEF Arrived, Work
  <1>6. req \in [Req -> Work]
    BY <1>4, <1>5, CallsAssumption
  <1>7. \A keys, row : IsTable(Empty, keys, row)
    BY DEF Empty, IsTable
  <1>8. TypeOK
    BY <1>2, <1>3, <1>6, <1>7 DEF Init, TypeOK
  <1>9. \A r \in Req : req[r].queue = {}
    BY <1>4 DEF Arrived
  <1>10. QED
    BY <1>2, <1>8, <1>9, FS_EmptySet DEF Finite

LEMMA NextTypes == TypeOK /\ Finite /\ [Next]_vars => TypeOK' /\ Finite'
  <1> SUFFICES ASSUME TypeOK, Finite, [Next]_vars PROVE TypeOK' /\ Finite'
    OBVIOUS
  <1>1. CASE UNCHANGED vars
    BY <1>1 DEF vars, TypeOK, Finite
  <1>2. CASE Next
    <2>1. PICK r \in Req : Step(r)
      BY <1>2, NextSteps
    <2>2. QED
      BY <2>1, EntityStepTypes, JobStepTypes, IntakeStepTypes DEF Step
  <1>3. QED
    BY <1>1, <1>2

\* For any calls on any tables the rows, what refers to them and the calls are
\* well typed: a weight that its column cannot hold is never stored, and no
\* refusal or failure leaves a row in half.
THEOREM TypeCorrect == Spec => []TypeOK
  <1>1. Init => TypeOK /\ Finite
    BY InitTypes
  <1>2. TypeOK /\ Finite /\ [Next]_vars => (TypeOK /\ Finite)'
    BY NextTypes
  <1>3. QED
    BY <1>1, <1>2, PTL DEF Spec

------------------------------------------------------------------------------
\* What every step keeps

\* Rows stay as they are or are remembered as they were, those that are new
\* are the call's, calls stay what they are, and agreements stay.
Past(i) == \E p \in past : p.id = i
RowsKept(r) ==
    /\ past \subseteq past'
    /\ \A i \in DOMAIN rows :
          \/ i \in DOMAIN rows' /\ rows'[i] = rows[i]
          \/ [id |-> i, row |-> rows[i]] \in past'
    /\ \A i \in DOMAIN rows' \ DOMAIN rows : i.by = r
    /\ \A p \in past' \ past : p.id \in DOMAIN rows
CallsKept(r) ==
    /\ \A q \in Req : req'[q].call = req[q].call
    /\ \A q \in Req \ {r} : req'[q] = req[q]
AgreementsKept ==
    \A a \in DOMAIN agreements : a \in DOMAIN agreements' /\ agreements'[a] = agreements[a]

LEMMA StepKeeps ==
    ASSUME TypeOK, NEW r \in Req, Step(r)
    PROVE  RowsKept(r) /\ CallsKept(r) /\ AgreementsKept
  <1>1. ASSUME NEW at, Goes(r, at) PROVE CallsKept(r)
    BY <1>1 DEF Goes, CallsKept, TypeOK
  <1>2. ASSUME UNCHANGED <<rows, past>> PROVE RowsKept(r)
    BY <1>2 DEF RowsKept
  <1>3. ASSUME NEW entity \in Entity, NEW items, InsertRows(r, entity, items), UNCHANGED past
        PROVE  RowsKept(r)
    BY <1>3 DEF RowsKept, InsertRows, NewIds
  <1>4. CASE EntityStep(r)
    <2>1. PICK entity \in Entity : EntityCalls(r, entity)
      BY <1>4 DEF EntityStep
    <2>2. CASE Create(r, entity)
      BY <1>1, <1>3, <2>2 DEF Create, AgreementsKept, intake
    <2>3. CASE Update(r, entity)
      <3>1. RowsKept(r)
        BY <2>3 DEF Update, Changes, Exists, RowsKept
      <3>2. QED
        BY <1>1, <2>3, <3>1 DEF Update, AgreementsKept, intake
    <2>4. CASE Delete(r, entity)
      <3>1. RowsKept(r)
        BY <2>4 DEF Delete, Changes, Exists, RowsKept
      <3>2. QED
        BY <1>1, <2>4, <3>1 DEF Delete, AgreementsKept
    <2>5. CASE Count(r, entity)
      <3>1. CallsKept(r)
        BY <2>5 DEF Count, CallsKept, TypeOK
      <3>2. QED
        BY <1>2, <2>5, <3>1 DEF Count, AgreementsKept, intake
    <2>6. CASE ReadPage(r, entity)
      <3>1. CallsKept(r)
        BY <2>6 DEF ReadPage, CallsKept, TypeOK
      <3>2. QED
        BY <1>2, <2>6, <3>1 DEF ReadPage, AgreementsKept, intake
    <2>7. QED
      BY <2>1, <2>2, <2>3, <2>4, <2>5, <2>6 DEF EntityCalls
  <1>5. CASE JobStep(r)
    <2>1. ASSUME NEW at, NEW saw, NEW queue, Queues(r, at, saw, queue)
          PROVE  RowsKept(r) /\ CallsKept(r) /\ AgreementsKept
      <3>1. CallsKept(r)
        BY <2>1 DEF Queues, CallsKept, TypeOK
      <3>2. QED
        BY <1>2, <2>1, <3>1 DEF Queues, AgreementsKept, intake
    <2>2. ASSUME NEW entity \in Entity, NEW at, Inserts(r, entity, at)
          PROVE  RowsKept(r) /\ CallsKept(r) /\ AgreementsKept
      BY <1>1, <1>3, <2>2 DEF Inserts, AgreementsKept, intake
    <2>3. CASE InsertQueued(r)
      BY <2>2, <2>3, WorkFields, CallFields DEF InsertQueued, At
    <2>4. QED
      BY <1>5, <2>1, <2>2, <2>3
         DEF JobStep, ReadKeys, ReadBagTypes, InsertBagTypes, ReadGrades, InsertGrades, Entity
  <1>6. CASE IntakeStep(r)
    <2>1. UNCHANGED <<rows, past>>
      BY <1>6 DEF IntakeStep, CheckAuction, CheckAgreement, CheckDelivery, CheckContract, Checks,
                  InsertAuctionLot, InsertAgreement, InsertDeliveredLot, InsertContract
    <2>2. CallsKept(r)
      BY <1>1, <1>6 DEF IntakeStep, CheckAuction, CheckAgreement, CheckDelivery, CheckContract, Checks,
                        InsertAuctionLot, InsertAgreement, InsertDeliveredLot, InsertContract
    <2>3. AgreementsKept
      <3>1. CASE InsertAgreement(r)
        <4>1. /\ req[r].call.agreement \notin DOMAIN agreements
              /\ agreements' = With(agreements, req[r].call.agreement, req[r].call.supplier)
          BY <3>1 DEF InsertAgreement
        <4>2. QED
          BY <4>1 DEF AgreementsKept, With
      <3>2. CASE ~InsertAgreement(r)
        <4>1. UNCHANGED agreements
          BY <1>6, <3>2
             DEF IntakeStep, CheckAuction, CheckAgreement, CheckDelivery, CheckContract, Checks,
                 InsertAuctionLot, InsertDeliveredLot, InsertContract, intake
        <4>2. QED
          BY <4>1 DEF AgreementsKept
      <3>3. QED
        BY <3>1, <3>2
    <2>4. QED
      BY <1>2, <2>1, <2>2, <2>3
  <1>7. CASE Fail(r)
    BY <1>1, <1>2, <1>7 DEF Fail, AgreementsKept, intake
  <1>8. QED
    BY <1>4, <1>5, <1>6, <1>7 DEF Step

\* What a row has been, and the rows a table has had, only grow.
LEMMA HistoryGrows ==
    ASSUME NEW r \in Req, RowsKept(r)
    PROVE  /\ \A i : Was(i) \subseteq Was(i)'
           /\ \A i : Ever(i) \subseteq Ever(i)'
           /\ \A entity : Known(entity) \subseteq Known(entity)'
  <1>1. \A i : Was(i) \subseteq Was(i)'
    BY DEF RowsKept, Was
  <1>2. ASSUME NEW i PROVE Ever(i) \subseteq Ever(i)'
    <2>1. CASE i \in DOMAIN rows
      <3>1. [id |-> i, row |-> rows[i]] \in past' => rows[i] \in Was(i)'
        <4>1. ASSUME [id |-> i, row |-> rows[i]] \in past' PROVE rows[i] \in Was(i)'
          <5> DEFINE p == [id |-> i, row |-> rows[i]]
          <5>1. p \in {q \in past' : q.id = i} /\ p.row = rows[i]
            BY <4>1
          <5>2. QED
            BY <5>1 DEF Was
        <4>2. QED
          BY <4>1
      <3>2. i \in DOMAIN rows' /\ rows'[i] = rows[i] => rows[i] \in Ever(i)'
        BY DEF Ever
      <3>3. rows[i] \in Ever(i)'
        BY <2>1, <3>1, <3>2 DEF RowsKept, Ever
      <3>4. Ever(i) = Was(i) \cup {rows[i]}
        BY <2>1 DEF Ever
      <3>5. QED
        BY <1>1, <3>3, <3>4 DEF Ever
    <2>2. CASE i \notin DOMAIN rows
      BY <1>1, <2>2 DEF Ever
    <2>3. QED
      BY <2>1, <2>2
  <1>3. ASSUME NEW entity PROVE Known(entity) \subseteq Known(entity)'
    <2>1. ASSUME NEW i \in DOMAIN rows, i.entity = entity PROVE rows[i] \in Known(entity)'
      <3>1. CASE [id |-> i, row |-> rows[i]] \in past'
        BY <2>1, <3>1 DEF Known
      <3>2. CASE i \in DOMAIN rows' /\ rows'[i] = rows[i]
        BY <2>1, <3>2 DEF Known, RowsOf, IdsOf
      <3>3. QED
        BY <2>1, <3>1, <3>2 DEF RowsKept
    <2>2. ASSUME NEW p \in past, p.id.entity = entity PROVE p.row \in Known(entity)'
      BY <2>2 DEF RowsKept, Known
    <2>3. QED
      BY <2>1, <2>2 DEF Known, RowsOf, IdsOf
  <1>4. QED
    BY <1>1, <1>2, <1>3

------------------------------------------------------------------------------
\* References and channels

\* What a call has checked stays so until it inserts: agreements are never
\* deleted, and a supplier whose type was right has been of that type.
WasAgent(id) == \E row \in Ever(id) : row.type = "auction_agent"
WasDirect(id) == \E row \in Ever(id) : row.type # "auction_agent"
Checked ==
    \A r \in Req :
        /\ At(r, "auction", "checked") => WasAgent(req[r].call.agent)
        /\ At(r, "agreement", "checked") => WasDirect(req[r].call.supplier)
        /\ At(r, "delivery", "checked") => req[r].call.agreement \in DOMAIN agreements

\* Only a check makes a call checked.
LEMMA OnlyChecksCheck ==
    ASSUME TypeOK, NEW r \in Req, Step(r), req'[r].at = "checked"
    PROVE  CheckAuction(r) \/ CheckAgreement(r) \/ CheckDelivery(r) \/ CheckContract(r)
  <1>1. ASSUME NEW at, Goes(r, at) PROVE at = "checked"
    BY <1>1 DEF Goes, TypeOK, Work
  <1>2. ~Fail(r)
    BY <1>1 DEF Fail
  <1>3. ~EntityStep(r)
    <2>1. ASSUME NEW entity, EntityCalls(r, entity) PROVE FALSE
      <3>1. ~Create(r, entity) /\ ~Update(r, entity) /\ ~Delete(r, entity)
        BY <1>1 DEF Create, Update, Delete
      <3>2. ~Count(r, entity)
        BY DEF Count, TypeOK, Work
      <3>3. ~ReadPage(r, entity)
        <4>1. ASSUME NEW at, NEW answer,
                     req' = [req EXCEPT ![r].at = at, ![r].pages = Append(@, answer)]
              PROVE  at = "checked"
          BY <4>1 DEF TypeOK, Work
        <4>2. ASSUME ReadPage(r, entity) PROVE FALSE
          <5> DEFINE page == Len(req[r].pages) + 1
                     at == IF HasNext(page, req[r].total) THEN "paged" ELSE "done"
          <5>1. PICK answer \in Pages(rows, IdsOf(entity), page) :
                   req' = [req EXCEPT ![r].at = at, ![r].pages = Append(@, answer)]
            BY <4>2 DEF ReadPage
          <5>2. at # "checked"
            OBVIOUS
          <5> HIDE DEF at
          <5>3. QED
            BY <4>1, <5>1, <5>2
        <4>3. QED
          BY <4>2
      <3>4. QED
        BY <2>1, <3>1, <3>2, <3>3 DEF EntityCalls
    <2>2. QED
      BY <2>1 DEF EntityStep
  <1>4. ~JobStep(r)
    <2>1. ASSUME NEW at, NEW saw, NEW queue, Queues(r, at, saw, queue) PROVE at = "checked"
      BY <2>1 DEF Queues, TypeOK, Work
    <2>2. ~ReadKeys(r) /\ ~ReadBagTypes(r) /\ ~ReadGrades(r)
      BY <2>1 DEF ReadKeys, ReadBagTypes, ReadGrades
    <2>3. ~InsertQueued(r) /\ ~InsertBagTypes(r) /\ ~InsertGrades(r)
      BY <1>1 DEF InsertQueued, InsertBagTypes, InsertGrades, Inserts
    <2>4. QED
      BY <2>2, <2>3 DEF JobStep
  <1>5. ~InsertAuctionLot(r) /\ ~InsertAgreement(r) /\ ~InsertDeliveredLot(r) /\ ~InsertContract(r)
    BY <1>1 DEF InsertAuctionLot, InsertAgreement, InsertDeliveredLot, InsertContract
  <1>6. QED
    BY <1>2, <1>3, <1>4, <1>5 DEF Step, IntakeStep

LEMMA CheckedKept ==
    ASSUME TypeOK, Checked, NEW r \in Req, Step(r)
    PROVE  Checked'
  <1>1. RowsKept(r) /\ CallsKept(r) /\ AgreementsKept
    BY StepKeeps
  <1>2. \A i : (WasAgent(i) => WasAgent(i)') /\ (WasDirect(i) => WasDirect(i)')
    BY <1>1, HistoryGrows DEF WasAgent, WasDirect
  <1>3. ASSUME NEW q \in Req, req'[q].call.op = "auction", req'[q].at = "checked",
               NEW id, id = req'[q].call.agent
        PROVE  WasAgent(id)'
    <2>1. WasAgent(id)
      <3>1. CASE q # r
        BY <1>1, <1>3, <3>1 DEF Checked, CallsKept, At
      <3>2. CASE q = r
        <4>1. CheckAuction(r) /\ id = req[r].call.agent
          BY <1>1, <1>3, <3>2, OnlyChecksCheck
             DEF CallsKept, At, CheckAgreement, CheckDelivery, CheckContract, Checks
        <4>2. rows[id] \in Ever(id) /\ rows[id].type = "auction_agent"
          BY <4>1 DEF CheckAuction, IsAgent, Exists, Ever
        <4>3. QED
          BY <4>2 DEF WasAgent
      <3>3. QED
        BY <3>1, <3>2
    <2>2. QED
      BY <1>2, <2>1
  <1>4. ASSUME NEW q \in Req, req'[q].call.op = "agreement", req'[q].at = "checked",
               NEW id, id = req'[q].call.supplier
        PROVE  WasDirect(id)'
    <2>1. WasDirect(id)
      <3>1. CASE q # r
        BY <1>1, <1>4, <3>1 DEF Checked, CallsKept, At
      <3>2. CASE q = r
        <4>1. CheckAgreement(r) /\ id = req[r].call.supplier
          BY <1>1, <1>4, <3>2, OnlyChecksCheck
             DEF CallsKept, At, CheckAuction, CheckDelivery, CheckContract, Checks
        <4>2. rows[id] \in Ever(id) /\ rows[id].type # "auction_agent"
          BY <4>1 DEF CheckAgreement, IsDirectSupplier, Exists, Ever
        <4>3. QED
          BY <4>2 DEF WasDirect
      <3>3. QED
        BY <3>1, <3>2
    <2>2. QED
      BY <1>2, <2>1
  <1>5. ASSUME NEW q \in Req, req'[q].call.op = "delivery", req'[q].at = "checked"
        PROVE  req'[q].call.agreement \in DOMAIN agreements'
    <2>1. CASE q # r
      BY <1>1, <1>5, <2>1 DEF Checked, CallsKept, At, AgreementsKept
    <2>2. CASE q = r
      <3>1. CheckDelivery(r)
        BY <1>1, <1>5, <2>2, OnlyChecksCheck
           DEF CallsKept, At, CheckAuction, CheckAgreement, CheckContract, Checks
      <3>2. QED
        BY <1>1, <2>2, <3>1 DEF CheckDelivery, CallsKept, AgreementsKept
    <2>3. QED
      BY <2>1, <2>2
  <1>6. QED
    BY <1>3, <1>4, <1>5 DEF Checked, At

IntakeInv == ReferencesHold /\ SourceKnown /\ ChannelsApart

\* A step that leaves the intake alone and takes away no row.
LEMMA IntakeUntouched ==
    ASSUME IntakeInv, NEW r \in Req, RowsKept(r), UNCHANGED intake, DOMAIN rows \subseteq DOMAIN rows'
    PROVE  IntakeInv'
  <1>1. \A i : Ever(i) \subseteq Ever(i)'
    BY HistoryGrows
  <1>2. \A id, entity : Exists(id, entity) => Exists(id, entity)'
    BY DEF Exists
  <1>3. ReferencesHold'
    BY <1>2 DEF IntakeInv, ReferencesHold, IntakeExists, ContractExists, intake
  <1>4. SourceKnown'
    BY DEF IntakeInv, SourceKnown, intake
  <1>5. ChannelsApart'
    BY <1>1 DEF IntakeInv, ChannelsApart, intake
  <1>6. QED
    BY <1>3, <1>4, <1>5 DEF IntakeInv

\* A table with one more row.
Added(new, old, key, row) ==
    /\ DOMAIN new = DOMAIN old \cup {key}
    /\ new[key] = row
    /\ \A k \in DOMAIN old : k # key => new[k] = old[k]
LEMMA WithAdds ==
    ASSUME NEW new, NEW old, NEW key, NEW row, new = With(old, key, row)
    PROVE  Added(new, old, key, row)
  BY DEF With, Added

\* A step of the intake.
LEMMA IntakeKept ==
    ASSUME TypeOK, IntakeInv, Checked, NEW r \in Req, IntakeStep(r)
    PROVE  IntakeInv'
  <1> DEFINE call == req[r].call
  <1>1. RowsKept(r)
    BY StepKeeps DEF Step
  <1>2. UNCHANGED <<rows, past>>
    BY DEF IntakeStep, CheckAuction, CheckAgreement, CheckDelivery, CheckContract, Checks,
           InsertAuctionLot, InsertAgreement, InsertDeliveredLot, InsertContract
  <1>3. CASE CheckAuction(r) \/ CheckAgreement(r) \/ CheckDelivery(r) \/ CheckContract(r)
    BY <1>1, <1>2, <1>3, IntakeUntouched DEF CheckAuction, CheckAgreement, CheckDelivery, CheckContract, Checks
  <1>4. CASE InsertAuctionLot(r)
    <2> DEFINE lot == LotOf("auction", call.agent, call)
    <2>1. /\ Added(lots', lots, call.lot, lot)
          /\ Added(auctions', auctions, call.lot, call.agent)
          /\ UNCHANGED <<deliveries, agreements, contracts>>
          /\ call.lot \notin DOMAIN lots
          /\ Exists(call.agent, "supplier") /\ IntakeExists(call)
          /\ WasAgent(call.agent)
      BY <1>4, WithAdds DEF InsertAuctionLot, Checked
    <2>2. /\ lot.source = "auction" /\ lot.supplier = call.agent
          /\ lot.grade = call.grade /\ lot.warehouse = call.warehouse /\ lot.bag_type = call.bag_type
      BY DEF LotOf
    <2>3. call.lot \notin DOMAIN auctions \cup DOMAIN deliveries
      BY <2>1, WorkFields, CallFields DEF IntakeInv, SourceKnown, TypeOK, IsTable
    <2> HIDE DEF call, lot
    <2>4. ReferencesHold'
      BY <1>2, <2>1, <2>2 DEF Added, Exists, IntakeInv, ReferencesHold, IntakeExists, ContractExists
    <2>5. SourceKnown'
      BY <2>1, <2>2, <2>3 DEF Added, IntakeInv, SourceKnown
    <2>6. ChannelsApart'
      BY <1>2, <2>1, <2>2 DEF Added, Ever, Was, IntakeInv, ChannelsApart, WasAgent
    <2>7. QED
      BY <2>4, <2>5, <2>6 DEF IntakeInv
  <1>5. CASE InsertAgreement(r)
    <2>1. /\ Added(agreements', agreements, call.agreement, call.supplier)
          /\ UNCHANGED <<lots, auctions, deliveries, contracts>>
          /\ call.agreement \notin DOMAIN agreements
          /\ Exists(call.supplier, "supplier")
          /\ WasDirect(call.supplier)
      BY <1>5, WithAdds DEF InsertAgreement, Checked
    <2> HIDE DEF call
    <2>2. ReferencesHold'
      BY <1>2, <2>1 DEF Added, Exists, IntakeInv, ReferencesHold, IntakeExists, ContractExists
    <2>3. SourceKnown'
      BY <2>1 DEF Added, IntakeInv, SourceKnown, ReferencesHold
    <2>4. ChannelsApart'
      BY <1>2, <2>1 DEF Added, Ever, Was, IntakeInv, ChannelsApart, WasDirect
    <2>5. QED
      BY <2>2, <2>3, <2>4 DEF IntakeInv
  <1>6. CASE InsertDeliveredLot(r)
    <2> DEFINE supplier == agreements[call.agreement]
               lot == LotOf("direct", supplier, call)
    <2>1. /\ Added(lots', lots, call.lot, lot)
          /\ Added(deliveries', deliveries, call.lot, call.agreement)
          /\ UNCHANGED <<auctions, agreements, contracts>>
          /\ call.lot \notin DOMAIN lots
          /\ Exists(supplier, "supplier") /\ IntakeExists(call)
          /\ call.agreement \in DOMAIN agreements
      BY <1>6, WithAdds DEF InsertDeliveredLot, SupplierOf, Checked
    <2>2. /\ lot.source = "direct" /\ lot.supplier = supplier
          /\ lot.grade = call.grade /\ lot.warehouse = call.warehouse /\ lot.bag_type = call.bag_type
      BY DEF LotOf
    <2>3. call.lot \notin DOMAIN auctions \cup DOMAIN deliveries
      BY <2>1, WorkFields, CallFields DEF IntakeInv, SourceKnown, TypeOK, IsTable
    <2> HIDE DEF lot
    <2>4. ReferencesHold'
      <3> HIDE DEF supplier, call
      <3>1. QED
        BY <1>2, <2>1, <2>2 DEF Added, Exists, IntakeInv, ReferencesHold, IntakeExists, ContractExists
    <2>5. SourceKnown'
      BY <2>1, <2>2, <2>3 DEF Added, IntakeInv, SourceKnown
    <2>6. ChannelsApart'
      <3> HIDE DEF supplier, call
      <3>1. QED
        BY <1>2, <2>1, <2>2 DEF Added, Ever, Was, IntakeInv, ChannelsApart
    <2>7. QED
      BY <2>4, <2>5, <2>6 DEF IntakeInv
  <1>7. CASE InsertContract(r)
    <2> DEFINE contract == [buyer |-> call.buyer, grade |-> call.grade]
    <2>1. /\ Added(contracts', contracts, call.contract, contract)
          /\ UNCHANGED <<lots, auctions, deliveries, agreements>>
          /\ ContractExists(call)
          /\ contract.buyer = call.buyer /\ contract.grade = call.grade
      BY <1>7, WithAdds DEF InsertContract
    <2> HIDE DEF call, contract
    <2>2. ReferencesHold'
      BY <1>2, <2>1 DEF Added, Exists, IntakeInv, ReferencesHold, IntakeExists, ContractExists
    <2>3. SourceKnown' /\ ChannelsApart'
      BY <1>2, <2>1 DEF Ever, Was, IntakeInv, SourceKnown, ChannelsApart
    <2>4. QED
      BY <2>2, <2>3 DEF IntakeInv
  <1>8. QED
    BY <1>3, <1>4, <1>5, <1>6, <1>7 DEF IntakeStep

\* A delete takes no row that something refers to.
LEMMA DeleteKept ==
    ASSUME TypeOK, IntakeInv, NEW r \in Req, NEW entity, Delete(r, entity), RowsKept(r)
    PROVE  IntakeInv'
  <1> DEFINE id == req[r].call.id
  <1>1. /\ DOMAIN rows' = DOMAIN rows \ {id}
        /\ ~InUse(id)
        /\ contracts' = WithoutGrade(id)
        /\ UNCHANGED <<lots, auctions, deliveries, agreements>>
    BY DEF Delete
  <1> HIDE DEF id
  <1>2. \A i : Ever(i) \subseteq Ever(i)'
    BY HistoryGrows
  <1>3. /\ DOMAIN contracts' = DOMAIN contracts
        /\ \A c \in DOMAIN contracts :
              /\ contracts'[c].buyer = contracts[c].buyer
              /\ contracts'[c].grade = IF contracts[c].grade = id THEN NoGrade ELSE contracts[c].grade
    BY <1>1 DEF WithoutGrade, TypeOK, IsTable, ContractRow
  <1>4. \A l \in DOMAIN lots :
            Exists(lots[l].supplier, "supplier")' /\ IntakeExists(lots[l])'
    BY <1>1 DEF Exists, IntakeInv, ReferencesHold, IntakeExists, InUse
  <1>5. \A c \in DOMAIN contracts : ContractExists(contracts[c])'
    BY <1>1, <1>3 DEF Exists, IntakeInv, ReferencesHold, ContractExists, InUse
  <1>6. \A l \in DOMAIN auctions : Exists(auctions[l], "supplier")'
    BY <1>1 DEF Exists, IntakeInv, ReferencesHold, InUse
  <1>7. \A a \in DOMAIN agreements : Exists(agreements[a], "supplier")'
    BY <1>1 DEF Exists, IntakeInv, ReferencesHold, InUse
  <1>8. ReferencesHold'
    BY <1>1, <1>3, <1>4, <1>5, <1>6, <1>7 DEF IntakeInv, ReferencesHold
  <1>9. SourceKnown' /\ ChannelsApart'
    BY <1>1, <1>2 DEF IntakeInv, SourceKnown, ChannelsApart
  <1>10. QED
    BY <1>8, <1>9 DEF IntakeInv


------------------------------------------------------------------------------
\* Imports and seeds

Place(r) == req[r].at
Op(r) == req[r].call.op

\* The steps of an import, of a seeding, and those that insert rows.
LEMMA OpSteps ==
    ASSUME TypeOK, NEW r \in Req, Step(r)
    PROVE  /\ Op(r) = "import" => ReadKeys(r) \/ InsertQueued(r) \/ Fail(r)
           /\ Op(r) = "seed" =>
                 ReadBagTypes(r) \/ InsertBagTypes(r) \/ ReadGrades(r) \/ InsertGrades(r) \/ Fail(r)
           /\ Place(r) \notin {"done", "failed"}
           /\ Op(r) \notin {"import", "seed"} =>
                 /\ ~JobStep(r)
                 /\ req'[r].at \notin {"read", "bag_types", "seeded", "grades"}
  <1>1. ASSUME NEW at, Goes(r, at) PROVE req'[r].at = at
    BY <1>1 DEF Goes, TypeOK, Work
  <1>2. ASSUME EntityStep(r)
        PROVE  /\ Op(r) \in {"create", "update", "delete", "list"}
               /\ Place(r) \notin {"done", "failed"}
               /\ req'[r].at \notin {"read", "bag_types", "seeded", "grades"}
    <2>1. PICK entity \in Entity : EntityCalls(r, entity)
      BY <1>2 DEF EntityStep
    <2>2. CASE Create(r, entity) \/ Update(r, entity) \/ Delete(r, entity)
      BY <1>1, <2>2 DEF Create, Update, Delete, At, Op, Place
    <2>3. CASE Count(r, entity)
      BY <2>3 DEF Count, At, Op, Place, TypeOK, Work
    <2>4. CASE ReadPage(r, entity)
      <3> DEFINE page == Len(req[r].pages) + 1
                 at == IF HasNext(page, req[r].total) THEN "paged" ELSE "done"
      <3>1. PICK answer \in Pages(rows, IdsOf(entity), page) :
               req' = [req EXCEPT ![r].at = at, ![r].pages = Append(@, answer)]
        BY <2>4 DEF ReadPage
      <3>2. at \notin {"read", "bag_types", "seeded", "grades"}
        OBVIOUS
      <3> HIDE DEF at
      <3>3. req'[r].at = at
        BY <3>1 DEF TypeOK, Work
      <3>4. QED
        BY <2>4, <3>2, <3>3 DEF ReadPage, At, Op, Place
    <2>5. QED
      BY <2>1, <2>2, <2>3, <2>4 DEF EntityCalls
  <1>3. ASSUME IntakeStep(r)
        PROVE  /\ Op(r) \in {"auction", "agreement", "delivery", "contract"}
               /\ Place(r) \notin {"done", "failed"}
               /\ req'[r].at \notin {"read", "bag_types", "seeded", "grades"}
    BY <1>1, <1>3
       DEF IntakeStep, CheckAuction, CheckAgreement, CheckDelivery, CheckContract, Checks, At, Op, Place,
           InsertAuctionLot, InsertAgreement, InsertDeliveredLot, InsertContract
  <1>4. JobStep(r) => Place(r) \notin {"done", "failed"}
    BY DEF JobStep, ReadKeys, InsertQueued, ReadBagTypes, InsertBagTypes, ReadGrades, InsertGrades, At, Place
  <1>5. ReadKeys(r) \/ InsertQueued(r) => Op(r) = "import"
    BY DEF ReadKeys, InsertQueued, At, Op
  <1>6. ReadBagTypes(r) \/ InsertBagTypes(r) \/ ReadGrades(r) \/ InsertGrades(r) => Op(r) = "seed"
    BY DEF ReadBagTypes, InsertBagTypes, ReadGrades, InsertGrades, At, Op
  <1>7. Fail(r) => Place(r) \notin {"done", "failed"} /\ req'[r].at = "failed"
    BY <1>1 DEF Fail, Place
  <1>8. QED
    BY <1>2, <1>3, <1>4, <1>5, <1>6, <1>7 DEF Step, JobStep

\* Where a job goes with each of its steps.
LEMMA JobPlaces ==
    ASSUME TypeOK, NEW r \in Req
    PROVE  /\ ReadKeys(r) => At(r, "import", "start") /\ req'[r].at = "read"
           /\ InsertQueued(r) => At(r, "import", "read") /\ req'[r].at = "done"
           /\ ReadBagTypes(r) => At(r, "seed", "start") /\ req'[r].at = "bag_types"
           /\ InsertBagTypes(r) => At(r, "seed", "bag_types") /\ req'[r].at = "seeded"
           /\ ReadGrades(r) => At(r, "seed", "seeded") /\ req'[r].at = "grades"
           /\ InsertGrades(r) => At(r, "seed", "grades") /\ req'[r].at = "done"
           /\ Fail(r) => req'[r].at = "failed"
  BY DEF ReadKeys, InsertQueued, ReadBagTypes, InsertBagTypes, ReadGrades, InsertGrades, Fail,
         Queues, Inserts, Goes, TypeOK, Work

\* A step that adds rows to a table is one of these, and the call had added
\* none to it before.
Inserted(r, entity) ==
    \/ Op(r) \in {"create", "import", "seed"} /\ Place(r) = "done"
    \/ Op(r) = "seed" /\ entity = "bag_type" /\ Place(r) \in {"seeded", "grades", "failed"}
Adds(r, entity) ==
    \/ Create(r, entity)
    \/ InsertQueued(r) /\ req[r].call.entity = entity
    \/ InsertBagTypes(r) /\ entity = "bag_type"
    \/ InsertGrades(r) /\ entity = "grade"

LEMMA NewRows ==
    ASSUME TypeOK, NEW r \in Req, Step(r), NEW i \in DOMAIN rows' \ DOMAIN rows
    PROVE  i.by = r /\ i.entity \in Entity /\ Adds(r, i.entity)
  <1>1. i.by = r
    BY StepKeeps DEF RowsKept
  <1>2. ASSUME NEW entity, NEW items, InsertRows(r, entity, items) PROVE i.entity = entity
    BY <1>2 DEF InsertRows, NewIds
  <1>3. CASE EntityStep(r)
    <2>1. PICK entity \in Entity : EntityCalls(r, entity)
      BY <1>3 DEF EntityStep
    <2>2. Create(r, entity)
      BY <2>1 DEF EntityCalls, Update, Delete, Count, ReadPage
    <2>3. i.entity = entity
      BY <1>2, <2>2 DEF Create
    <2>4. QED
      BY <1>1, <2>2, <2>3 DEF Adds
  <1>4. CASE JobStep(r)
    <2>1. InsertQueued(r) \/ InsertBagTypes(r) \/ InsertGrades(r)
      BY <1>4 DEF JobStep, ReadKeys, ReadBagTypes, ReadGrades, Queues
    <2>2. CASE InsertQueued(r)
      <3>1. req[r].call.entity \in Entity
        BY <2>2, WorkFields, CallFields DEF InsertQueued, At
      <3>2. i.entity = req[r].call.entity
        BY <1>2, <2>2 DEF InsertQueued, Inserts
      <3>3. QED
        BY <1>1, <2>2, <3>1, <3>2 DEF Adds
    <2>3. CASE InsertBagTypes(r)
      BY <1>1, <1>2, <2>3 DEF InsertBagTypes, Inserts, Adds, Entity
    <2>4. CASE InsertGrades(r)
      BY <1>1, <1>2, <2>4 DEF InsertGrades, Inserts, Adds, Entity
    <2>5. QED
      BY <2>1, <2>2, <2>3, <2>4
  <1>5. CASE IntakeStep(r) \/ Fail(r)
    BY <1>5 DEF IntakeStep, CheckAuction, CheckAgreement, CheckDelivery, CheckContract, Checks,
                InsertAuctionLot, InsertAgreement, InsertDeliveredLot, InsertContract, Fail
  <1>6. QED
    BY <1>3, <1>4, <1>5 DEF Step

LEMMA AddsOnce ==
    ASSUME TypeOK, NEW r \in Req, NEW entity, Adds(r, entity)
    PROVE  ~Inserted(r, entity) /\ Inserted(r, entity)'
  <1>1. CASE Create(r, entity)
    BY <1>1 DEF Create, Goes, At, Inserted, Op, Place, TypeOK, Work
  <1>2. CASE ~Create(r, entity)
    BY <1>2, JobPlaces DEF Adds, At, Inserted, Op, Place, InsertQueued, InsertBagTypes, InsertGrades,
                           Inserts, Goes, TypeOK, Work
  <1>3. QED
    BY <1>1, <1>2

\* Every row of a call of this behaviour was added by that call's one insert.
Fresh == \A i \in DOMAIN rows \cup {p.id : p \in past} : i.by \in Req => Inserted(i.by, i.entity)

LEMMA FreshKept ==
    ASSUME TypeOK, Fresh, NEW r \in Req, Step(r)
    PROVE  Fresh'
  <1>1. RowsKept(r) /\ CallsKept(r)
    BY StepKeeps
  <1>2. ASSUME NEW q \in Req, NEW entity, Inserted(q, entity) PROVE Inserted(q, entity)'
    <2>1. CASE q # r
      BY <1>1, <1>2, <2>1 DEF CallsKept, Inserted, Op, Place
    <2>2. CASE q = r
      <3>1. Op(r) = "seed" /\ entity = "bag_type" /\ Place(r) \in {"seeded", "grades"}
        BY <1>2, <2>2, OpSteps DEF Inserted
      <3>2. ReadGrades(r) \/ InsertGrades(r) \/ Fail(r)
        BY <3>1, OpSteps, JobPlaces DEF At, Place
      <3>3. QED
        BY <1>1, <2>2, <3>1, <3>2, JobPlaces DEF CallsKept, Inserted, Op, Place
    <2>3. QED
      BY <2>1, <2>2
  <1>3. ASSUME NEW i \in DOMAIN rows' \cup {p.id : p \in past'}, i.by \in Req
        PROVE  Inserted(i.by, i.entity)'
    <2>1. CASE i \in DOMAIN rows \/ Past(i)
      BY <1>2, <1>3, <2>1 DEF Fresh, Past
    <2>2. CASE ~(i \in DOMAIN rows \/ Past(i))
      <3>1. i \in DOMAIN rows' \ DOMAIN rows
        BY <1>1, <1>3, <2>2 DEF RowsKept, Past
      <3>2. QED
        BY <3>1, NewRows, AddsOnce
    <2>3. QED
      BY <2>1, <2>2
  <1>4. QED
    BY <1>3 DEF Fresh

\* What a call saw is there, or was.
Seen == \A r \in Req : \A i \in req[r].saw : i \in DOMAIN rows \/ Past(i)

\* A step adds no more to what its call saw than rows that are there.
LEMMA SawKept ==
    ASSUME TypeOK, NEW r \in Req, Step(r)
    PROVE  /\ req'[r].saw \subseteq req[r].saw \cup DOMAIN rows
           /\ ~(\E entity : Count(r, entity)) /\ ~ReadKeys(r) /\ ~ReadBagTypes(r) /\ ~ReadGrades(r)
                 => req'[r].saw = req[r].saw /\ req'[r].queue = req[r].queue
  <1>1. ASSUME NEW at, Goes(r, at) PROVE req'[r].saw = req[r].saw /\ req'[r].queue = req[r].queue
    BY <1>1 DEF Goes, TypeOK, Work
  <1>2. ASSUME NEW entity, Count(r, entity) PROVE req'[r].saw \subseteq req[r].saw \cup DOMAIN rows
    BY <1>2 DEF Count, TypeOK, Work, IdsOf
  <1>3. ASSUME NEW entity, ReadPage(r, entity)
        PROVE  req'[r].saw = req[r].saw /\ req'[r].queue = req[r].queue
    <2>1. PICK answer, at :
             req' = [req EXCEPT ![r].at = at, ![r].pages = Append(@, answer)]
      BY <1>3 DEF ReadPage
    <2>2. QED
      BY <2>1 DEF TypeOK, Work
  <1>4. ASSUME NEW at, NEW saw, NEW queue, Queues(r, at, saw, queue)
        PROVE  req'[r].saw = req[r].saw \cup saw /\ req'[r].queue = queue
    BY <1>4 DEF Queues, TypeOK, Work
  <1>5. CASE EntityStep(r)
    BY <1>1, <1>2, <1>3, <1>5 DEF EntityStep, EntityCalls, Create, Update, Delete
  <1>6. CASE JobStep(r)
    <2>1. ReadKeys(r) \/ ReadBagTypes(r) \/ ReadGrades(r)
            => req'[r].saw \subseteq req[r].saw \cup DOMAIN rows
      BY <1>4 DEF ReadKeys, ReadBagTypes, ReadGrades, IdsOf
    <2>2. InsertQueued(r) \/ InsertBagTypes(r) \/ InsertGrades(r)
            => req'[r].saw = req[r].saw /\ req'[r].queue = req[r].queue
      BY <1>1 DEF InsertQueued, InsertBagTypes, InsertGrades, Inserts
    <2>3. QED
      BY <1>6, <2>1, <2>2 DEF JobStep
  <1>7. CASE IntakeStep(r) \/ Fail(r)
    BY <1>1, <1>7
       DEF IntakeStep, CheckAuction, CheckAgreement, CheckDelivery, CheckContract, Checks,
           InsertAuctionLot, InsertAgreement, InsertDeliveredLot, InsertContract, Fail
  <1>8. QED
    BY <1>5, <1>6, <1>7 DEF Step

LEMMA SeenKept ==
    ASSUME TypeOK, Seen, NEW r \in Req, Step(r)
    PROVE  Seen'
  <1>1. RowsKept(r) /\ CallsKept(r)
    BY StepKeeps
  <1>2. ASSUME NEW i, i \in DOMAIN rows \/ Past(i) PROVE (i \in DOMAIN rows \/ Past(i))'
    <2>1. CASE i \in DOMAIN rows
      <3>1. [id |-> i, row |-> rows[i]].id = i
        OBVIOUS
      <3>2. QED
        BY <1>1, <2>1, <3>1 DEF RowsKept, Past
    <2>2. CASE Past(i)
      BY <1>1, <2>2 DEF RowsKept, Past
    <2>3. QED
      BY <1>2, <2>1, <2>2
  <1>3. ASSUME NEW q \in Req, NEW i \in req'[q].saw PROVE i \in DOMAIN rows \/ Past(i)
    BY <1>1, <1>3, SawKept DEF Seen, CallsKept
  <1>4. QED
    BY <1>2, <1>3 DEF Seen

\* What a job has queued: one item for each line and key, no key that an
\* unchanged row it saw has, and all that the table misses of the standards.
Distinct(queue) ==
    \A c, d \in queue : c.line = d.line \/ c.input.key = d.input.key => c = d
Apart(queue, saw, entity) ==
    \A i \in saw \cap DOMAIN rows : i.entity = entity /\ Was(i) = {} =>
        \A c \in queue : c.input.key # rows[i].key
BagTypeKnown(n) == \E row \in Known("bag_type") : SameBagType(row, StandardBagTypes[n])
GradeKnown(n) == \E row \in Known("grade") : row.key = StandardGrades[n]
CoversBagTypes(queue) ==
    \A n \in DOMAIN StandardBagTypes :
        BagTypeKnown(n) \/ \E c \in queue : SameBagType(c.input, StandardBagTypes[n])
CoversGrades(queue) ==
    \A n \in DOMAIN StandardGrades : GradeKnown(n) \/ \E c \in queue : c.input.key = StandardGrades[n]

Ready(r, entity) == Distinct(req[r].queue) /\ Apart(req[r].queue, req[r].saw, entity)
QueuesReady ==
    \A r \in Req :
        /\ At(r, "import", "read") => Ready(r, req[r].call.entity)
        /\ At(r, "seed", "bag_types") => Ready(r, "bag_type") /\ CoversBagTypes(req[r].queue)
        /\ At(r, "seed", "grades") => Ready(r, "grade") /\ CoversGrades(req[r].queue)

LEMMA QueuedReady ==
    ASSUME NEW file \in Seq(Line), NEW entity, NEW saw
    PROVE  Distinct(Queued(file, KeysOf(entity))) /\ Apart(Queued(file, KeysOf(entity)), saw, entity)
  <1> DEFINE lines == {m \in DOMAIN file :
                          /\ file[m].valid
                          /\ file[m].input.key \notin KeysOf(entity)
                          /\ \A k \in DOMAIN file : k < m /\ file[k].valid
                                => file[k].input.key # file[m].input.key}
  <1>1. \A c \in Queued(file, KeysOf(entity)) : \E n \in lines : c = ItemOf(n, file[n].input)
    BY DEF Queued
  <1>2. \A m, n \in lines : file[m].input.key = file[n].input.key => m = n
    OBVIOUS
  <1>3. \A n : ItemOf(n, file[n].input).line = n /\ ItemOf(n, file[n].input).input = file[n].input
    BY DEF ItemOf
  <1>4. \A n \in lines : file[n].input.key \notin KeysOf(entity)
    OBVIOUS
  <1>5. \A i \in DOMAIN rows : i.entity = entity => rows[i].key \in KeysOf(entity)
    BY DEF KeysOf, RowsOf, IdsOf
  <1> HIDE DEF lines
  <1>6. Distinct(Queued(file, KeysOf(entity)))
    BY <1>1, <1>2, <1>3 DEF Distinct
  <1>7. Apart(Queued(file, KeysOf(entity)), saw, entity)
    BY <1>1, <1>3, <1>4, <1>5 DEF Apart
  <1>8. QED
    BY <1>6, <1>7

LEMMA MissingBagTypesReady ==
    ASSUME NEW saw
    PROVE  LET queue == MissingBagTypes(RowsOf("bag_type"))
           IN  Distinct(queue) /\ Apart(queue, saw, "bag_type") /\ CoversBagTypes(queue)
  <1> DEFINE queue == MissingBagTypes(RowsOf("bag_type"))
             lines == {m \in DOMAIN StandardBagTypes :
                          ~\E row \in RowsOf("bag_type") : SameBagType(row, StandardBagTypes[m])}
             item(n) == ItemOf(n, Weighing(StandardBagTypes[n].key, StandardBagTypes[n].weight))
  <1>1. queue = {item(n) : n \in lines}
    BY DEF MissingBagTypes
  <1>2. \A n : /\ item(n).line = n
               /\ item(n).input.key = StandardBagTypes[n].key
               /\ item(n).input.weight = StandardBagTypes[n].weight
    BY DEF ItemOf, Weighing
  <1>3. \A m, n \in lines : StandardBagTypes[m].key = StandardBagTypes[n].key => m = n
    BY SeedsAssumption
  <1>4. \A i \in DOMAIN rows : i.entity = "bag_type" => rows[i] \in RowsOf("bag_type")
    BY DEF RowsOf, IdsOf
  <1>5. \A n \in lines : \A row \in RowsOf("bag_type") : row.key # StandardBagTypes[n].key
    BY DEF SameBagType
  <1>6. \A n \in DOMAIN StandardBagTypes \ lines : BagTypeKnown(n)
    BY DEF BagTypeKnown, Known
  <1>7. \A n : SameBagType(item(n).input, StandardBagTypes[n])
    BY <1>2 DEF SameBagType
  <1> HIDE DEF lines, queue, item
  <1>8. Distinct(queue)
    BY <1>1, <1>2, <1>3 DEF Distinct
  <1>9. Apart(queue, saw, "bag_type")
    BY <1>1, <1>2, <1>4, <1>5 DEF Apart
  <1>10. CoversBagTypes(queue)
    BY <1>1, <1>6, <1>7 DEF CoversBagTypes
  <1>11. QED
    BY <1>8, <1>9, <1>10 DEF queue

LEMMA MissingGradesReady ==
    ASSUME NEW saw
    PROVE  LET queue == MissingGrades(RowsOf("grade"))
           IN  Distinct(queue) /\ Apart(queue, saw, "grade") /\ CoversGrades(queue)
  <1> DEFINE queue == MissingGrades(RowsOf("grade"))
             lines == {m \in DOMAIN StandardGrades :
                          ~\E row \in RowsOf("grade") : row.key = StandardGrades[m]}
             item(n) == ItemOf(n, Named(StandardGrades[n]))
  <1>1. queue = {item(n) : n \in lines}
    BY DEF MissingGrades
  <1>2. \A n : item(n).line = n /\ item(n).input.key = StandardGrades[n]
    BY DEF ItemOf, Named
  <1>3. \A m, n \in lines : StandardGrades[m] = StandardGrades[n] => m = n
    BY SeedsAssumption
  <1>4. \A i \in DOMAIN rows : i.entity = "grade" => rows[i] \in RowsOf("grade")
    BY DEF RowsOf, IdsOf
  <1>5. \A n \in lines : \A row \in RowsOf("grade") : row.key # StandardGrades[n]
    OBVIOUS
  <1>6. \A n \in DOMAIN StandardGrades \ lines : GradeKnown(n)
    BY DEF GradeKnown, Known
  <1> HIDE DEF lines, queue, item
  <1>7. Distinct(queue)
    BY <1>1, <1>2, <1>3 DEF Distinct
  <1>8. Apart(queue, saw, "grade")
    BY <1>1, <1>2, <1>4, <1>5 DEF Apart
  <1>9. CoversGrades(queue)
    BY <1>1, <1>2, <1>6 DEF CoversGrades
  <1>10. QED
    BY <1>7, <1>8, <1>9 DEF queue

\* A row that a call saw and that is unchanged after a step is as it was.
LEMMA UnchangedRows ==
    ASSUME NEW r \in Req, RowsKept(r), NEW i \in DOMAIN rows', Was(i)' = {}
    PROVE  /\ Was(i) = {}
           /\ ~Past(i)
           /\ i \in DOMAIN rows => rows'[i] = rows[i]
  <1>1. Was(i) = {}
    BY HistoryGrows
  <1>2. ~Past(i)
    BY <1>1 DEF Was, Past
  <1>3. ASSUME i \in DOMAIN rows PROVE rows'[i] = rows[i]
    <2> DEFINE p == [id |-> i, row |-> rows[i]]
    <2>1. p \notin past'
      <3>1. p.id = i
        OBVIOUS
      <3> HIDE DEF p
      <3>2. QED
        BY <3>1 DEF Was
    <2>2. QED
      BY <1>3, <2>1 DEF RowsKept
  <1>4. QED
    BY <1>1, <1>2, <1>3

LEMMA QueuesReadyKept ==
    ASSUME TypeOK, Seen, QueuesReady, NEW r \in Req, Step(r)
    PROVE  QueuesReady'
  <1>1. RowsKept(r) /\ CallsKept(r)
    BY StepKeeps
  <1>2. ASSUME NEW queue, NEW saw, NEW entity, Apart(queue, saw, entity),
               \A i \in saw : i \in DOMAIN rows \/ Past(i)
        PROVE  Apart(queue, saw, entity)'
    <2>1. ASSUME NEW i \in saw \cap DOMAIN rows', i.entity = entity, Was(i)' = {}, NEW c \in queue
          PROVE  c.input.key # rows'[i].key
      <3>1. i \in DOMAIN rows /\ Was(i) = {} /\ rows'[i] = rows[i]
        BY <1>1, <1>2, <2>1, UnchangedRows
      <3>2. QED
        BY <1>2, <2>1, <3>1 DEF Apart
    <2>2. QED
      BY <2>1 DEF Apart
  <1>3. \A n : (BagTypeKnown(n) => BagTypeKnown(n)') /\ (GradeKnown(n) => GradeKnown(n)')
    BY <1>1, HistoryGrows DEF BagTypeKnown, GradeKnown
  <1>4. ASSUME NEW queue
        PROVE  /\ CoversBagTypes(queue) => CoversBagTypes(queue)'
               /\ CoversGrades(queue) => CoversGrades(queue)'
    BY <1>3 DEF CoversBagTypes, CoversGrades
  <1>5. ASSUME NEW at, NEW saw, NEW queue, Queues(r, at, saw, queue)
        PROVE  /\ req'[r].queue = queue /\ req'[r].saw = req[r].saw \cup saw
               /\ UNCHANGED <<rows, past>>
    BY <1>5 DEF Queues, TypeOK, Work
  <1>6. ASSUME NEW q \in Req, req'[q].call.op = "import", req'[q].at = "read",
               NEW queue, queue = req'[q].queue, NEW saw, saw = req'[q].saw,
               NEW entity, entity = req'[q].call.entity
        PROVE  Distinct(queue) /\ Apart(queue, saw, entity)'
    <2>1. CASE q # r
      <3>1. At(q, "import", "read") /\ req'[q] = req[q]
        BY <1>1, <1>6, <2>1 DEF CallsKept, At
      <3>2. Distinct(queue) /\ Apart(queue, saw, entity)
        BY <1>6, <3>1 DEF QueuesReady, Ready
      <3>3. QED
        BY <1>2, <1>6, <3>1, <3>2 DEF Seen
    <2>2. CASE q = r
      <3>1. ReadKeys(r) /\ entity = req[r].call.entity
        BY <1>1, <1>6, <2>2, OpSteps, JobPlaces DEF CallsKept, Op
      <3>2. req[r].call.file \in Seq(Line)
        BY <3>1, WorkFields, CallFields DEF ReadKeys, At
      <3>3. queue = Queued(req[r].call.file, KeysOf(entity)) /\ UNCHANGED <<rows, past>>
        BY <1>5, <1>6, <2>2, <3>1 DEF ReadKeys
      <3>4. Distinct(queue) /\ Apart(queue, saw, entity)
        BY <3>2, <3>3, QueuedReady
      <3>5. QED
        BY <3>3, <3>4 DEF Apart, Was
    <2>3. QED
      BY <2>1, <2>2
  <1>7. ASSUME NEW q \in Req, req'[q].call.op = "seed", req'[q].at = "bag_types",
               NEW queue, queue = req'[q].queue, NEW saw, saw = req'[q].saw
        PROVE  Distinct(queue) /\ Apart(queue, saw, "bag_type")' /\ CoversBagTypes(queue)'
    <2>1. CASE q # r
      <3>1. At(q, "seed", "bag_types") /\ req'[q] = req[q]
        BY <1>1, <1>7, <2>1 DEF CallsKept, At
      <3>2. Distinct(queue) /\ Apart(queue, saw, "bag_type") /\ CoversBagTypes(queue)
        BY <1>7, <3>1 DEF QueuesReady, Ready
      <3>3. QED
        BY <1>2, <1>4, <1>7, <3>1, <3>2 DEF Seen
    <2>2. CASE q = r
      <3>1. ReadBagTypes(r)
        BY <1>1, <1>7, <2>2, OpSteps, JobPlaces DEF CallsKept, Op
      <3>2. queue = MissingBagTypes(RowsOf("bag_type")) /\ UNCHANGED <<rows, past>>
        BY <1>5, <1>7, <2>2, <3>1 DEF ReadBagTypes
      <3>3. Distinct(queue) /\ Apart(queue, saw, "bag_type") /\ CoversBagTypes(queue)
        BY <3>2, MissingBagTypesReady
      <3>4. QED
        BY <1>4, <3>2, <3>3 DEF Apart, Was
    <2>3. QED
      BY <2>1, <2>2
  <1>8. ASSUME NEW q \in Req, req'[q].call.op = "seed", req'[q].at = "grades",
               NEW queue, queue = req'[q].queue, NEW saw, saw = req'[q].saw
        PROVE  Distinct(queue) /\ Apart(queue, saw, "grade")' /\ CoversGrades(queue)'
    <2>1. CASE q # r
      <3>1. At(q, "seed", "grades") /\ req'[q] = req[q]
        BY <1>1, <1>8, <2>1 DEF CallsKept, At
      <3>2. Distinct(queue) /\ Apart(queue, saw, "grade") /\ CoversGrades(queue)
        BY <1>8, <3>1 DEF QueuesReady, Ready
      <3>3. QED
        BY <1>2, <1>4, <1>8, <3>1, <3>2 DEF Seen
    <2>2. CASE q = r
      <3>1. ReadGrades(r)
        BY <1>1, <1>8, <2>2, OpSteps, JobPlaces DEF CallsKept, Op
      <3>2. queue = MissingGrades(RowsOf("grade")) /\ UNCHANGED <<rows, past>>
        BY <1>5, <1>8, <2>2, <3>1 DEF ReadGrades
      <3>3. Distinct(queue) /\ Apart(queue, saw, "grade") /\ CoversGrades(queue)
        BY <3>2, MissingGradesReady
      <3>4. QED
        BY <1>4, <3>2, <3>3 DEF Apart, Was
    <2>3. QED
      BY <2>1, <2>2
  <1>9. QED
    BY <1>6, <1>7, <1>8 DEF QueuesReady, Ready, At, Apart, CoversBagTypes, CoversGrades, Distinct

\* What a job inserts is a row for each item of its queue, of one key each.
LEMMA JobInserts ==
    ASSUME TypeOK, Fresh, NEW r \in Req, NEW entity \in Entity, NEW at, Adds(r, entity),
           Inserts(r, entity, at), Distinct(req[r].queue)
    PROVE  /\ \A i \in DOMAIN rows' \ DOMAIN rows :
                 /\ i.by = r /\ i.entity = entity
                 /\ \E c \in req[r].queue : c.line = i.line /\ rows'[i].key = c.input.key
           /\ \A c \in req[r].queue : \E i \in DOMAIN rows' :
                 i.entity = entity /\ rows'[i].key = c.input.key /\ rows'[i].weight = c.input.weight
           /\ UNCHANGED past
           /\ req'[r].saw = req[r].saw /\ req'[r].queue = req[r].queue
  <1>1. req[r].queue \in SUBSET Item
    BY WorkFields
  <1> DEFINE queue == req[r].queue
  <1>2. InsertRows(r, entity, queue)
    BY DEF Inserts
  <1> HIDE DEF queue
  <1>3. DOMAIN rows' = DOMAIN rows \cup NewIds(r, entity, queue)
    BY <1>2 DEF InsertRows
  <1>4. ASSUME NEW i \in DOMAIN rows' \ DOMAIN rows
        PROVE  /\ i.by = r /\ i.entity = entity
               /\ \E c \in queue, time \in Moments : c.line = i.line /\ rows'[i] = RowOf(c.input, time)
    BY <1>1, <1>2, <1>4, InsertedRow DEF queue
  <1>5. \A input, time : RowOf(input, time).key = input.key /\ RowOf(input, time).weight = input.weight
    BY DEF RowOf
  <1>6. ASSUME NEW c \in queue
        PROVE  \E i \in DOMAIN rows' :
                  i.entity = entity /\ rows'[i].key = c.input.key /\ rows'[i].weight = c.input.weight
    <2> DEFINE i == [by |-> r, entity |-> entity, line |-> c.line]
    <2>1. i \in DOMAIN rows' /\ i.by = r /\ i.entity = entity /\ i.line = c.line
      BY <1>3 DEF NewIds
    <2>2. i \in Id
      BY <1>1 DEF Item, Id, queue
    <2>3. i \notin DOMAIN rows
      BY <2>1, <2>2, AddsOnce DEF Fresh
    <2> HIDE DEF i
    <2>4. PICK d \in queue, time \in Moments : d.line = i.line /\ rows'[i] = RowOf(d.input, time)
      BY <1>4, <2>1, <2>3
    <2>5. d = c
      BY <2>1, <2>4 DEF Distinct, queue
    <2>6. QED
      BY <1>5, <2>1, <2>4, <2>5
  <1>7. UNCHANGED past /\ req'[r].saw = req[r].saw /\ req'[r].queue = req[r].queue
    BY DEF Inserts, Goes, TypeOK, Work
  <1>8. QED
    BY <1>4, <1>5, <1>6, <1>7 DEF queue

\* The three inserts of jobs.
LEMMA JobAdds ==
    ASSUME TypeOK, QueuesReady, NEW r \in Req, NEW entity, Adds(r, entity), Job(r)
    PROVE  /\ entity \in Entity
           /\ \E at : Inserts(r, entity, at)
           /\ Distinct(req[r].queue) /\ Apart(req[r].queue, req[r].saw, entity)
  <1>1. ~Create(r, entity)
    BY DEF Create, At, Job
  <1>2. CASE InsertQueued(r) /\ req[r].call.entity = entity
    BY <1>2, WorkFields, CallFields DEF InsertQueued, At, QueuesReady, Ready
  <1>3. CASE InsertBagTypes(r) /\ entity = "bag_type"
    BY <1>3 DEF InsertBagTypes, QueuesReady, Ready, Entity
  <1>4. CASE InsertGrades(r) /\ entity = "grade"
    BY <1>4 DEF InsertGrades, QueuesReady, Ready, Entity
  <1>5. QED
    BY <1>1, <1>2, <1>3, <1>4 DEF Adds

LEMMA DuplicatesKept ==
    ASSUME TypeOK, TypeOK', Fresh, Seen, QueuesReady, DuplicatesOnlyByRace, NEW r \in Req, Step(r)
    PROVE  DuplicatesOnlyByRace'
  <1>1. RowsKept(r) /\ CallsKept(r)
    BY StepKeeps
  <1>2. \A q \in Req : Job(q)' <=> Job(q)
    BY <1>1 DEF Job, CallsKept
  <1>3. DOMAIN rows \subseteq Id /\ DOMAIN rows' \subseteq Id
    BY DEF TypeOK, IsTable
  <1>4. ASSUME NEW i \in DOMAIN rows', NEW j \in DOMAIN rows',
               i # j, i.entity = j.entity, rows'[i].key = rows'[j].key,
               Was(i)' = {}, Was(j)' = {}, j.by \in Req, Job(j.by)
        PROVE  i.by # j.by /\ i \notin req'[j.by].saw
    <2>1. /\ ~Past(i) /\ Was(i) = {} /\ (i \in DOMAIN rows => rows'[i] = rows[i])
          /\ ~Past(j) /\ Was(j) = {} /\ (j \in DOMAIN rows => rows'[j] = rows[j])
      BY <1>1, <1>4, UnchangedRows
    <2>2. CASE i \in DOMAIN rows /\ j \in DOMAIN rows
      <3>1. i.by # j.by /\ i \notin req[j.by].saw
        BY <1>4, <2>1, <2>2 DEF DuplicatesOnlyByRace, Twins
      <3>2. CASE req'[j.by].saw = req[j.by].saw
        BY <3>1, <3>2
      <3>3. CASE req'[j.by].saw # req[j.by].saw
        <4>1. j.by = r
          BY <1>1, <1>4, <3>3 DEF CallsKept
        <4>2. ~(\E entity : Count(r, entity))
          BY <1>4, <4>1 DEF Count, At, Job
        <4>3. ReadKeys(r) \/ ReadBagTypes(r) \/ ReadGrades(r)
          BY <3>3, <4>1, <4>2, SawKept
        <4>4. Inserted(r, j.entity)
          BY <1>3, <1>4, <2>2, <4>1 DEF Fresh
        <4>5. ReadGrades(r) /\ j.entity = "bag_type"
          BY <4>3, <4>4, JobPlaces DEF Inserted, At, Op, Place
        <4>6. req'[r].saw = req[r].saw \cup IdsOf("grade")
          BY <4>5 DEF ReadGrades, Queues, TypeOK, Work
        <4>7. i \notin IdsOf("grade")
          BY <1>4, <4>5 DEF IdsOf
        <4>8. QED
          BY <3>1, <4>1, <4>6, <4>7
      <3>4. QED
        BY <3>2, <3>3
    <2>3. CASE j \notin DOMAIN rows
      <3>1. j.by = r /\ j.entity \in Entity /\ Adds(r, j.entity)
        BY <1>4, <2>3, NewRows
      <3> DEFINE entity == j.entity
      <3>2. PICK at : Inserts(r, entity, at)
        BY <1>4, <3>1, JobAdds
      <3>3. Distinct(req[r].queue) /\ Apart(req[r].queue, req[r].saw, entity)
        BY <1>4, <3>1, JobAdds
      <3>4. /\ \A k \in DOMAIN rows' \ DOMAIN rows :
                  /\ k.by = r
                  /\ \E c \in req[r].queue : c.line = k.line /\ rows'[k].key = c.input.key
            /\ req'[r].saw = req[r].saw
        BY <3>1, <3>2, <3>3, JobInserts
      <3>5. i \in DOMAIN rows
        <4>1. ASSUME i \notin DOMAIN rows PROVE FALSE
          <5>1. i.line = j.line
            BY <1>4, <2>3, <3>3, <3>4, <4>1 DEF Distinct
          <5>2. i.by = j.by
            BY <3>1, <3>4, <4>1, <1>4
          <5>3. QED
            BY <1>3, <1>4, <5>1, <5>2 DEF Id
        <4>2. QED
          BY <4>1
      <3>6. i.by # r
        BY <1>3, <1>4, <3>1, <3>5, AddsOnce DEF Fresh
      <3>7. i \notin req[r].saw
        BY <1>4, <2>1, <2>3, <3>3, <3>4, <3>5 DEF Apart
      <3>8. QED
        BY <3>1, <3>4, <3>6, <3>7
    <2>4. CASE j \in DOMAIN rows /\ i \notin DOMAIN rows
      <3>1. i.by = r /\ Adds(r, i.entity)
        BY <1>4, <2>4, NewRows
      <3>2. j.by # r
        BY <1>3, <1>4, <2>4, <3>1, AddsOnce DEF Fresh
      <3>3. i \notin req[j.by].saw
        BY <1>4, <2>1, <2>4 DEF Seen
      <3>4. QED
        BY <1>1, <1>4, <3>1, <3>2, <3>3 DEF CallsKept
    <2>5. QED
      BY <2>2, <2>3, <2>4
  <1>5. ASSUME NEW i \in DOMAIN rows', NEW j \in DOMAIN rows', Twins(i, j)', Job(j.by)'
        PROVE  i.by # j.by /\ i \notin req'[j.by].saw
    <2>1. /\ i # j /\ i.entity = j.entity /\ rows'[i].key = rows'[j].key
          /\ Was(i)' = {} /\ Was(j)' = {}
      BY <1>5 DEF Twins
    <2>2. j.by \in Req /\ Job(j.by)
      BY <1>2, <1>5 DEF Job
    <2>3. QED
      BY <1>4, <2>1, <2>2
  <1>6. QED
    BY <1>5 DEF DuplicatesOnlyByRace

LEMMA StandardsKept ==
    ASSUME TypeOK, Fresh, QueuesReady, StandardsPresent, NEW r \in Req, Step(r)
    PROVE  StandardsPresent'
  <1>1. RowsKept(r) /\ CallsKept(r)
    BY StepKeeps
  <1>2. \A n : (BagTypeKnown(n) => BagTypeKnown(n)') /\ (GradeKnown(n) => GradeKnown(n)')
    BY <1>1, HistoryGrows DEF BagTypeKnown, GradeKnown
  <1>3. ASSUME NEW entity, NEW i \in DOMAIN rows', i.entity = entity PROVE rows'[i] \in Known(entity)'
    BY <1>3 DEF Known, RowsOf, IdsOf
  <1>4. ASSUME InsertBagTypes(r), NEW n \in DOMAIN StandardBagTypes PROVE BagTypeKnown(n)'
    <2>1. Inserts(r, "bag_type", "seeded") /\ Adds(r, "bag_type") /\ At(r, "seed", "bag_types")
      BY <1>4 DEF InsertBagTypes, Adds
    <2>2. Distinct(req[r].queue) /\ CoversBagTypes(req[r].queue)
      BY <2>1 DEF QueuesReady, Ready
    <2>3. CASE BagTypeKnown(n)
      BY <1>2, <2>3
    <2>4. ASSUME NEW c \in req[r].queue, SameBagType(c.input, StandardBagTypes[n])
          PROVE  BagTypeKnown(n)'
      <3>1. PICK i \in DOMAIN rows' : /\ i.entity = "bag_type"
                                      /\ rows'[i].key = c.input.key /\ rows'[i].weight = c.input.weight
        BY <2>1, <2>2, JobInserts DEF Entity
      <3>2. rows'[i] \in Known("bag_type")' /\ SameBagType(rows'[i], StandardBagTypes[n])
        BY <1>3, <2>4, <3>1 DEF SameBagType
      <3>3. QED
        BY <3>2 DEF BagTypeKnown
    <2>5. QED
      BY <2>2, <2>3, <2>4 DEF CoversBagTypes
  <1>5. ASSUME InsertGrades(r), NEW n \in DOMAIN StandardGrades PROVE GradeKnown(n)'
    <2>1. Inserts(r, "grade", "done") /\ Adds(r, "grade") /\ At(r, "seed", "grades")
      BY <1>5 DEF InsertGrades, Adds
    <2>2. Distinct(req[r].queue) /\ CoversGrades(req[r].queue)
      BY <2>1 DEF QueuesReady, Ready
    <2>3. CASE GradeKnown(n)
      BY <1>2, <2>3
    <2>4. ASSUME NEW c \in req[r].queue, c.input.key = StandardGrades[n]
          PROVE  GradeKnown(n)'
      <3>1. PICK i \in DOMAIN rows' : i.entity = "grade" /\ rows'[i].key = c.input.key
        BY <2>1, <2>2, JobInserts DEF Entity
      <3>2. rows'[i] \in Known("grade")' /\ rows'[i].key = StandardGrades[n]
        BY <1>3, <2>4, <3>1
      <3>3. QED
        BY <3>2 DEF GradeKnown
    <2>5. QED
      BY <2>2, <2>3, <2>4 DEF CoversGrades
  <1>6. ASSUME NEW q \in Req, req'[q].call.op = "seed", req'[q].at \in {"seeded", "grades", "done"},
               NEW n \in DOMAIN StandardBagTypes
        PROVE  BagTypeKnown(n)'
    <2>1. CASE q = r /\ InsertBagTypes(r)
      BY <1>4, <2>1
    <2>2. CASE q # r \/ ~InsertBagTypes(r)
      <3>1. req[q].call.op = "seed" /\ req[q].at \in {"seeded", "grades", "done"}
        BY <1>1, <1>6, <2>2, OpSteps, JobPlaces DEF CallsKept, Op, Place, At
      <3>2. QED
        BY <1>2, <3>1 DEF StandardsPresent, BagTypeKnown
    <2>3. QED
      BY <2>1, <2>2
  <1>7. ASSUME NEW q \in Req, req'[q].call.op = "seed", req'[q].at = "done", NEW n \in DOMAIN StandardGrades
        PROVE  GradeKnown(n)'
    <2>1. CASE q = r /\ InsertGrades(r)
      BY <1>5, <2>1
    <2>2. CASE q # r \/ ~InsertGrades(r)
      <3>1. req[q].call.op = "seed" /\ req[q].at = "done"
        BY <1>1, <1>7, <2>2, OpSteps, JobPlaces DEF CallsKept, Op, Place, At
      <3>2. QED
        BY <1>2, <3>1 DEF StandardsPresent, GradeKnown
    <2>3. QED
      BY <2>1, <2>2
  <1>8. QED
    BY <1>6, <1>7 DEF StandardsPresent, BagTypeKnown, GradeKnown

------------------------------------------------------------------------------
\* Pages of a list

\* The rows newer than those of statement t, the rows it created, and the places
\* they have in a list, newest first; the places on a page.
NewerThan(table, listed, t) == {j \in listed : table[j].created > t}
CreatedAt(table, listed, t) == {j \in listed : table[j].created = t}
PlacesOf(table, listed, t) ==
    Cardinality(NewerThan(table, listed, t)) + 1 ..
        Cardinality(NewerThan(table, listed, t)) + Cardinality(CreatedAt(table, listed, t))
PageWindow(page) == Offset(page) + 1 .. Offset(page) + PageSize

\* A set of numbers has a smallest.
LEMMA SmallestOf ==
    ASSUME NEW S \in SUBSET Nat, S # {}
    PROVE  \E m \in S : \A k \in S : m <= k
  <1>1. PICK m \in S : \A k \in S : <<k, m>> \notin OpToRel(<, Nat)
    BY WFMin, NatLessThanWellFounded, Zenon
  <1>2. \A k \in S : ~(k < m)
    BY <1>1, Zenon DEF OpToRel
  <1>3. QED
    BY <1>2

\* Division by the size of a page, and its multiples.
LEMMA Quotient ==
    ASSUME NEW a \in Int, NEW d \in Nat \ {0}
    PROVE  a \div d \in Int /\ d * (a \div d) <= a /\ a < d * (a \div d) + d
  BY SMT

LEMMA Multiples ==
    ASSUME NEW a \in Int, NEW b \in Int, a <= b
    PROVE  PageSize * a <= PageSize * b /\ PageSize * a \in Int /\ PageSize * b \in Int
  BY SizesAssumption, SMT

LEMMA NextMultiple ==
    ASSUME NEW a \in Int
    PROVE  PageSize * (a + 1) = PageSize * a + PageSize /\ PageSize * (a - 1) = PageSize * a - PageSize
  BY SizesAssumption, SMT

LEMMA OffsetIs ==
    ASSUME NEW n \in Int
    PROVE  Offset(n) = PageSize * (n - 1) /\ Offset(n) \in Int /\ Offset(n + 1) = Offset(n) + PageSize
  <1>1. Offset(n) = PageSize * (n - 1) /\ Offset(n + 1) = PageSize * n
    BY SizesAssumption, SMT DEF Offset
  <1>2. PageSize * (n - 1) \in Int /\ PageSize * (n - 1) = PageSize * n - PageSize /\ PageSize * n \in Int
    BY NextMultiple, Multiples
  <1>3. QED
    BY <1>1, <1>2, SizesAssumption

\* No place is on two pages ...
LEMMA PagesApart ==
    ASSUME NEW m \in Int, NEW n \in Int, m < n
    PROVE  PageWindow(m) \cap PageWindow(n) = {}
  <1>1. PageSize * m <= PageSize * (n - 1) /\ PageSize * m \in Int /\ PageSize * (n - 1) \in Int
    BY Multiples
  <1>2. Offset(m + 1) = PageSize * m
    <2>1. Offset(m + 1) = PageSize * ((m + 1) - 1)
      BY OffsetIs
    <2>2. QED
      BY <2>1
  <1>3. Offset(m) + PageSize <= Offset(n) /\ Offset(m) \in Int /\ Offset(n) \in Int
    BY <1>1, <1>2, OffsetIs
  <1>4. QED
    BY <1>3, SizesAssumption DEF PageWindow

\* ... and every place of the list is on one.
LEMMA PagesCover ==
    ASSUME NEW N \in Nat, NEW v \in 1..N
    PROVE  \E n \in 1..TotalPages(N) : v \in PageWindow(n)
  <1> DEFINE q == (v - 1) \div PageSize
             k == (N + PageSize - 1) \div PageSize
  <1>1. q \in Int /\ PageSize * q <= v - 1 /\ v - 1 < PageSize * q + PageSize
    BY Quotient, SizesAssumption
  <1>2. k \in Int /\ PageSize * k <= N + PageSize - 1 /\ N + PageSize - 1 < PageSize * k + PageSize
    BY Quotient, SizesAssumption
  <1>3. TotalPages(N) = IF k = 0 THEN 1 ELSE k
    BY DEF TotalPages
  <1> HIDE DEF q, k
  <1>4. q >= 0
    <2> SUFFICES ASSUME q + 1 <= 0 PROVE FALSE
      BY <1>1
    <2>1. PageSize * (q + 1) <= PageSize * 0 /\ PageSize * 0 = 0
      BY <1>1, Multiples, SizesAssumption
    <2>2. QED
      BY <1>1, <2>1, NextMultiple, Multiples
  <1>5. q + 1 <= k
    <2> SUFFICES ASSUME k <= q PROVE FALSE
      BY <1>1, <1>2
    <2>1. PageSize * k <= PageSize * q /\ PageSize * k \in Int /\ PageSize * q \in Int
      BY <1>1, <1>2, Multiples
    <2>2. QED
      BY <1>1, <1>2, <2>1, SizesAssumption
  <1>6. q + 1 \in 1..TotalPages(N)
    BY <1>1, <1>2, <1>3, <1>4, <1>5
  <1>7. Offset(q + 1) = PageSize * q /\ PageSize * q \in Int
    <2>1. Offset(q + 1) = PageSize * ((q + 1) - 1)
      BY <1>1, OffsetIs
    <2>2. QED
      BY <1>1, <2>1, Multiples
  <1>8. v \in PageWindow(q + 1)
    BY <1>1, <1>7, SizesAssumption DEF PageWindow
  <1>9. QED
    BY <1>6, <1>8

\* A finite list whose rows came with statements up to the last.
Stamped(table, listed, last) ==
    /\ IsFiniteSet(listed)
    /\ last \in Nat
    /\ \A i \in listed : table[i].created \in 0..last

\* What is newer than the statement before is newer or of this statement.
LEMMA NewerCount ==
    ASSUME NEW table, NEW listed, NEW last, Stamped(table, listed, last), NEW t \in Int
    PROVE  /\ IsFiniteSet(NewerThan(table, listed, t)) /\ Cardinality(NewerThan(table, listed, t)) \in Nat
           /\ IsFiniteSet(CreatedAt(table, listed, t)) /\ Cardinality(CreatedAt(table, listed, t)) \in Nat
           /\ Cardinality(NewerThan(table, listed, t - 1))
                 = Cardinality(NewerThan(table, listed, t)) + Cardinality(CreatedAt(table, listed, t))
           /\ Cardinality(NewerThan(table, listed, t - 1)) <= Cardinality(listed)
           /\ Cardinality(listed) \in Nat
  <1> DEFINE newer == NewerThan(table, listed, t)
             at == CreatedAt(table, listed, t)
             older == NewerThan(table, listed, t - 1)
  <1>1. newer \in SUBSET listed /\ at \in SUBSET listed /\ older \in SUBSET listed
    BY DEF NewerThan, CreatedAt
  <1>2. newer \cap at = {}
    BY DEF NewerThan, CreatedAt, Stamped
  <1>3. older = newer \cup at
    BY DEF NewerThan, CreatedAt, Stamped
  <1> HIDE DEF newer, at, older
  <1>4. IsFiniteSet(newer) /\ IsFiniteSet(at) /\ Cardinality(older) <= Cardinality(listed)
    BY <1>1, FS_Subset DEF Stamped
  <1>5. Cardinality(newer) \in Nat /\ Cardinality(at) \in Nat /\ Cardinality(listed) \in Nat
    BY <1>4, FS_CardinalityType DEF Stamped
  <1>6. Cardinality(newer \cap at) = 0
    BY <1>2, FS_EmptySet
  <1>7. Cardinality(newer \cup at) = Cardinality(newer) + Cardinality(at) - Cardinality(newer \cap at)
    BY <1>4, FS_Union
  <1>8. Cardinality(older) = Cardinality(newer \cup at)
    BY <1>3, Zenon
  <1>9. Cardinality(older) = Cardinality(newer) + Cardinality(at)
    BY <1>5, <1>6, <1>7, <1>8
  <1>10. QED
    BY <1>4, <1>5, <1>9 DEF newer, at, older

\* Fewer rows are newer than a later statement.
LEMMA NewerMonotone ==
    ASSUME NEW table, NEW listed, NEW last, Stamped(table, listed, last),
           NEW t \in Int, NEW u \in Int, t <= u
    PROVE  Cardinality(NewerThan(table, listed, u)) <= Cardinality(NewerThan(table, listed, t))
  <1>1. NewerThan(table, listed, u) \in SUBSET NewerThan(table, listed, t)
    BY DEF NewerThan, Stamped
  <1>2. IsFiniteSet(NewerThan(table, listed, t))
    BY NewerCount
  <1>3. QED
    BY <1>1, <1>2, FS_Subset

\* Rows of two statements have different places ...
LEMMA PlacesApart ==
    ASSUME NEW table, NEW listed, NEW last, Stamped(table, listed, last),
           NEW t \in Int, NEW u \in Int, t < u
    PROVE  PlacesOf(table, listed, t) \cap PlacesOf(table, listed, u) = {}
  <1>1. Cardinality(NewerThan(table, listed, u - 1)) <= Cardinality(NewerThan(table, listed, t))
    BY NewerMonotone
  <1>2. /\ Cardinality(NewerThan(table, listed, u - 1))
              = Cardinality(NewerThan(table, listed, u)) + Cardinality(CreatedAt(table, listed, u))
        /\ Cardinality(NewerThan(table, listed, u)) \in Nat
        /\ Cardinality(CreatedAt(table, listed, u)) \in Nat
        /\ Cardinality(NewerThan(table, listed, t)) \in Nat
        /\ Cardinality(CreatedAt(table, listed, t)) \in Nat
    BY NewerCount
  <1>3. QED
    BY <1>1, <1>2 DEF PlacesOf

\* ... and every place of the list belongs to a row.
LEMMA PlacesCover ==
    ASSUME NEW table, NEW listed, NEW last, Stamped(table, listed, last),
           NEW v \in 1..Cardinality(listed)
    PROVE  \E t \in 0..last : v \in PlacesOf(table, listed, t)
  <1> DEFINE below == {t \in Nat : Cardinality(NewerThan(table, listed, t)) < v}
  <1>1. last \in below
    <2>1. NewerThan(table, listed, last) = {}
      BY DEF NewerThan, Stamped
    <2>2. Cardinality(NewerThan(table, listed, last)) = 0
      BY <2>1, FS_EmptySet
    <2>3. QED
      BY <2>2 DEF Stamped
  <1>2. PICK t \in below : \A k \in below : t <= k
    BY <1>1, SmallestOf
  <1>3. t \in 0..last
    BY <1>1, <1>2
  <1>4. v <= Cardinality(NewerThan(table, listed, t - 1))
    <2>1. CASE t = 0
      <3>1. NewerThan(table, listed, t - 1) = listed
        BY <2>1 DEF NewerThan, Stamped
      <3>2. Cardinality(NewerThan(table, listed, t - 1)) = Cardinality(listed)
        BY <3>1, Zenon
      <3>3. QED
        BY <3>2
    <2>2. CASE t > 0
      <3>1. t - 1 \in Nat /\ t - 1 \notin below
        BY <1>2, <2>2
      <3>2. Cardinality(NewerThan(table, listed, t - 1)) \in Nat
        BY <3>1, NewerCount
      <3>3. QED
        BY <3>1, <3>2
    <2>3. QED
      BY <1>2, <2>1, <2>2
  <1>5. Cardinality(NewerThan(table, listed, t)) < v
    BY <1>2
  <1>6. v \in PlacesOf(table, listed, t)
    BY <1>2, <1>4, <1>5, NewerCount DEF PlacesOf
  <1>7. QED
    BY <1>3, <1>6

\* A page answers as many rows of a statement as it has places of them.
LEMMA AnswerCounts ==
    ASSUME NEW table, NEW listed, NEW last, Stamped(table, listed, last),
           NEW page \in Int, NEW answer \in Pages(table, listed, page), NEW t \in 0..last
    PROVE  Cardinality(answer \cap CreatedAt(table, listed, t))
              = Cardinality(PageWindow(page) \cap PlacesOf(table, listed, t))
  <1>1. CASE CreatedAt(table, listed, t) = {}
    <2>1. Cardinality(CreatedAt(table, listed, t)) = 0
      BY <1>1, FS_EmptySet
    <2>2. PlacesOf(table, listed, t) = {}
      BY <2>1, NewerCount DEF PlacesOf
    <2>3. answer \cap CreatedAt(table, listed, t) = PageWindow(page) \cap PlacesOf(table, listed, t)
      BY <1>1, <2>2
    <2>4. QED
      BY <2>3, Zenon
  <1>2. ASSUME NEW i \in CreatedAt(table, listed, t)
        PROVE  Cardinality(answer \cap CreatedAt(table, listed, t))
                  = Cardinality(PageWindow(page) \cap PlacesOf(table, listed, t))
    <2>1. i \in listed /\ table[i].created = t
      BY <1>2 DEF CreatedAt
    <2> DEFINE newer == {j \in listed : table[j].created > table[i].created}
               tied == {j \in listed : table[j].created = table[i].created}
               places == Cardinality(newer) + 1 .. Cardinality(newer) + Cardinality(tied)
               window == Offset(page) + 1 .. Offset(page) + PageSize
    <2>2. Cardinality(answer \cap tied) = Cardinality(window \cap places)
      BY <2>1 DEF Pages
    <2>3. newer = NewerThan(table, listed, t) /\ tied = CreatedAt(table, listed, t)
      BY <2>1 DEF NewerThan, CreatedAt
    <2>4. window = PageWindow(page)
      BY DEF PageWindow
    <2> HIDE DEF newer, tied, window
    <2>5. places = PlacesOf(table, listed, t)
      BY <2>3, Zenon DEF PlacesOf
    <2> HIDE DEF places
    <2>6. QED
      BY <2>2, <2>3, <2>4, <2>5, Zenon
  <1>3. QED
    BY <1>1, <1>2

\* A walk through all pages of an unchanged list.
Walked(table, listed, last, pages) ==
    /\ Stamped(table, listed, last)
    /\ DOMAIN pages = 1..TotalPages(Cardinality(listed))
    /\ \A n \in DOMAIN pages : pages[n] \in Pages(table, listed, n)

\* What the definition of a page says of each, with the sets known to be finite.
LEMMA WalkFacts ==
    ASSUME NEW table, NEW listed, NEW last, NEW pages, Walked(table, listed, last, pages)
    PROVE  /\ \A n \in DOMAIN pages : n \in Int /\ pages[n] \in SUBSET listed
           /\ \A n \in DOMAIN pages, t \in 0..last :
                 /\ IsFiniteSet(pages[n] \cap CreatedAt(table, listed, t))
                 /\ IsFiniteSet(PageWindow(n) \cap PlacesOf(table, listed, t))
                 /\ Cardinality(pages[n] \cap CreatedAt(table, listed, t))
                       = Cardinality(PageWindow(n) \cap PlacesOf(table, listed, t))
  <1>1. ASSUME NEW n \in DOMAIN pages PROVE n \in Int /\ pages[n] \in SUBSET listed
    BY DEF Walked, Pages
  <1>2. ASSUME NEW n \in DOMAIN pages, NEW t \in 0..last
        PROVE  /\ IsFiniteSet(pages[n] \cap CreatedAt(table, listed, t))
               /\ IsFiniteSet(PageWindow(n) \cap PlacesOf(table, listed, t))
               /\ Cardinality(pages[n] \cap CreatedAt(table, listed, t))
                     = Cardinality(PageWindow(n) \cap PlacesOf(table, listed, t))
    <2>1. IsFiniteSet(CreatedAt(table, listed, t))
      BY NewerCount DEF Walked
    <2>2. IsFiniteSet(pages[n] \cap CreatedAt(table, listed, t))
      BY <2>1, FS_Intersection
    <2>3. n \in Int /\ Offset(n) \in Int
      BY <1>1, OffsetIs
    <2>4. IsFiniteSet(PageWindow(n))
      BY <2>3, FS_Interval, SizesAssumption DEF PageWindow
    <2>5. IsFiniteSet(PageWindow(n) \cap PlacesOf(table, listed, t))
      BY <2>4, FS_Intersection
    <2>6. Cardinality(pages[n] \cap CreatedAt(table, listed, t))
             = Cardinality(PageWindow(n) \cap PlacesOf(table, listed, t))
      BY <2>3, AnswerCounts DEF Walked
    <2>7. QED
      BY <2>2, <2>5, <2>6
  <1>3. QED
    BY <1>1, <1>2

\* The walk gets as many rows as the list has: one for every place.
LEMMA WalkCounts ==
    ASSUME NEW table, NEW listed, NEW last, NEW pages, Walked(table, listed, last, pages)
    PROVE  Cardinality(Received(pages)) = Cardinality(listed)
  <1> DEFINE N == Cardinality(listed)
             at(t) == CreatedAt(table, listed, t)
             places(t) == PlacesOf(table, listed, t)
             paired(n, t) == CHOOSE f : f \in Bijection(pages[n] \cap at(t), PageWindow(n) \cap places(t))
             place == [e \in Received(pages) |-> paired(e[1], table[e[2]].created)[e[2]]]
  <1>1. N \in Nat /\ IsFiniteSet(listed)
    BY FS_CardinalityType DEF Walked, Stamped
  <1>2. ASSUME NEW n \in DOMAIN pages, NEW t \in 0..last
        PROVE  paired(n, t) \in Bijection(pages[n] \cap at(t), PageWindow(n) \cap places(t))
    <2>1. ExistsBijection(pages[n] \cap at(t), PageWindow(n) \cap places(t))
      BY WalkFacts, FS_SameCardinalityBij
    <2>2. QED
      BY <2>1 DEF ExistsBijection
  <1>3. ASSUME NEW n \in DOMAIN pages, NEW i \in pages[n]
        PROVE  /\ table[i].created \in 0..last
               /\ i \in pages[n] \cap at(table[i].created)
    BY WalkFacts DEF Walked, Stamped, CreatedAt
  <1>4. ASSUME NEW t \in 0..last PROVE places(t) \subseteq 1..N
    <2>1. /\ Cardinality(NewerThan(table, listed, t)) \in Nat
          /\ Cardinality(CreatedAt(table, listed, t)) \in Nat
          /\ Cardinality(NewerThan(table, listed, t)) + Cardinality(CreatedAt(table, listed, t)) <= N
      BY NewerCount DEF Walked
    <2>2. QED
      BY <1>1, <2>1 DEF PlacesOf
  <1>5. ASSUME NEW e \in Received(pages)
        PROVE  /\ e[1] \in DOMAIN pages /\ e[2] \in pages[e[1]] /\ e = <<e[1], e[2]>>
               /\ place[e] = paired(e[1], table[e[2]].created)[e[2]]
               /\ place[e] \in PageWindow(e[1]) \cap places(table[e[2]].created)
    <2>1. e[1] \in DOMAIN pages /\ e[2] \in pages[e[1]] /\ e = <<e[1], e[2]>>
      BY DEF Received
    <2>2. place[e] = paired(e[1], table[e[2]].created)[e[2]]
      OBVIOUS
    <2> DEFINE t == table[e[2]].created
    <2>3. t \in 0..last /\ e[2] \in pages[e[1]] \cap at(t)
      BY <1>3, <2>1
    <2>4. paired(e[1], t) \in Bijection(pages[e[1]] \cap at(t), PageWindow(e[1]) \cap places(t))
      BY <1>2, <2>1, <2>3
    <2> HIDE DEF t, paired, at, places, place
    <2>5. paired(e[1], t)[e[2]] \in PageWindow(e[1]) \cap places(t)
      BY <2>3, <2>4 DEF Bijection, Injection, Surjection
    <2>6. QED
      BY <2>1, <2>2, <2>5 DEF t
  <1> HIDE DEF place, paired, at, places
  <1>6. place \in [Received(pages) -> 1..N]
    <2>1. \A e \in Received(pages) : place[e] \in 1..N
      BY <1>3, <1>4, <1>5
    <2>2. QED
      BY <2>1 DEF place
  <1>7. ASSUME NEW d \in Received(pages), NEW e \in Received(pages), place[d] = place[e]
        PROVE  d = e
    <2>1. d[1] = e[1]
      <3>1. d[1] \in Int /\ e[1] \in Int
        BY <1>5, WalkFacts
      <3>2. place[d] \in PageWindow(d[1]) \cap PageWindow(e[1])
        BY <1>5, <1>7
      <3>3. ~(d[1] < e[1])
        BY <3>1, <3>2, PagesApart
      <3>4. ~(e[1] < d[1])
        BY <3>1, <3>2, PagesApart
      <3>5. QED
        BY <3>1, <3>3, <3>4
    <2> DEFINE t == table[d[2]].created
               u == table[e[2]].created
    <2>2. t \in 0..last /\ u \in 0..last
      BY <1>3, <1>5
    <2>3. t = u
      <3>1. place[d] \in PlacesOf(table, listed, t) \cap PlacesOf(table, listed, u)
        BY <1>5, <1>7 DEF places
      <3>2. t \in Int /\ u \in Int
        BY <2>2
      <3>3. ~(t < u) /\ ~(u < t)
        BY <3>1, <3>2, PlacesApart DEF Walked
      <3>4. QED
        BY <3>2, <3>3
    <2>4. d[2] \in pages[d[1]] \cap at(t) /\ e[2] \in pages[d[1]] \cap at(t)
      BY <1>3, <1>5, <2>1, <2>3
    <2>5. paired(d[1], t) \in Injection(pages[d[1]] \cap at(t), PageWindow(d[1]) \cap places(t))
      BY <1>2, <1>5, <2>2 DEF Bijection
    <2>6. paired(d[1], t)[d[2]] = paired(d[1], t)[e[2]]
      BY <1>5, <1>7, <2>1, <2>3
    <2> HIDE DEF t, u
    <2>7. d[2] = e[2]
      BY <2>4, <2>5, <2>6 DEF Injection, IsInjective
    <2>8. QED
      BY <1>5, <2>1, <2>7
  <1>8. ASSUME NEW v \in 1..N PROVE \E e \in Received(pages) : place[e] = v
    <2>1. PICK n \in DOMAIN pages : v \in PageWindow(n)
      BY <1>1, PagesCover DEF Walked
    <2>2. PICK t \in 0..last : v \in places(t)
      BY PlacesCover DEF Walked, places
    <2>3. paired(n, t) \in Surjection(pages[n] \cap at(t), PageWindow(n) \cap places(t))
      BY <1>2 DEF Bijection
    <2>4. PICK i \in pages[n] \cap at(t) : paired(n, t)[i] = v
      BY <2>1, <2>2, <2>3 DEF Surjection
    <2>5. <<n, i>> \in Received(pages)
      BY <2>4 DEF Received
    <2>6. table[i].created = t
      BY <2>4 DEF at, CreatedAt
    <2>7. place[<<n, i>>] = v
      BY <1>5, <2>4, <2>5, <2>6
    <2>8. QED
      BY <2>5, <2>7
  <1>9. place \in Injection(Received(pages), 1..N) /\ place \in Surjection(Received(pages), 1..N)
    BY <1>6, <1>7, <1>8 DEF Injection, IsInjective, Surjection
  <1>10. IsFiniteSet(1..N) /\ Cardinality(1..N) = N
    BY <1>1, FS_Interval
  <1>11. QED
    BY <1>9, <1>10, FS_Injection

\* A row that shares its time with no other is on one of the pages.
LEMMA LoneRowOnce ==
    ASSUME NEW table, NEW listed, NEW last, NEW pages, Walked(table, listed, last, pages),
           NEW i \in listed, \A j \in listed : table[j].created = table[i].created => j = i
    PROVE  Cardinality(PagesWith(i, pages)) = 1
  <1> DEFINE t == table[i].created
             first == Cardinality(NewerThan(table, listed, t)) + 1
  <1>1. t \in 0..last
    BY DEF Walked, Stamped
  <1>2. CreatedAt(table, listed, t) = {i}
    BY DEF CreatedAt
  <1>3. Cardinality(CreatedAt(table, listed, t)) = 1
    BY <1>2, FS_Singleton
  <1> HIDE DEF t
  <1>4. /\ Cardinality(NewerThan(table, listed, t)) \in Nat
        /\ Cardinality(NewerThan(table, listed, t)) + 1 <= Cardinality(listed)
        /\ Cardinality(listed) \in Nat
    BY <1>1, <1>3, NewerCount DEF Walked
  <1>5. PlacesOf(table, listed, t) = {first} /\ first \in 1..Cardinality(listed)
    BY <1>3, <1>4 DEF PlacesOf
  <1> HIDE DEF first
  <1>6. PICK n \in DOMAIN pages : first \in PageWindow(n)
    BY <1>4, <1>5, PagesCover DEF Walked
  <1>7. i \in pages[n]
    <2>1. PageWindow(n) \cap PlacesOf(table, listed, t) = {first}
      BY <1>5, <1>6
    <2>2. Cardinality(PageWindow(n) \cap PlacesOf(table, listed, t)) = 1
      BY <2>1, FS_Singleton
    <2>3. Cardinality(pages[n] \cap CreatedAt(table, listed, t)) = 1
      BY <1>1, <2>2, WalkFacts
    <2>4. ASSUME i \notin pages[n] PROVE FALSE
      <3>1. pages[n] \cap CreatedAt(table, listed, t) = {}
        BY <1>2, <2>4
      <3>2. Cardinality(pages[n] \cap CreatedAt(table, listed, t)) = Cardinality({})
        BY <3>1, Zenon
      <3>3. QED
        BY <2>3, <3>2, FS_EmptySet
    <2>5. QED
      BY <2>4
  <1>8. ASSUME NEW m \in DOMAIN pages, i \in pages[m] PROVE m = n
    <2>1. pages[m] \cap CreatedAt(table, listed, t) = {i}
      BY <1>2, <1>8
    <2>2. Cardinality(pages[m] \cap CreatedAt(table, listed, t)) = 1
      BY <2>1, FS_Singleton
    <2>3. Cardinality(PageWindow(m) \cap PlacesOf(table, listed, t)) = 1
      <3>1. Cardinality(pages[m] \cap CreatedAt(table, listed, t))
               = Cardinality(PageWindow(m) \cap PlacesOf(table, listed, t))
        BY <1>1, WalkFacts
      <3>2. QED
        BY <2>2, <3>1, Zenon
    <2>4. ASSUME first \notin PageWindow(m) PROVE FALSE
      <3>1. PageWindow(m) \cap PlacesOf(table, listed, t) = {}
        BY <1>5, <2>4
      <3>2. Cardinality(PageWindow(m) \cap PlacesOf(table, listed, t)) = Cardinality({})
        BY <3>1, Zenon
      <3>3. QED
        BY <2>3, <3>2, FS_EmptySet
    <2>5. m \in Int /\ n \in Int
      BY WalkFacts
    <2>6. ~(m < n)
      BY <1>6, <2>4, <2>5, PagesApart
    <2>7. ~(n < m)
      BY <1>6, <2>4, <2>5, PagesApart
    <2>8. QED
      BY <2>5, <2>6, <2>7
  <1>9. PagesWith(i, pages) = {n}
    BY <1>7, <1>8 DEF PagesWith
  <1>10. Cardinality(PagesWith(i, pages)) = Cardinality({n})
    BY <1>9, Zenon
  <1>11. QED
    BY <1>10, FS_Singleton

------------------------------------------------------------------------------
\* Walks through a list

\* No row has a time to come.
Dated == \A i \in DOMAIN rows : rows[i].created <= clock

\* A step changes the rows in one of three ways, or not at all.
Alters(r) ==
    \/ /\ UNCHANGED <<rows, clock>>
    \/ /\ \E entity \in Entity : \E items \in SUBSET Item : InsertRows(r, entity, items)
       /\ req[r].call.op # "list"
    \/ /\ \E id \in DOMAIN rows : \E input :
              rows' = [rows EXCEPT ![id] = RowOf(input, rows[id].created)]
       /\ clock' = clock + 1 /\ req[r].call.op # "list"
    \/ /\ \E id \in DOMAIN rows : rows' = [i \in DOMAIN rows \ {id} |-> rows[i]]
       /\ clock' = clock + 1 /\ req[r].call.op # "list"

\* The second to fourth ways are those of calls that are not lists.
LEMMA StepAlters ==
    ASSUME TypeOK, NEW r \in Req, Step(r)
    PROVE  Alters(r)
  <1>1. CASE EntityStep(r)
    <2>1. PICK entity \in Entity : EntityCalls(r, entity)
      BY <1>1 DEF EntityStep
    <2>2. CASE Create(r, entity)
      <3>1. {ItemOf(1, req[r].call.input)} \in SUBSET Item
        BY <2>2, WorkFields, CallFields DEF Create, At, ItemOf, Item
      <3>2. QED
        BY <2>2, <3>1 DEF Create, At, Alters
    <2>3. CASE Update(r, entity)
      BY <2>3 DEF Update, Changes, Exists, At, Alters
    <2>4. CASE Delete(r, entity)
      BY <2>4 DEF Delete, Changes, Exists, At, Alters
    <2>5. CASE Count(r, entity) \/ ReadPage(r, entity)
      BY <2>5 DEF Count, ReadPage, Alters
    <2>6. QED
      BY <2>1, <2>2, <2>3, <2>4, <2>5 DEF EntityCalls
  <1>2. CASE JobStep(r)
    <2>1. CASE ReadKeys(r) \/ ReadBagTypes(r) \/ ReadGrades(r)
      BY <2>1 DEF ReadKeys, ReadBagTypes, ReadGrades, Queues, Alters
    <2>2. CASE InsertQueued(r) \/ InsertBagTypes(r) \/ InsertGrades(r)
      <3>1. PICK entity \in Entity : InsertRows(r, entity, req[r].queue)
        BY <2>2, WorkFields, CallFields DEF InsertQueued, InsertBagTypes, InsertGrades, Inserts, At, Entity
      <3>2. req[r].queue \in SUBSET Item
        BY WorkFields
      <3>3. req[r].call.op # "list"
        BY <2>2 DEF InsertQueued, InsertBagTypes, InsertGrades, At
      <3>4. QED
        BY <3>1, <3>2, <3>3 DEF Alters
    <2>3. QED
      BY <1>2, <2>1, <2>2 DEF JobStep
  <1>3. CASE IntakeStep(r) \/ Fail(r)
    BY <1>3 DEF IntakeStep, CheckAuction, CheckAgreement, CheckDelivery, CheckContract, Checks,
                InsertAuctionLot, InsertAgreement, InsertDeliveredLot, InsertContract, Fail, Alters
  <1>4. QED
    BY <1>1, <1>2, <1>3 DEF Step

\* An insert takes the next time or one before it, an update keeps that of its row.
LEMMA DatedKept ==
    ASSUME TypeOK, Dated, NEW r \in Req, Alters(r)
    PROVE  Dated'
  <1>1. CASE UNCHANGED <<rows, clock>>
    BY <1>1 DEF Dated
  <1>2. ASSUME NEW entity \in Entity, NEW items \in SUBSET Item, InsertRows(r, entity, items)
        PROVE  Dated'
    <2>1. /\ clock' = clock + 1 /\ \A i \in DOMAIN rows : rows'[i] = rows[i]
      BY <1>2, InsertedRows
    <2>2. ASSUME NEW i \in DOMAIN rows' \ DOMAIN rows
          PROVE  rows'[i].created \in 0..clock + 1
      BY <1>2, <2>2, InsertedRow DEF RowOf, Moments
    <2>3. clock \in Nat /\ \A i \in DOMAIN rows : rows[i].created \in Nat
      BY DEF TypeOK, IsTable, Row
    <2>4. ASSUME NEW i \in DOMAIN rows' PROVE rows'[i].created <= clock'
      <3>1. CASE i \in DOMAIN rows
        BY <2>1, <2>3, <3>1 DEF Dated
      <3>2. CASE i \notin DOMAIN rows
        BY <2>1, <2>2, <2>3, <3>2
      <3>3. QED
        BY <3>1, <3>2
    <2>5. QED
      BY <2>4 DEF Dated
  <1>3. ASSUME NEW id \in DOMAIN rows, NEW input, clock' = clock + 1,
               rows' = [rows EXCEPT ![id] = RowOf(input, rows[id].created)]
        PROVE  Dated'
    <2>1. DOMAIN rows' = DOMAIN rows /\ \A i \in DOMAIN rows : rows'[i].created = rows[i].created
      BY <1>3 DEF RowOf
    <2>2. clock \in Nat /\ \A i \in DOMAIN rows : rows[i].created \in Nat
      BY DEF TypeOK, IsTable, Row
    <2>3. QED
      BY <1>3, <2>1, <2>2 DEF Dated
  <1>4. ASSUME NEW id \in DOMAIN rows, clock' = clock + 1,
               rows' = [i \in DOMAIN rows \ {id} |-> rows[i]]
        PROVE  Dated'
    <2>1. DOMAIN rows' \subseteq DOMAIN rows /\ \A i \in DOMAIN rows' : rows'[i] = rows[i]
      BY <1>4
    <2>2. clock \in Nat /\ \A i \in DOMAIN rows : rows[i].created \in Nat
      BY DEF TypeOK, IsTable, Row
    <2>3. QED
      BY <1>4, <2>1, <2>2 DEF Dated
  <1>5. QED
    BY <1>1, <1>2, <1>3, <1>4 DEF Alters

\* A client that has paged through a list nobody has changed since it began has
\* seen the list as it is and got some of its first pages.
Paging(r) == At(r, "list", "counted") \/ At(r, "list", "paged")
PagesSoFar(r) ==
    LET walk == req[r]
    IN  /\ walk.saw = IdsOf(walk.call.entity)
        /\ walk.total = Cardinality(walk.saw)
        /\ Len(walk.pages) < TotalPages(walk.total)
        /\ \A n \in DOMAIN walk.pages : walk.pages[n] \in Pages(rows, walk.saw, n)
WalkOK(r) ==
    /\ req[r].began <= clock
    /\ At(r, "list", "start") => req[r].pages = <<>>
    /\ Paging(r) /\ req[r].began = clock => PagesSoFar(r)
WalksOK == \A r \in Req : WalkOK(r)

\* The rows of a list are finitely many, and none is yet to come.
LEMMA ListStamped ==
    ASSUME TypeOK, Finite, Dated, NEW entity
    PROVE  Stamped(rows, IdsOf(entity), clock)
  <1>1. IdsOf(entity) \in SUBSET DOMAIN rows
    BY DEF IdsOf
  <1>2. IsFiniteSet(IdsOf(entity))
    BY <1>1, FS_Subset DEF Finite
  <1>3. \A i \in DOMAIN rows : rows[i].created \in Nat
    BY DEF TypeOK, IsTable, Row
  <1>4. QED
    BY <1>1, <1>2, <1>3 DEF Stamped, Dated, TypeOK

\* The last page completes the walk.
LEMMA WalkEnds ==
    ASSUME TypeOK, Finite, Dated, NEW entity, NEW pages,
           DOMAIN pages = 1..TotalPages(Cardinality(IdsOf(entity))),
           \A n \in DOMAIN pages : pages[n] \in Pages(rows, IdsOf(entity), n)
    PROVE  WholeWalk(IdsOf(entity), pages)
  <1> DEFINE saw == IdsOf(entity)
  <1>1. Walked(rows, saw, clock, pages)
    BY ListStamped DEF Walked
  <1>2. Cardinality(Received(pages)) = Cardinality(saw)
    BY <1>1, WalkCounts
  <1>3. ASSUME NEW i \in saw, Alone(i, saw)
        PROVE  Cardinality(PagesWith(i, pages)) = 1
    <2>1. \A j \in saw : rows[j].created = rows[i].created => j = i
      BY <1>3 DEF Alone
    <2> HIDE DEF saw
    <2>2. QED
      BY <1>1, <1>3, <2>1, LoneRowOnce
  <1>4. QED
    BY <1>2, <1>3 DEF WholeWalk

\* Even an empty list has a page.
LEMMA TotalPagesType ==
    ASSUME NEW N \in Nat
    PROVE  TotalPages(N) \in Nat /\ TotalPages(N) >= 1
  <1>1. /\ (N + PageSize - 1) \div PageSize \in Int
        /\ N + PageSize - 1 < PageSize * ((N + PageSize - 1) \div PageSize) + PageSize
    BY Quotient, SizesAssumption
  <1> DEFINE k == (N + PageSize - 1) \div PageSize
  <1> HIDE DEF k
  <1>2. k \in Int /\ N + PageSize - 1 < PageSize * k + PageSize
    BY <1>1 DEF k
  <1>3. k >= 0
    <2> SUFFICES ASSUME k + 1 <= 0 PROVE FALSE
      BY <1>2
    <2>1. PageSize * (k + 1) <= PageSize * 0 /\ PageSize * 0 = 0 /\ PageSize * k \in Int
      BY <1>2, Multiples, SizesAssumption
    <2>2. PageSize * (k + 1) = PageSize * k + PageSize
      BY <1>2, NextMultiple
    <2>3. QED
      BY <1>2, <2>1, <2>2, SizesAssumption
  <1>4. TotalPages(N) = IF k = 0 THEN 1 ELSE k
    BY DEF TotalPages, k
  <1>5. QED
    BY <1>2, <1>3, <1>4

\* A count begins a walk, or finds what it found before.
LEMMA CountWalks ==
    ASSUME TypeOK, Finite, NEW r \in Req, WalkOK(r), NEW entity \in Entity, Count(r, entity)
    PROVE  WalkOK(r)'
  <1> DEFINE start == req[r].at = "start"
             ids == IdsOf(entity)
  <1>1. /\ req[r].call.op = "list" /\ req[r].call.entity = entity
        /\ start \/ req[r].at = "paged"
        /\ UNCHANGED <<rows, clock>>
    BY DEF Count, At
  <1>2. /\ req'[r].call = req[r].call /\ req'[r].at = "counted"
        /\ req'[r].total = Cardinality(ids)
        /\ req'[r].saw = IF start THEN ids ELSE req[r].saw
        /\ req'[r].began = IF start THEN clock ELSE req[r].began
        /\ req'[r].pages = req[r].pages
    BY DEF Count, TypeOK, Work
  <1>3. Cardinality(ids) \in Nat
    <2>1. IsFiniteSet(ids)
      BY FS_Subset DEF IdsOf, Finite
    <2>2. QED
      BY <2>1, FS_CardinalityType
  <1>4. ids' = ids
    BY <1>1 DEF IdsOf
  <1>5. clock \in Nat /\ req[r].began \in Nat
    BY WorkFields DEF TypeOK
  <1> HIDE DEF ids
  <1>6. CASE start
    <2>1. req'[r].saw = ids /\ req'[r].began = clock /\ req'[r].pages = <<>>
      BY <1>1, <1>2, <1>6 DEF WalkOK, At
    <2>2. Len(<<>>) < TotalPages(Cardinality(ids))
      BY <1>3, TotalPagesType
    <2>3. PagesSoFar(r)'
      BY <1>1, <1>2, <1>4, <2>1, <2>2 DEF PagesSoFar, ids
    <2>4. QED
      BY <1>1, <1>2, <1>5, <2>1, <2>3 DEF WalkOK, At
  <1>7. CASE ~start
    <2>1. /\ req'[r].saw = req[r].saw /\ req'[r].began = req[r].began
          /\ req[r].at = "paged"
      BY <1>1, <1>2, <1>7
    <2>2. req[r].began = clock => PagesSoFar(r)
      BY <1>1, <2>1 DEF WalkOK, Paging, At
    <2>3. PagesSoFar(r) => PagesSoFar(r)'
      BY <1>1, <1>2, <1>4, <2>1 DEF PagesSoFar, ids
    <2>4. QED
      BY <1>1, <1>2, <2>1, <2>2, <2>3 DEF WalkOK, At
  <1>8. QED
    BY <1>6, <1>7

\* A page goes on with the walk, or completes it.
LEMMA ReadPageWalks ==
    ASSUME TypeOK, Finite, Dated, NEW r \in Req, WalkOK(r), NEW entity \in Entity, ReadPage(r, entity)
    PROVE  /\ WalkOK(r)'
           /\ EndsWalk(r) => WholeWalk(req'[r].saw, req'[r].pages)
  <1> DEFINE page == Len(req[r].pages) + 1
             ids == IdsOf(entity)
             at == IF HasNext(page, req[r].total) THEN "paged" ELSE "done"
  <1>1. /\ req[r].call.op = "list" /\ req[r].call.entity = entity /\ req[r].at = "counted"
        /\ UNCHANGED <<rows, clock>>
    BY DEF ReadPage, At
  <1>2. PICK answer \in Pages(rows, ids, page) :
           req' = [req EXCEPT ![r].at = at, ![r].pages = Append(@, answer)]
    BY DEF ReadPage
  <1> HIDE DEF at
  <1>3. /\ req'[r].call = req[r].call /\ req'[r].at = at
        /\ req'[r].total = req[r].total
        /\ req'[r].saw = req[r].saw
        /\ req'[r].began = req[r].began
        /\ req'[r].pages = Append(req[r].pages, answer)
    BY <1>2 DEF TypeOK, Work
  <1>4. ids' = ids
    BY <1>1 DEF IdsOf
  <1>5. /\ clock \in Nat /\ req[r].began \in Nat /\ req[r].pages \in Seq(SUBSET Id)
        /\ req[r].total \in Nat
    BY WorkFields DEF TypeOK
  <1>6. page \in Nat /\ TotalPages(req[r].total) \in Nat
    <2>1. Len(req[r].pages) \in Nat
      BY <1>5
    <2>2. TotalPages(req[r].total) \in Nat
      BY <1>5, TotalPagesType
    <2>3. QED
      BY <2>1, <2>2
  <1> DEFINE pages == Append(req[r].pages, answer)
  <1>7. /\ Len(pages) = page /\ DOMAIN pages = 1..page
        /\ \A n \in 1..page : pages[n] = IF n = page THEN answer ELSE req[r].pages[n]
        /\ DOMAIN req[r].pages = 1..page - 1
    BY <1>5
  <1>8. ASSUME req[r].began = clock
        PROVE  /\ req[r].saw = ids /\ req[r].total = Cardinality(ids)
               /\ page <= TotalPages(req[r].total)
               /\ \A n \in DOMAIN pages : pages[n] \in Pages(rows, ids, n)
    <2>1. PagesSoFar(r)
      BY <1>1, <1>8 DEF WalkOK, Paging, At
    <2>2. req[r].saw = ids /\ req[r].total = Cardinality(ids)
      BY <1>1, <2>1 DEF PagesSoFar
    <2>3. Len(req[r].pages) < TotalPages(req[r].total) /\ Len(req[r].pages) \in Nat
      BY <1>5, <2>1 DEF PagesSoFar
    <2>4. \A n \in DOMAIN req[r].pages : req[r].pages[n] \in Pages(rows, ids, n)
      BY <1>1, <2>1 DEF PagesSoFar
    <2> HIDE DEF ids
    <2>5. page <= TotalPages(req[r].total)
      BY <1>6, <2>3
    <2> HIDE DEF page, pages
    <2>6. \A n \in DOMAIN pages : pages[n] \in Pages(rows, ids, n)
      BY <1>2, <1>6, <1>7, <2>4
    <2>7. QED
      BY <2>2, <2>5, <2>6
  <1> HIDE DEF ids, page, pages
  <1>9. CASE page < TotalPages(req[r].total)
    <2>1. at = "paged"
      BY <1>9 DEF at, HasNext, page
    <2>2. req[r].began = clock => PagesSoFar(r)'
      BY <1>1, <1>3, <1>4, <1>7, <1>8, <1>9 DEF PagesSoFar, ids, pages
    <2>3. QED
      BY <1>1, <1>3, <2>1, <2>2 DEF WalkOK, EndsWalk, At
  <1>10. CASE ~(page < TotalPages(req[r].total))
    <2>1. at = "done"
      BY <1>10 DEF at, HasNext, page
    <2>2. ASSUME req[r].began = clock PROVE WholeWalk(ids, pages)
      <3>1. DOMAIN pages = 1..TotalPages(Cardinality(ids))
        BY <1>6, <1>7, <1>8, <1>10, <2>2
      <3>2. \A n \in DOMAIN pages : pages[n] \in Pages(rows, ids, n)
        BY <1>8, <2>2
      <3>3. QED
        BY <3>1, <3>2, WalkEnds DEF ids
    <2>3. req[r].began = clock => WholeWalk(req'[r].saw, req'[r].pages)
      BY <1>3, <1>8, <2>2 DEF pages
    <2>4. QED
      BY <1>1, <1>3, <1>5, <2>1, <2>3 DEF WalkOK, EndsWalk, Paging, At
  <1>11. QED
    BY <1>9, <1>10

\* Every other step leaves a walk alone, changes the rows under it, or ends it.
LEMMA OthersWalk ==
    ASSUME TypeOK, TypeOK', Finite, Dated, WalksOK, NEW r \in Req, Step(r), NEW q \in Req
    PROVE  WalkOK(q)'
  <1>1. Alters(r) /\ CallsKept(r)
    BY StepAlters, StepKeeps
  <1>2. clock \in Nat /\ (UNCHANGED <<rows, clock>> \/ (clock' = clock + 1 /\ req[r].call.op # "list"))
    BY <1>1 DEF Alters, InsertRows, TypeOK
  <1>3. req[q].began \in Nat /\ WalkOK(q) /\ req'[q].call = req[q].call
    BY <1>1, WorkFields DEF WalksOK, CallsKept
  <1>4. CASE req'[q] = req[q]
    <2>1. CASE UNCHANGED <<rows, clock>>
      <3>1. PagesSoFar(q) => PagesSoFar(q)'
        BY <1>4, <2>1 DEF PagesSoFar, IdsOf
      <3>2. QED
        BY <1>3, <1>4, <2>1, <3>1 DEF WalkOK, Paging, At
    <2>2. CASE clock' = clock + 1
      BY <1>2, <1>3, <1>4, <2>2 DEF WalkOK, Paging, At
    <2>3. QED
      BY <1>2, <2>1, <2>2
  <1>5. CASE q = r /\ req[r].call.op # "list" /\ req'[r].began = req[r].began
    BY <1>2, <1>3, <1>5 DEF WalkOK, Paging, At
  <1>6. CASE q = r /\ Fail(r)
    <2>1. req'[r].at = "failed" /\ req'[r].began = req[r].began /\ UNCHANGED clock
      BY <1>6 DEF Fail, Goes, TypeOK, Work
    <2>2. QED
      BY <1>3, <1>6, <2>1 DEF WalkOK, Paging, At
  <1>7. CASE q = r /\ \E entity \in Entity : Count(r, entity) \/ ReadPage(r, entity)
    BY <1>3, <1>7, CountWalks, ReadPageWalks
  <1>8. ASSUME ~Fail(r), ~(\E entity \in Entity : Count(r, entity) \/ ReadPage(r, entity))
        PROVE  req[r].call.op # "list" /\ req'[r].began = req[r].began
    <2>1. ASSUME NEW at, Goes(r, at) PROVE req'[r].began = req[r].began
      BY <2>1 DEF Goes, TypeOK, Work
    <2>2. ASSUME NEW at, NEW saw, NEW queue, Queues(r, at, saw, queue) PROVE req'[r].began = req[r].began
      BY <2>2 DEF Queues, TypeOK, Work
    <2>3. CASE EntityStep(r)
      BY <1>8, <2>1, <2>3 DEF EntityStep, EntityCalls, Create, Update, Delete, At
    <2>4. CASE JobStep(r)
      BY <2>1, <2>2, <2>4 DEF JobStep, ReadKeys, InsertQueued, ReadBagTypes, InsertBagTypes, ReadGrades,
                              InsertGrades, Inserts, At
    <2>5. CASE IntakeStep(r)
      BY <2>1, <2>5 DEF IntakeStep, CheckAuction, CheckAgreement, CheckDelivery, CheckContract, Checks,
                        InsertAuctionLot, InsertAgreement, InsertDeliveredLot, InsertContract, At
    <2>6. QED
      BY <1>8, <2>3, <2>4, <2>5 DEF Step
  <1>9. CASE q # r
    BY <1>1, <1>4, <1>9 DEF CallsKept
  <1>10. QED
    BY <1>5, <1>6, <1>7, <1>8, <1>9

------------------------------------------------------------------------------
\* The inductive invariant and the theorems

Inv ==
    /\ TypeOK /\ Finite
    /\ Checked /\ IntakeInv
    /\ Fresh /\ Seen /\ QueuesReady
    /\ DuplicatesOnlyByRace /\ StandardsPresent
    /\ Dated /\ WalksOK

LEMMA InitInv == Init => Inv
  <1> SUFFICES ASSUME Init PROVE Inv
    OBVIOUS
  <1>1. TypeOK /\ Finite
    BY InitTypes
  <1>2. PICK t \in Tables : rows = t.rows /\ agreements = t.agreements
    BY DEF Init
  <1>3. /\ \A i \in DOMAIN rows : i.by = Nobody
        /\ \A a \in DOMAIN agreements :
              /\ agreements[a] \in DOMAIN rows
              /\ agreements[a].entity = "supplier"
              /\ rows[agreements[a]].type # "auction_agent"
    BY <1>2, TablesAssumption
  <1>4. PICK calls \in [Req -> Calls] : req = [r \in Req |-> Arrived(calls[r])]
    BY DEF Init
  <1>5. \A r \in Req : req[r].at = "start" /\ req[r].saw = {}
    BY <1>4 DEF Arrived
  <1>6. DOMAIN lots = {} /\ DOMAIN auctions = {} /\ DOMAIN deliveries = {} /\ DOMAIN contracts = {} /\ past = {}
    BY DEF Init, Empty
  <1>7. Checked /\ Seen /\ QueuesReady
    BY <1>5 DEF Checked, Seen, QueuesReady, At
  <1>8. ReferencesHold /\ SourceKnown
    BY <1>3, <1>6 DEF ReferencesHold, SourceKnown, Exists
  <1>9. ChannelsApart
    BY <1>3, <1>6 DEF ChannelsApart, Ever
  <1>10. Fresh
    BY <1>3, <1>6, CallsAssumption DEF Fresh, Past
  <1>11. DuplicatesOnlyByRace
    BY <1>3, CallsAssumption DEF DuplicatesOnlyByRace, Job
  <1>12. StandardsPresent
    BY <1>5 DEF StandardsPresent
  <1>13. clock = Cardinality(DOMAIN rows) /\ clock \in Nat
    BY <1>1 DEF Init, TypeOK
  <1>14. Dated
    BY <1>2, <1>13, TablesAssumption DEF Dated
  <1>15. \A r \in Req : req[r].began = 0 /\ req[r].pages = <<>>
    BY <1>4 DEF Arrived
  <1>16. WalksOK
    BY <1>5, <1>13, <1>15 DEF WalksOK, WalkOK, Paging, At
  <1>17. QED
    BY <1>1, <1>7, <1>8, <1>9, <1>10, <1>11, <1>12, <1>14, <1>16 DEF Inv, IntakeInv

LEMMA IntakeInvKept ==
    ASSUME TypeOK, IntakeInv, Checked, NEW r \in Req, Step(r)
    PROVE  IntakeInv'
  <1>1. RowsKept(r)
    BY StepKeeps
  <1>2. CASE IntakeStep(r)
    BY <1>2, IntakeKept
  <1>3. CASE EntityStep(r)
    <2>1. PICK entity \in Entity : EntityCalls(r, entity)
      BY <1>3 DEF EntityStep
    <2>2. CASE Delete(r, entity)
      BY <1>1, <2>2, DeleteKept
    <2>3. CASE ~Delete(r, entity)
      <3>1. UNCHANGED intake /\ DOMAIN rows \subseteq DOMAIN rows'
        BY <2>1, <2>3 DEF EntityCalls, Create, Update, Count, ReadPage, InsertRows
      <3>2. QED
        BY <1>1, <3>1, IntakeUntouched
    <2>4. QED
      BY <2>2, <2>3
  <1>4. CASE JobStep(r) \/ Fail(r)
    <2>1. UNCHANGED intake /\ DOMAIN rows \subseteq DOMAIN rows'
      BY <1>4 DEF JobStep, ReadKeys, InsertQueued, ReadBagTypes, InsertBagTypes, ReadGrades, InsertGrades,
                  Queues, Inserts, InsertRows, Fail
    <2>2. QED
      BY <1>1, <2>1, IntakeUntouched
  <1>5. QED
    BY <1>2, <1>3, <1>4 DEF Step

LEMMA NextInv == Inv /\ [Next]_vars => Inv'
  <1> SUFFICES ASSUME Inv, [Next]_vars PROVE Inv'
    OBVIOUS
  <1>1. TypeOK' /\ Finite'
    BY NextTypes DEF Inv
  <1>2. CASE Next
    <2>1. PICK r \in Req : Step(r)
      BY <1>2, NextSteps
    <2>2. Dated'
      BY <2>1, StepAlters, DatedKept DEF Inv
    <2>3. WalksOK'
      BY <1>1, <2>1, OthersWalk DEF Inv, WalksOK
    <2>4. QED
      BY <1>1, <2>1, <2>2, <2>3,
         CheckedKept, IntakeInvKept, FreshKept, SeenKept, QueuesReadyKept, DuplicatesKept, StandardsKept
         DEF Inv
  <1>3. CASE UNCHANGED vars
    <2>1. (Checked /\ IntakeInv)'
      BY <1>3 DEF Inv, vars, Checked, At, WasAgent, WasDirect, Ever, Was, IntakeInv, ReferencesHold, Exists,
                  IntakeExists, ContractExists, SourceKnown, ChannelsApart
    <2>2. (Fresh /\ Seen)'
      BY <1>3 DEF Inv, vars, Fresh, Past, Inserted, Op, Place, Seen
    <2>3. \A entity : Known(entity)' = Known(entity)
      BY <1>3 DEF vars, Known, RowsOf, IdsOf
    <2>4. UNCHANGED <<rows, past, req>>
      BY <1>3 DEF vars
    <2>5. QueuesReady'
      <3>1. \A q \in Req : \A entity : Ready(q, entity) => Ready(q, entity)'
        BY <2>4 DEF Ready, Distinct, Apart, Was
      <3>2. \A q \in Req : CoversBagTypes(req[q].queue) => CoversBagTypes(req[q].queue)'
        BY <2>3, <2>4 DEF CoversBagTypes, BagTypeKnown
      <3>3. \A q \in Req : CoversGrades(req[q].queue) => CoversGrades(req[q].queue)'
        BY <2>3, <2>4 DEF CoversGrades, GradeKnown
      <3>4. QueuesReady
        BY DEF Inv
      <3>5. QED
        BY <2>4, <3>1, <3>2, <3>3, <3>4 DEF QueuesReady, At
    <2>6. DuplicatesOnlyByRace'
      BY <2>4 DEF Inv, DuplicatesOnlyByRace, Twins, Was, Job
    <2>7. StandardsPresent'
      BY <2>3, <2>4 DEF Inv, StandardsPresent
    <2>8. Dated' /\ WalksOK'
      <3>1. UNCHANGED <<rows, clock, req>>
        BY <1>3 DEF vars
      <3>2. \A r \in Req : PagesSoFar(r) => PagesSoFar(r)'
        BY <3>1 DEF PagesSoFar, IdsOf
      <3>3. Dated'
        BY <3>1 DEF Inv, Dated
      <3>4. WalksOK'
        BY <3>1, <3>2 DEF Inv, WalksOK, WalkOK, Paging, At
      <3>5. QED
        BY <3>3, <3>4
    <2>9. QED
      BY <1>1, <2>1, <2>2, <2>5, <2>6, <2>7, <2>8 DEF Inv
  <1>4. QED
    BY <1>2, <1>3

LEMMA Invariance == Spec => []Inv
  BY InitInv, NextInv, PTL DEF Spec

\* For any calls on any tables in order, whatever a lot, an agreement, an
\* auction, a delivery or a contract refers to exists, however deletes and
\* checks interleave.
THEOREM ReferencesAreWhole == Spec => []ReferencesHold
  <1>1. Inv => ReferencesHold
    BY DEF Inv, IntakeInv
  <1>2. QED
    BY <1>1, Invariance, PTL

\* Every lot has the procurement record of its source, and it leads to the
\* lot's supplier.
THEOREM SourcesAreKnown == Spec => []SourceKnown
  <1>1. Inv => SourceKnown
    BY DEF Inv, IntakeInv
  <1>2. QED
    BY <1>1, Invariance, PTL

\* The channels mix only where somebody has changed a supplier's type.
THEOREM ChannelsStayApart == Spec => []ChannelsApart
  <1>1. Inv => ChannelsApart
    BY DEF Inv, IntakeInv
  <1>2. QED
    BY <1>1, Invariance, PTL

\* Two unchanged rows of one natural key are there only because a call
\* inserted one after an import or a seeding had read the keys.
THEOREM DuplicatesComeFromRaces == Spec => []DuplicatesOnlyByRace
  <1>1. Inv => DuplicatesOnlyByRace
    BY DEF Inv
  <1>2. QED
    BY <1>1, Invariance, PTL

\* What a seeding has passed has all its standards, but for those that
\* somebody changed or deleted.
THEOREM StandardsStay == Spec => []StandardsPresent
  <1>1. Inv => StandardsPresent
    BY DEF Inv
  <1>2. QED
    BY <1>1, Invariance, PTL

\* The step that ends a walk is a read of its last page.
LEMMA StepEndsWalk ==
    ASSUME Inv, NEW r \in Req, Step(r), NEW q \in Req, EndsWalk(q)
    PROVE  WholeWalk(req'[q].saw, req'[q].pages)
  <1>1. TypeOK /\ CallsKept(r)
    BY StepKeeps DEF Inv
  <1>2. q = r
    BY <1>1 DEF EndsWalk, At, CallsKept
  <1>3. PICK entity \in Entity : ReadPage(r, entity)
    <2>1. ~Fail(r)
      BY <1>1, <1>2 DEF Fail, Goes, EndsWalk, TypeOK, Work
    <2>2. ~JobStep(r) /\ ~IntakeStep(r)
      BY <1>2 DEF JobStep, ReadKeys, InsertQueued, ReadBagTypes, InsertBagTypes, ReadGrades, InsertGrades,
                  IntakeStep, CheckAuction, CheckAgreement, CheckDelivery, CheckContract, Checks,
                  InsertAuctionLot, InsertAgreement, InsertDeliveredLot, InsertContract, EndsWalk, At
    <2>3. EntityStep(r)
      BY <2>1, <2>2 DEF Step
    <2>4. QED
      BY <1>2, <2>3 DEF EntityStep, EntityCalls, Create, Update, Delete, Count, EndsWalk, At
  <1>4. QED
    BY <1>1, <1>2, <1>3, ReadPageWalks DEF Inv, WalksOK

\* Whoever follows has_next to the end of a list that nobody has changed gets as
\* many rows as it has, and each row once whose created_at no other has, for any
\* size of the list and of its pages.
THEOREM WalksAreComplete == Spec => WalkComplete
  <1>1. Inv /\ [Next]_vars => [\A r \in Req : EndsWalk(r) => WholeWalk(req'[r].saw, req'[r].pages)]_vars
    <2> SUFFICES ASSUME Inv, Next, NEW q \in Req, EndsWalk(q)
                 PROVE  WholeWalk(req'[q].saw, req'[q].pages)
      OBVIOUS
    <2>1. PICK r \in Req : Step(r)
      BY NextSteps
    <2>2. QED
      BY <2>1, StepEndsWalk
  <1>2. QED
    BY <1>1, Invariance, PTL DEF Spec, WalkComplete
=============================================================================
