---------------------------- MODULE LedgerProofs ----------------------------
(***************************************************************************)
(* Proofs about the trade ledger, for every set of lots, contracts,        *)
(* allocations and shipments.  What needs it assumes that clients send     *)
(* weights with at most three decimals (WholeUnits) or none that rounds to *)
(* nothing (NothingTooSmall); the rest holds whatever decimals they send.  *)
(***************************************************************************)
EXTENDS Ledger, FiniteSetTheorems, WellFoundedInduction, TLAPS

\* No request carries a weight that the database rounds to zero.
NothingTooSmall == \A x \in Weights : Stored(x) > 0

------------------------------------------------------------------------------
\* Rounding

LEMMA DivBounds ==
    ASSUME NEW a \in Int, NEW d \in Nat \ {0}
    PROVE  a \div d \in Int /\ d * (a \div d) <= a /\ a < d * (a \div d) + d
  BY SMT

LEMMA TimesMonotone ==
    ASSUME NEW a \in Int, NEW b \in Int, a <= b
    PROVE  Scale * a <= Scale * b /\ Scale * a \in Int /\ Scale * b \in Int
  BY ScaleAssumption, SMT

LEMMA TimesCancel ==
    ASSUME NEW a \in Int, NEW b \in Int, Scale * a < Scale * b + Scale
    PROVE  a <= b
  <1> SUFFICES ASSUME b + 1 <= a PROVE FALSE
    OBVIOUS
  <1>1. Scale * (b + 1) <= Scale * a
    BY TimesMonotone
  <1>2. Scale * (b + 1) = Scale * b + Scale /\ Scale * b \in Int
    BY ScaleAssumption, SMT
  <1>3. QED
    BY <1>1, <1>2, ScaleAssumption, TimesMonotone

\* What is stored is half a unit off at most.
LEMMA StoredBounds ==
    ASSUME NEW x \in Int
    PROVE  /\ Stored(x) \in Int
           /\ 2 * (Scale * Stored(x)) <= 2 * x + Scale
           /\ 2 * x + Scale < 2 * (Scale * Stored(x)) + 2 * Scale
  <1>1. 2 * Scale \in Nat \ {0} /\ 2 * x + Scale \in Int
    BY ScaleAssumption
  <1>2. /\ Stored(x) \in Int
        /\ (2 * Scale) * Stored(x) <= 2 * x + Scale
        /\ 2 * x + Scale < (2 * Scale) * Stored(x) + 2 * Scale
    BY <1>1, DivBounds DEF Stored
  <1>3. (2 * Scale) * Stored(x) = 2 * (Scale * Stored(x))
    BY <1>2, ScaleAssumption, SMT
  <1>4. QED
    BY <1>2, <1>3

\* A weight that misses a whole number of units by no more than the tolerance
\* is stored as that number: what a comparison lets through, rounding removes.
LEMMA StoredBetween ==
    ASSUME NEW x \in Int, NEW n \in Int
    PROVE  /\ Scale * n \in Int
           /\ x >= Scale * n - Epsilon => Stored(x) >= n
           /\ x <= Scale * n + Epsilon => Stored(x) <= n
  <1>1. /\ Scale \in Nat /\ Epsilon \in Nat /\ 2 * Epsilon < Scale
        /\ Scale * n \in Int /\ Scale * Stored(x) \in Int /\ Stored(x) \in Int
    BY ScaleAssumption, TimesMonotone, StoredBounds
  <1>2. ASSUME x >= Scale * n - Epsilon  PROVE Stored(x) >= n
    <2>1. Scale * n < Scale * Stored(x) + Scale
      BY <1>1, <1>2, StoredBounds
    <2>2. QED
      BY <1>1, <2>1, TimesCancel
  <1>3. ASSUME x <= Scale * n + Epsilon  PROVE Stored(x) <= n
    <2>1. Scale * Stored(x) < Scale * n + Scale
      BY <1>1, <1>3, StoredBounds
    <2>2. QED
      BY <1>1, <2>1, TimesCancel
  <1>4. QED
    BY <1>1, <1>2, <1>3

LEMMA StoredMonotone ==
    ASSUME NEW x \in Int, NEW y \in Int, x <= y
    PROVE  Stored(x) <= Stored(y)
  <1>1. /\ Scale \in Nat /\ Stored(x) \in Int /\ Stored(y) \in Int
        /\ Scale * Stored(x) \in Int /\ Scale * Stored(y) \in Int
    BY ScaleAssumption, TimesMonotone, StoredBounds
  <1>2. Scale * Stored(x) < Scale * Stored(y) + Scale
    BY <1>1, StoredBounds
  <1>3. QED
    BY <1>1, <1>2, TimesCancel

\* Adding to a stored weight stores the sum: a running total that is rounded at
\* every step is the sum of the rounded weights.
LEMMA StoredAdds ==
    ASSUME NEW n \in Int, NEW x \in Int
    PROVE  Stored(Scale * n + x) = n + Stored(x)
  <1> DEFINE sum == Stored(Scale * n + x)
  <1>1. Scale \in Nat /\ Scale * n \in Int /\ Scale * n + x \in Int
    BY ScaleAssumption, TimesMonotone
  <1>2. /\ sum \in Int /\ Stored(x) \in Int /\ n + Stored(x) \in Int
        /\ Scale * sum \in Int /\ Scale * Stored(x) \in Int
    BY <1>1, StoredBounds, TimesMonotone
  <1>3. Scale * (n + Stored(x)) = Scale * n + Scale * Stored(x)
    BY <1>1, <1>2, SMT
  <1>4. /\ 2 * (Scale * sum) <= 2 * (Scale * n + x) + Scale
        /\ 2 * (Scale * n + x) + Scale < 2 * (Scale * sum) + 2 * Scale
    BY <1>1, StoredBounds
  <1>5. /\ 2 * (Scale * Stored(x)) <= 2 * x + Scale
        /\ 2 * x + Scale < 2 * (Scale * Stored(x)) + 2 * Scale
    BY StoredBounds
  <1> HIDE DEF sum
  <1>6. /\ Scale * sum < Scale * (n + Stored(x)) + Scale
        /\ Scale * (n + Stored(x)) < Scale * sum + Scale
    BY <1>1, <1>2, <1>3, <1>4, <1>5
  <1>7. sum <= n + Stored(x) /\ n + Stored(x) <= sum
    BY <1>2, <1>6, TimesCancel
  <1>8. sum = n + Stored(x)
    <2>1. sum \in Int /\ n + Stored(x) \in Int
      BY <1>2
    <2>2. QED
      BY <1>7, <2>1
  <1>9. QED
    BY <1>8 DEF sum

\* What is stored of a weight of at least zero is at least zero.
LEMMA StoredNat ==
    ASSUME NEW x \in Nat
    PROVE  Stored(x) \in Nat
  <1>1. x >= Scale * 0 - Epsilon
    BY ScaleAssumption
  <1>2. QED
    BY <1>1, StoredBetween, StoredBounds

\* Without finer inputs the database's rounding changes nothing and the
\* tolerance of a comparison lets nothing through.
LEMMA WholeUnitArithmetic ==
    ASSUME WholeUnits
    PROVE  /\ \A x \in Int : Stored(x) = x /\ StoredCorrection(x) = x
           /\ \A x, limit \in Int : Exceeds(x, limit) <=> x > limit
           /\ Epsilon = 0 /\ Scale = 1
  <1>1. Scale = 1 /\ Epsilon = 0
    BY ScaleAssumption DEF WholeUnits
  <1>2. \A x \in Int : (2 * x + 1) \div 2 = x
    BY SMT
  <1>3. QED
    BY <1>1, <1>2 DEF Stored, StoredCorrection, Exceeds

\* A row added under a key of the table's key set keeps the table a table.
LEMMA InsertKeepsTable ==
    ASSUME NEW table, NEW keys, NEW row, IsTable(table, keys, row),
           NEW key \in keys, NEW new \in row
    PROVE  /\ IsTable(Insert(table, key, new), keys, row)
           /\ DOMAIN Insert(table, key, new) = DOMAIN table \cup {key}
           /\ Insert(table, key, new)[key] = new
           /\ \A k \in DOMAIN table : k # key => Insert(table, key, new)[k] = table[k]
  BY DEF IsTable, Insert

\* refreshLotStatus always stores one of the three lot statuses.
LEMMA LotStatusOfType ==
    ASSUME NEW available, NEW openAllocations
    PROVE  LotStatusOf(available, openAllocations) \in LotStatus
  BY DEF LotStatusOf, LotStatus

\* nextContractStatus stays within the statuses of a contract.
LEMMA NextContractStatusType ==
    ASSUME NEW shipped, NEW quantity, NEW current \in ContractStatus
    PROVE  NextContractStatus(shipped, quantity, current) \in ContractStatus
  BY DEF NextContractStatus, ContractStatus

\* A refreshed lot keeps its weights.
LEMMA RefreshedRow ==
    ASSUME NEW row \in LotRow, NEW lot, NEW newAllocs
    PROVE  /\ Refreshed(row, lot, newAllocs) \in LotRow
           /\ Refreshed(row, lot, newAllocs).total = row.total
           /\ Refreshed(row, lot, newAllocs).available = row.available
           /\ Refreshed(row, lot, newAllocs).status
                = LotStatusOf(row.available, OpenAllocations(newAllocs, lot))
  BY LotStatusOfType DEF Refreshed, LotRow

\* An allocation that the check of the lot lets through leaves a lot row with
\* no more available than before.
LEMMA TakenRow ==
    ASSUME NEW lot \in LotRow, NEW x \in Nat, ~Exceeds(x, lot.available)
    PROVE  /\ Taken(lot, x) \in LotRow
           /\ Taken(lot, x).total = lot.total
           /\ Taken(lot, x).available <= lot.available
           /\ WholeUnits => /\ x <= lot.available
                            /\ Taken(lot, x).available = lot.available - x
  <1> DEFINE rest == Scale * lot.available - x
  <1>1. /\ lot.available \in Nat /\ Scale \in Nat /\ Epsilon \in Nat
        /\ Scale * lot.available \in Int
    BY ScaleAssumption, TimesMonotone DEF LotRow
  <1>2. rest \in Int /\ rest >= Scale * 0 - Epsilon /\ rest <= Scale * lot.available + Epsilon
    BY <1>1 DEF Exceeds
  <1>3. Stored(rest) \in Nat /\ Stored(rest) <= lot.available
    <2> HIDE DEF rest
    <2>1. Stored(rest) \in Int
      BY <1>2, StoredBounds
    <2>2. Stored(rest) >= 0
      BY <1>2, StoredBetween
    <2>3. Stored(rest) <= lot.available
      BY <1>1, <1>2, StoredBetween
    <2>4. QED
      BY <2>1, <2>2, <2>3
  <1>4. WholeUnits => x <= lot.available /\ Stored(rest) = lot.available - x
    <2> SUFFICES ASSUME WholeUnits
                 PROVE  x <= lot.available /\ Stored(rest) = lot.available - x
      OBVIOUS
    <2>1. rest = lot.available - x /\ x <= lot.available
      BY <1>1, WholeUnitArithmetic
    <2>2. QED
      BY <1>1, <2>1, WholeUnitArithmetic
  <1>5. Taken(lot, x) = [lot EXCEPT !.available = Stored(rest)]
    BY DEF Taken
  <1> HIDE DEF rest
  <1>6. QED
    BY <1>3, <1>4, <1>5 DEF LotRow

\* A correction leaves a lot row that has no more available than it holds; in
\* whole units it moves both weights by the same amount.
LEMMA CorrectedRow ==
    ASSUME NEW lot \in LotRow, NEW delta \in Int
    PROVE  /\ Corrected(lot, delta) \in LotRow
           /\ lot.available <= lot.total => Corrected(lot, delta).available <= Corrected(lot, delta).total
           /\ WholeUnits /\ lot.total + delta >= 0 /\ lot.available + delta >= 0
                => /\ Corrected(lot, delta).total = lot.total + delta
                   /\ Corrected(lot, delta).available = lot.available + delta
  <1> DEFINE total == AtLeastZero(Scale * lot.total + delta)
             available == AtLeastZero(Scale * lot.available + delta)
  <1>1. lot.available \in Nat /\ lot.total \in Nat
    BY DEF LotRow
  <1>2. Scale * lot.available \in Int /\ Scale * lot.total \in Int
    BY <1>1, TimesMonotone
  <1>3. total \in Nat /\ available \in Nat
    BY <1>2 DEF AtLeastZero
  <1>4. lot.available <= lot.total => available <= total
    BY <1>1, <1>2, TimesMonotone DEF AtLeastZero
  <1>5. WholeUnits /\ lot.total + delta >= 0 /\ lot.available + delta >= 0
            => total = lot.total + delta /\ available = lot.available + delta
    BY <1>1, WholeUnitArithmetic DEF AtLeastZero
  <1>6. Corrected(lot, delta) = [lot EXCEPT !.total = Stored(total), !.available = Stored(available)]
    BY DEF Corrected
  <1> HIDE DEF total, available
  <1>7. Stored(total) \in Nat /\ Stored(available) \in Nat
    BY <1>3, StoredNat
  <1>8. lot.available <= lot.total => Stored(available) <= Stored(total)
    BY <1>3, <1>4, StoredMonotone
  <1>9. WholeUnits => Stored(total) = total /\ Stored(available) = available
    BY <1>3, WholeUnitArithmetic
  <1>10. QED
    BY <1>5, <1>6, <1>7, <1>8, <1>9 DEF LotRow

\* An allocation that the check of the contract lets through adds to what is
\* allocated and does not pass the quantity.
LEMMA AllocatedRow ==
    ASSUME NEW contract \in ContractRow, NEW x \in Nat,
           ~Exceeds(x, contract.quantity - contract.allocated)
    PROVE  /\ Stored(Scale * contract.allocated + x) \in Nat
           /\ Stored(Scale * contract.allocated + x) = contract.allocated + Stored(x)
           /\ Stored(Scale * contract.allocated + x) >= contract.allocated
           /\ Stored(Scale * contract.allocated + x) <= contract.quantity
  <1> DEFINE allocated == Scale * contract.allocated + x
  <1>1. /\ contract.allocated \in Nat /\ contract.quantity \in Nat
        /\ Scale \in Nat /\ Epsilon \in Nat
        /\ Scale * contract.allocated \in Int /\ Scale * contract.quantity \in Int
    BY ScaleAssumption, TimesMonotone DEF ContractRow
  <1>2. Scale * (contract.quantity - contract.allocated)
            = Scale * contract.quantity - Scale * contract.allocated
    BY <1>1, SMT
  <1>3. /\ allocated \in Int
        /\ allocated >= Scale * contract.allocated - Epsilon
        /\ allocated <= Scale * contract.quantity + Epsilon
    BY <1>1, <1>2 DEF Exceeds
  <1> HIDE DEF allocated
  <1>4. /\ Stored(allocated) \in Int
        /\ Stored(allocated) >= contract.allocated
        /\ Stored(allocated) <= contract.quantity
    <2>1. Stored(allocated) \in Int
      BY <1>3, StoredBounds
    <2>2. Stored(allocated) >= contract.allocated
      BY <1>1, <1>3, StoredBetween
    <2>3. Stored(allocated) <= contract.quantity
      BY <1>1, <1>3, StoredBetween
    <2>4. QED
      BY <2>1, <2>2, <2>3
  <1>5. allocated = Scale * contract.allocated + x
    BY DEF allocated
  <1>6. Stored(allocated) = contract.allocated + Stored(x)
    <2>1. contract.allocated \in Int /\ x \in Int
      BY <1>1
    <2>2. Stored(Scale * contract.allocated + x) = contract.allocated + Stored(x)
      BY <2>1, StoredAdds
    <2>3. QED
      BY <2>2 DEF allocated
  <1>7. QED
    BY <1>1, <1>4, <1>5, <1>6

\* Shipping changes the status and the shipment of the chosen allocations and
\* nothing else.
LEMMA ShippedRows ==
    ASSUME TypeOK, NEW ids, NEW s \in Shipment
    PROVE  /\ IsTable(ShippedIn(ids, s), Alloc, AllocRow)
           /\ DOMAIN ShippedIn(ids, s) = DOMAIN allocs
           /\ \A a \in DOMAIN allocs :
                /\ ShippedIn(ids, s)[a].contract = allocs[a].contract
                /\ ShippedIn(ids, s)[a].lot = allocs[a].lot
                /\ ShippedIn(ids, s)[a].kg = allocs[a].kg
                /\ ShippedIn(ids, s)[a].status = IF a \in ids THEN "shipped" ELSE allocs[a].status
                /\ ShippedIn(ids, s)[a].shipment = IF a \in ids THEN s ELSE allocs[a].shipment
  <1>1. DOMAIN allocs \subseteq Alloc /\ \A a \in DOMAIN allocs : allocs[a] \in AllocRow
    BY DEF TypeOK, IsTable
  <1>2. \A a \in DOMAIN allocs :
            [allocs[a] EXCEPT !.status = "shipped", !.shipment = s] \in AllocRow
    BY <1>1 DEF AllocRow
  <1>3. \A a \in DOMAIN allocs : ShippedIn(ids, s)[a] \in AllocRow
    BY <1>1, <1>2 DEF ShippedIn
  <1>4. QED
    BY <1>1, <1>3 DEF ShippedIn, IsTable, AllocRow

------------------------------------------------------------------------------

\* The initial database is well typed.
LEMMA TypeInit == Init => TypeOK
  BY DEF Init, TypeOK, IsTable, Empty

\* A call that allocates keeps every table well typed.
LEMMA AllocateLotType ==
    ASSUME TypeOK,
           NEW a \in Alloc, NEW c \in DOMAIN contracts, NEW l \in DOMAIN lots,
           NEW x \in Weights, AllocateLot(a, c, l, x)
    PROVE  TypeOK'
  <1> DEFINE row == [contract |-> c, lot |-> l, kg |-> Stored(x), status |-> "allocated",
                     shipment |-> NoShipment]
  <1>1. x \in Nat /\ Stored(x) \in Nat
    BY WeightsAssumption, StoredNat
  <1>2. c \in Contract /\ contracts[c] \in ContractRow /\ l \in Lot /\ lots[l] \in LotRow
    BY DEF TypeOK, IsTable
  <1>3. /\ ~Exceeds(x, lots[l].available)
        /\ Stored(Scale * contracts[c].allocated + x) \in Nat
    BY <1>1, <1>2, AllocatedRow DEF AllocateLot
  <1>4. IsTable(allocs', Alloc, AllocRow)
    <2>1. row \in AllocRow
      BY <1>1, <1>2 DEF AllocRow
    <2>2. allocs' = Insert(allocs, a, row)
      BY DEF AllocateLot
    <2>3. QED
      BY <2>1, <2>2, InsertKeepsTable DEF TypeOK
  <1>5. IsTable(contracts', Contract, ContractRow)
    BY <1>1, <1>2, <1>3 DEF AllocateLot, TypeOK, IsTable, ContractRow
  <1>6. IsTable(lots', Lot, LotRow)
    <2>1. Refreshed(Taken(lots[l], x), l, allocs') \in LotRow
      BY <1>1, <1>2, <1>3, TakenRow, RefreshedRow
    <2>2. lots' = [lots EXCEPT ![l] = Refreshed(Taken(lots[l], x), l, allocs')]
      BY DEF AllocateLot
    <2>3. QED
      BY <2>1, <2>2 DEF TypeOK, IsTable
  <1>7. outbox' \subseteq Notice
    BY <1>2 DEF AllocateLot, Announce, TypeOK, Notice
  <1>8. QED
    BY <1>4, <1>5, <1>6, <1>7 DEF AllocateLot, TypeOK

\* A call that ships keeps every table well typed.
LEMMA CreateShipmentType ==
    ASSUME TypeOK,
           NEW s \in Shipment, NEW c \in DOMAIN contracts,
           NEW ids \in (SUBSET DOMAIN allocs) \ {{}}, CreateShipment(s, c, ids)
    PROVE  TypeOK'
  <1>1. c \in Contract /\ contracts[c] \in ContractRow
    BY DEF TypeOK, IsTable
  <1>2. IsTable(allocs', Alloc, AllocRow)
    BY ShippedRows DEF CreateShipment
  <1>3. IsTable(contracts', Contract, ContractRow)
    <2>1. PICK newShipped \in 0..contracts[c].quantity :
            contracts' = [contracts EXCEPT
                ![c].shipped = newShipped,
                ![c].status = NextContractStatus(newShipped, contracts[c].quantity,
                                                 contracts[c].status)]
      BY DEF CreateShipment
    <2>2. newShipped \in Nat
      BY <1>1 DEF ContractRow
    <2>3. NextContractStatus(newShipped, contracts[c].quantity, contracts[c].status)
            \in ContractStatus
      BY <1>1, NextContractStatusType DEF ContractRow
    <2>4. QED
      BY <1>1, <2>1, <2>2, <2>3 DEF TypeOK, IsTable, ContractRow
  <1>4. IsTable(lots', Lot, LotRow)
    BY RefreshedRow DEF CreateShipment, TypeOK, IsTable
  <1>5. IsTable(shipments', Shipment, ShipmentRow)
    <2>1. Lines(allocs, ids) \subseteq Line
      BY DEF Lines, Line, TypeOK, IsTable, AllocRow
    <2>2. [contract |-> c, status |-> "planned", snapshot |-> Lines(allocs, ids)] \in ShipmentRow
      BY <1>1, <2>1 DEF ShipmentRow, ShipmentStatus
    <2>3. QED
      BY <2>2, InsertKeepsTable DEF CreateShipment, TypeOK
  <1>6. outbox' \subseteq Notice
    BY DEF CreateShipment, Announce, TypeOK, Notice
  <1>7. QED
    BY <1>2, <1>3, <1>4, <1>5, <1>6 DEF CreateShipment, TypeOK

\* A correction of a lot keeps every table well typed.
LEMMA AdjustStockType ==
    ASSUME TypeOK,
           NEW l \in DOMAIN lots, NEW delta \in Adjustments, AdjustStock(l, delta)
    PROVE  TypeOK'
  <1>1. l \in Lot /\ lots[l] \in LotRow /\ delta \in Int
    BY WeightsAssumption DEF TypeOK, IsTable
  <1>2. lots' = [lots EXCEPT ![l] = Refreshed(Corrected(lots[l], delta), l, allocs)]
    BY DEF AdjustStock
  <1>3. Refreshed(Corrected(lots[l], delta), l, allocs) \in LotRow
    BY <1>1, CorrectedRow, RefreshedRow
  <1>4. IsTable(lots', Lot, LotRow)
    BY <1>1, <1>2, <1>3 DEF TypeOK, IsTable
  <1>5. adjustments' \in [Lot -> Int] /\ outbox' \subseteq Notice
    <2>1. StoredCorrection(delta) \in Int
      BY <1>1, StoredBounds DEF StoredCorrection
    <2>2. QED
      BY <1>1, <2>1 DEF AdjustStock, Announce, TypeOK, Notice
  <1>6. QED
    BY <1>4, <1>5 DEF AdjustStock, TypeOK

\* The type invariant is inductive.
LEMMA TypeNext ==
    ASSUME TypeOK, [Next]_vars
    PROVE  TypeOK'
  <1>1. ASSUME NEW l \in Lot, NEW x \in Weights, ReceiveLot(l, x)
        PROVE  TypeOK'
    <2>1. Stored(x) \in Nat
      BY WeightsAssumption, StoredNat
    <2>2. [total |-> Stored(x), available |-> Stored(x), status |-> "in_stock"] \in LotRow
      BY <2>1 DEF LotRow, LotStatus
    <2>3. QED
      BY <1>1, <2>2, InsertKeepsTable DEF ReceiveLot, TypeOK
  <1>2. ASSUME NEW c \in Contract, NEW x \in Weights, CreateContract(c, x)
        PROVE  TypeOK'
    <2>1. Stored(x) \in Nat
      BY WeightsAssumption, StoredNat
    <2>2. [quantity |-> Stored(x), allocated |-> 0, shipped |-> 0, status |-> "open"]
            \in ContractRow
      BY <2>1 DEF ContractRow, ContractStatus
    <2>3. outbox' \subseteq Notice
      BY <1>2 DEF CreateContract, Announce, TypeOK, Notice
    <2>4. QED
      BY <1>2, <2>2, <2>3, InsertKeepsTable DEF CreateContract, TypeOK
  <1>3. ASSUME NEW s \in DOMAIN shipments, NEW status \in ShipmentStatus,
               UpdateStatus(s, status)
        PROVE  TypeOK'
    <2>1. s \in Shipment /\ IsTable(shipments', Shipment, ShipmentRow)
      BY <1>3 DEF UpdateStatus, TypeOK, IsTable, ShipmentRow
    <2>2. outbox' \subseteq Notice
      BY <1>3, <2>1 DEF UpdateStatus, Announce, TypeOK, Notice
    <2>3. QED
      BY <1>3, <2>1, <2>2 DEF UpdateStatus, TypeOK
  <1>4. ASSUME NEW s \in DOMAIN shipments, NEW types \in (SUBSET DocType) \ {{}},
               GenerateDocuments(s, types)
        PROVE  TypeOK'
    <2>1. s \in Shipment /\ shipments[s].snapshot \subseteq Line
      BY DEF TypeOK, IsTable, ShipmentRow
    <2>2. Lines(allocs, AllocationsOf(allocs, s)) \subseteq Line
      BY DEF Lines, AllocationsOf, Line, TypeOK, IsTable, AllocRow
    <2>3. documents' \subseteq Document
      BY <1>4, <2>1, <2>2 DEF GenerateDocuments, TypeOK, Document
    <2>4. outbox' \subseteq Notice
      BY <1>4, <2>1 DEF GenerateDocuments, Announce, TypeOK, Notice
    <2>5. QED
      BY <1>4, <2>3, <2>4 DEF GenerateDocuments, TypeOK
  <1>5. ASSUME NEW n \in outbox, Dispatch(n)
        PROVE  TypeOK'
    BY <1>5 DEF Dispatch, TypeOK
  <1>6. CASE UNCHANGED vars
    BY <1>6 DEF vars, TypeOK
  <1>7. QED
    BY <1>1, <1>2, <1>3, <1>4, <1>5, <1>6, AllocateLotType, CreateShipmentType,
       AdjustStockType DEF Next

\* Type correctness of the ledger: no service call ever leaves a weight
\* negative or a status outside its enumeration, whatever decimals it carries.
THEOREM TypeCorrect == Spec => []TypeOK
  BY TypeInit, TypeNext, PTL DEF Spec

------------------------------------------------------------------------------

\* The limits are inductive: each check is made on the row that is updated.
LEMMA LimitsNext ==
    ASSUME TypeOK, WithinLimits, [Next]_vars
    PROVE  WithinLimits'
  <1>1. /\ \A l \in DOMAIN lots : l \in Lot /\ lots[l] \in LotRow
        /\ \A c \in DOMAIN contracts : c \in Contract /\ contracts[c] \in ContractRow
    BY DEF TypeOK, IsTable
  <1>2. ASSUME NEW l \in Lot, NEW x \in Weights, ReceiveLot(l, x)
        PROVE  WithinLimits'
    <2>1. Stored(x) \in Nat
      BY WeightsAssumption, StoredNat
    <2>2. QED
      BY <1>2, <2>1 DEF ReceiveLot, Insert, WithinLimits
  <1>3. ASSUME NEW c \in Contract, NEW x \in Weights, CreateContract(c, x)
        PROVE  WithinLimits'
    <2>1. Stored(x) \in Nat
      BY WeightsAssumption, StoredNat
    <2>2. QED
      BY <1>3, <2>1 DEF CreateContract, Insert, WithinLimits
  <1>4. ASSUME NEW a \in Alloc, NEW c \in DOMAIN contracts, NEW l \in DOMAIN lots,
               NEW x \in Weights, AllocateLot(a, c, l, x)
        PROVE  WithinLimits'
    <2>1. /\ x \in Nat /\ ~Exceeds(x, lots[l].available)
          /\ ~Exceeds(x, contracts[c].quantity - contracts[c].allocated)
      BY <1>4, WeightsAssumption DEF AllocateLot
    <2>2. Stored(Scale * contracts[c].allocated + x) \in 0..contracts[c].quantity
      BY <1>1, <2>1, AllocatedRow DEF ContractRow
    <2>3. \A k \in DOMAIN lots' : lots'[k].available <= lots'[k].total
      <3>1. lots' = [lots EXCEPT ![l] = Refreshed(Taken(lots[l], x), l, allocs')]
        BY <1>4 DEF AllocateLot
      <3>2. /\ lots'[l].available \in Nat
            /\ lots'[l].available <= lots[l].available
            /\ lots'[l].total = lots[l].total
        <4>1. /\ Taken(lots[l], x) \in LotRow
              /\ Taken(lots[l], x).total = lots[l].total
              /\ Taken(lots[l], x).available <= lots[l].available
          BY <1>1, <2>1, TakenRow
        <4>2. QED
          BY <3>1, <4>1, RefreshedRow DEF LotRow
      <3>3. lots'[l].available <= lots'[l].total
        BY <1>1, <3>2 DEF WithinLimits, LotRow
      <3>4. QED
        BY <3>1, <3>3 DEF WithinLimits
    <2>4. \A k \in DOMAIN contracts' : /\ contracts'[k].allocated <= contracts'[k].quantity
                                       /\ contracts'[k].shipped <= contracts'[k].quantity
      BY <1>1, <1>4, <2>1, <2>2 DEF AllocateLot, WithinLimits, ContractRow
    <2>5. QED
      BY <2>3, <2>4 DEF WithinLimits
  <1>5. ASSUME NEW s \in Shipment, NEW c \in DOMAIN contracts,
               NEW ids \in (SUBSET DOMAIN allocs) \ {{}}, CreateShipment(s, c, ids)
        PROVE  WithinLimits'
    <2>1. \A k \in DOMAIN lots' : lots'[k].available <= lots'[k].total
      BY <1>1, <1>5, RefreshedRow DEF CreateShipment, WithinLimits
    <2>2. \A k \in DOMAIN contracts' : /\ contracts'[k].allocated <= contracts'[k].quantity
                                       /\ contracts'[k].shipped <= contracts'[k].quantity
      <3>1. PICK newShipped \in 0..contracts[c].quantity :
            contracts' = [contracts EXCEPT
                ![c].shipped = newShipped,
                ![c].status = NextContractStatus(newShipped, contracts[c].quantity,
                                                 contracts[c].status)]
        BY <1>5 DEF CreateShipment
      <3>2. QED
        BY <1>1, <3>1 DEF WithinLimits, ContractRow
    <2>3. QED
      BY <2>1, <2>2 DEF WithinLimits
  <1>6. ASSUME NEW l \in DOMAIN lots, NEW delta \in Adjustments, AdjustStock(l, delta)
        PROVE  WithinLimits'
    <2>1. delta \in Int
      BY WeightsAssumption
    <2>2. lots' = [lots EXCEPT ![l] = Refreshed(Corrected(lots[l], delta), l, allocs)]
      BY <1>6 DEF AdjustStock
    <2>3. /\ Corrected(lots[l], delta) \in LotRow
          /\ Corrected(lots[l], delta).available <= Corrected(lots[l], delta).total
      BY <1>1, <2>1, CorrectedRow DEF WithinLimits
    <2>4. lots'[l].available <= lots'[l].total
      BY <2>2, <2>3, RefreshedRow
    <2>5. QED
      BY <1>6, <2>2, <2>4 DEF AdjustStock, WithinLimits
  <1>7. ASSUME UNCHANGED <<lots, contracts>>
        PROVE  WithinLimits'
    BY <1>7 DEF WithinLimits
  <1>8. QED
    BY <1>2, <1>3, <1>4, <1>5, <1>6, <1>7
       DEF Next, vars, UpdateStatus, GenerateDocuments, Dispatch

\* Overselling is impossible: whatever calls succeed in whatever order, a lot
\* never has more available than it holds and no contract is over-allocated or
\* over-shipped.  The tolerance of the comparisons adds nothing, as the database
\* rounds it away.
THEOREM LimitsKept == Spec => []WithinLimits
  <1>1. Init => WithinLimits
    BY DEF Init, Empty, WithinLimits
  <1>2. TypeOK /\ WithinLimits /\ [Next]_vars => WithinLimits'
    BY LimitsNext
  <1>3. Spec => []TypeOK
    BY TypeCorrect
  <1>4. QED
    BY <1>1, <1>2, <1>3, PTL DEF Spec

------------------------------------------------------------------------------

\* Traceability is inductive.  Only createShipment points allocations at a
\* shipment, and the shipment it points them at is new.
LEMMA TraceableNext ==
    ASSUME TypeOK, Traceable, [Next]_vars
    PROVE  Traceable'
  <1> USE DEF Traceable
  <1>1. /\ \A a \in DOMAIN allocs : a \in Alloc /\ allocs[a] \in AllocRow
        /\ \A s \in DOMAIN shipments : s \in Shipment /\ shipments[s] \in ShipmentRow
    BY DEF TypeOK, IsTable
  <1>2. ASSUME NEW a \in Alloc, NEW c \in DOMAIN contracts, NEW l \in DOMAIN lots,
               NEW x \in Weights, AllocateLot(a, c, l, x)
        PROVE  Traceable'
    <2>1. /\ a \notin DOMAIN allocs
          /\ DOMAIN allocs' = DOMAIN allocs \cup {a}
          /\ \A b \in DOMAIN allocs : allocs'[b] = allocs[b]
          /\ allocs'[a].lot = l /\ allocs'[a].contract = c
          /\ allocs'[a].status = "allocated" /\ allocs'[a].shipment = NoShipment
      BY <1>2 DEF AllocateLot, Insert
    <2>2. /\ DOMAIN lots' = DOMAIN lots /\ DOMAIN contracts' = DOMAIN contracts
          /\ shipments' = shipments /\ documents' = documents
      BY <1>2 DEF AllocateLot
    <2>3. ReferencesExist'
      BY <2>1, <2>2 DEF ReferencesExist
    <2>4. \A s \in Shipment : /\ AllocationsOf(allocs', s) = AllocationsOf(allocs, s)
                              /\ Lines(allocs', AllocationsOf(allocs, s))
                                    = Lines(allocs, AllocationsOf(allocs, s))
      BY <2>1, NoShipmentAssumption DEF AllocationsOf, Lines
    <2>5. SnapshotFaithful'
      BY <1>1, <2>2, <2>4 DEF SnapshotFaithful
    <2>6. QED
      BY <2>2, <2>3, <2>5 DEF DocumentsAgree
  <1>3. ASSUME NEW s \in Shipment, NEW c \in DOMAIN contracts,
               NEW ids \in (SUBSET DOMAIN allocs) \ {{}}, CreateShipment(s, c, ids)
        PROVE  Traceable'
    <2>1. /\ s \notin DOMAIN shipments
          /\ allocs' = ShippedIn(ids, s)
          /\ \A a \in ids : allocs[a].contract = c /\ allocs[a].status = "allocated"
          /\ documents' = documents /\ DOMAIN lots' = DOMAIN lots
      BY <1>3 DEF CreateShipment, Shippable
    <2>2. DOMAIN contracts' = DOMAIN contracts
      BY <1>3 DEF CreateShipment
    <2>3. /\ DOMAIN shipments' = DOMAIN shipments \cup {s}
          /\ \A t \in DOMAIN shipments : shipments'[t] = shipments[t]
          /\ shipments'[s].contract = c
          /\ shipments'[s].snapshot = Lines(allocs, ids)
      BY <1>3, <2>1 DEF CreateShipment, Insert
    <2>4. ReferencesExist'
      BY <2>1, <2>2, <2>3, ShippedRows DEF ReferencesExist
    <2>5. AllocationsOf(allocs', s) = ids
      <3>1. \A a \in DOMAIN allocs : allocs[a].shipment # s
        BY <1>1, <2>1, NoShipmentAssumption DEF ReferencesExist, AllocRow
      <3>2. QED
        BY <2>1, <3>1, ShippedRows DEF AllocationsOf
    <2>6. \A t \in DOMAIN shipments : AllocationsOf(allocs', t) = AllocationsOf(allocs, t)
      BY <1>1, <2>1, ShippedRows, NoShipmentAssumption DEF AllocationsOf, ReferencesExist
    <2>7. \A some \in SUBSET DOMAIN allocs : Lines(allocs', some) = Lines(allocs, some)
      BY <2>1, ShippedRows DEF Lines
    <2>8. \A t \in Shipment : AllocationsOf(allocs, t) \in SUBSET DOMAIN allocs
      BY DEF AllocationsOf
    <2>9. SnapshotFaithful'
      <3>1. shipments'[s].snapshot = Lines(allocs', AllocationsOf(allocs', s))
        BY <2>3, <2>5, <2>7
      <3>2. ASSUME NEW t \in DOMAIN shipments
            PROVE  shipments'[t].snapshot = Lines(allocs', AllocationsOf(allocs', t))
        BY <1>1, <2>3, <2>6, <2>7, <2>8 DEF SnapshotFaithful
      <3>3. QED
        BY <2>3, <3>1, <3>2 DEF SnapshotFaithful
    <2>10. QED
      BY <2>1, <2>3, <2>4, <2>9 DEF DocumentsAgree
  <1>4. ASSUME NEW s \in DOMAIN shipments, NEW status \in ShipmentStatus,
               UpdateStatus(s, status)
        PROVE  Traceable'
    <2>1. /\ DOMAIN shipments' = DOMAIN shipments
          /\ \A t \in DOMAIN shipments : /\ shipments'[t].contract = shipments[t].contract
                                          /\ shipments'[t].snapshot = shipments[t].snapshot
      BY <1>1, <1>4 DEF UpdateStatus, ShipmentRow
    <2>2. QED
      BY <1>1, <1>4, <2>1
         DEF UpdateStatus, ReferencesExist, SnapshotFaithful, DocumentsAgree
  <1>5. ASSUME NEW s \in DOMAIN shipments, NEW types \in (SUBSET DocType) \ {{}},
               GenerateDocuments(s, types)
        PROVE  Traceable'
    <2>1. shipments[s].snapshot = Lines(allocs, AllocationsOf(allocs, s))
      BY DEF SnapshotFaithful
    <2>2. \A d \in documents' : d \in documents \/ (/\ d.shipment = s
                                                     /\ d.payload = shipments[s].snapshot)
      BY <1>5, <2>1 DEF GenerateDocuments
    <2>3. DocumentsAgree'
      BY <1>5, <2>2 DEF GenerateDocuments, DocumentsAgree
    <2>4. QED
      BY <1>5, <2>3 DEF GenerateDocuments, ReferencesExist, SnapshotFaithful
  <1>6. ASSUME /\ DOMAIN lots \subseteq DOMAIN lots' /\ DOMAIN contracts \subseteq DOMAIN contracts'
               /\ UNCHANGED <<allocs, shipments, documents>>
        PROVE  Traceable'
    BY <1>6 DEF ReferencesExist, SnapshotFaithful, DocumentsAgree
  <1>7. ASSUME NEW l \in Lot, NEW x \in Weights, ReceiveLot(l, x)
        PROVE  Traceable'
    BY <1>6, <1>7 DEF ReceiveLot, Insert
  <1>8. ASSUME NEW c \in Contract, NEW x \in Weights, CreateContract(c, x)
        PROVE  Traceable'
    BY <1>6, <1>8 DEF CreateContract, Insert
  <1>9. ASSUME NEW l \in DOMAIN lots, NEW delta \in Adjustments, AdjustStock(l, delta)
        PROVE  Traceable'
    BY <1>6, <1>9 DEF AdjustStock
  <1>10. ASSUME NEW n \in outbox, Dispatch(n)
         PROVE  Traceable'
    BY <1>6, <1>10 DEF Dispatch
  <1>11. CASE UNCHANGED vars
    BY <1>6, <1>11 DEF vars
  <1>12. QED
    BY <1>2, <1>3, <1>4, <1>5, <1>7, <1>8, <1>9, <1>10, <1>11 DEF Next

\* Every allocation can be traced back to its lot and forward to its shipment,
\* and the snapshot and the documents of a shipment never come apart from the
\* allocations it carries.
THEOREM TraceabilityHolds == Spec => []Traceable
  <1>1. Init => Traceable
    BY DEF Init, Empty, Traceable, ReferencesExist, SnapshotFaithful, DocumentsAgree
  <1>2. TypeOK /\ Traceable /\ [Next]_vars => Traceable'
    BY TraceableNext
  <1>3. Spec => []TypeOK
    BY TypeCorrect
  <1>4. QED
    BY <1>1, <1>2, <1>3, PTL DEF Spec

------------------------------------------------------------------------------

\* The status of every lot stays the one its stock and allocations give it.
\* The calls that change a lot or one of its allocations refresh it; the
\* others do not disturb what the status depends on.
LEMMA LotStatusNext ==
    ASSUME NothingTooSmall, TypeOK, ReferencesExist, LotStatusAgrees, [Next]_vars
    PROVE  LotStatusAgrees'
  <1>1. /\ \A a \in DOMAIN allocs : a \in Alloc /\ allocs[a] \in AllocRow
        /\ \A l \in DOMAIN lots : l \in Lot /\ lots[l] \in LotRow
    BY DEF TypeOK, IsTable
  <1>2. ASSUME NEW l \in Lot, NEW x \in Weights, ReceiveLot(l, x)
        PROVE  LotStatusAgrees'
    <2>1. Stored(x) # 0
      BY DEF NothingTooSmall
    <2>2. OpenAllocations(allocs, l) = {}
      BY <1>2 DEF ReceiveLot, OpenAllocations, ReferencesExist
    <2>3. /\ DOMAIN lots' = DOMAIN lots \cup {l}
          /\ \A k \in DOMAIN lots : lots'[k] = lots[k]
          /\ lots'[l].status = "in_stock" /\ lots'[l].available = Stored(x)
          /\ allocs' = allocs
      BY <1>2, <2>1 DEF ReceiveLot, Insert
    <2>4. lots'[l].status = LotStatusOf(lots'[l].available, OpenAllocations(allocs', l))
      BY <2>1, <2>2, <2>3 DEF LotStatusOf
    <2>5. QED
      BY <2>3, <2>4 DEF LotStatusAgrees
  <1>3. ASSUME NEW a \in Alloc, NEW c \in DOMAIN contracts, NEW l \in DOMAIN lots,
               NEW x \in Weights, AllocateLot(a, c, l, x)
        PROVE  LotStatusAgrees'
    <2>1. lots' = [lots EXCEPT ![l] = Refreshed(Taken(lots[l], x), l, allocs')]
      BY <1>3 DEF AllocateLot
    <2>2. Taken(lots[l], x) \in LotRow
      BY <1>1, <1>3, TakenRow, WeightsAssumption DEF AllocateLot
    <2>3. lots'[l].status = LotStatusOf(lots'[l].available, OpenAllocations(allocs', l))
      BY <2>1, <2>2, RefreshedRow
    <2>4. \A k \in DOMAIN lots : k # l => OpenAllocations(allocs', k) = OpenAllocations(allocs, k)
      <3>1. /\ DOMAIN allocs' = DOMAIN allocs \cup {a}
            /\ \A b \in DOMAIN allocs : allocs'[b] = allocs[b]
            /\ allocs'[a].lot = l
        BY <1>3 DEF AllocateLot, Insert
      <3>2. QED
        BY <3>1 DEF OpenAllocations
    <2>5. QED
      BY <2>1, <2>3, <2>4 DEF LotStatusAgrees
  <1>4. ASSUME NEW s \in Shipment, NEW c \in DOMAIN contracts,
               NEW ids \in (SUBSET DOMAIN allocs) \ {{}}, CreateShipment(s, c, ids)
        PROVE  LotStatusAgrees'
    <2> DEFINE touched == {allocs[a].lot : a \in ids}
    <2>1. /\ allocs' = ShippedIn(ids, s)
          /\ lots' = [l \in DOMAIN lots |->
                        IF l \in touched THEN Refreshed(lots[l], l, allocs') ELSE lots[l]]
      BY <1>4 DEF CreateShipment
    <2>2. ASSUME NEW l \in DOMAIN lots, l \in touched
          PROVE  lots'[l].status = LotStatusOf(lots'[l].available, OpenAllocations(allocs', l))
      BY <1>1, <2>1, <2>2, RefreshedRow
    <2>3. ASSUME NEW l \in DOMAIN lots, l \notin touched
          PROVE  lots'[l].status = LotStatusOf(lots'[l].available, OpenAllocations(allocs', l))
      <3>1. OpenAllocations(allocs', l) = OpenAllocations(allocs, l)
        BY <2>1, <2>3, ShippedRows DEF OpenAllocations
      <3>2. QED
        BY <2>1, <2>3, <3>1 DEF LotStatusAgrees
    <2>4. QED
      BY <2>1, <2>2, <2>3 DEF LotStatusAgrees
  <1>5. ASSUME NEW l \in DOMAIN lots, NEW delta \in Adjustments, AdjustStock(l, delta)
        PROVE  LotStatusAgrees'
    <2>1. Corrected(lots[l], delta) \in LotRow
      BY <1>1, CorrectedRow, WeightsAssumption
    <2>2. /\ lots' = [lots EXCEPT ![l] = Refreshed(Corrected(lots[l], delta), l, allocs)]
          /\ allocs' = allocs
      BY <1>5 DEF AdjustStock
    <2>3. lots'[l].status = LotStatusOf(lots'[l].available, OpenAllocations(allocs', l))
      BY <2>1, <2>2, RefreshedRow
    <2>4. QED
      BY <2>2, <2>3 DEF LotStatusAgrees
  <1>6. ASSUME UNCHANGED <<lots, allocs>>
        PROVE  LotStatusAgrees'
    BY <1>6 DEF LotStatusAgrees
  <1>7. QED
    BY <1>2, <1>3, <1>4, <1>5, <1>6
       DEF Next, vars, CreateContract, UpdateStatus, GenerateDocuments, Dispatch

\* The stored status of a lot is always the derived one: no interleaving of
\* complete calls can leave it stale.  (A lot received with a weight that rounds
\* to nothing would be in stock and empty.)
THEOREM LotStatusCorrect ==
    ASSUME NothingTooSmall
    PROVE  Spec => []LotStatusAgrees
  <1>1. Init => LotStatusAgrees
    BY DEF Init, Empty, LotStatusAgrees
  <1>2. TypeOK /\ Traceable /\ LotStatusAgrees /\ [Next]_vars => LotStatusAgrees'
    BY LotStatusNext DEF Traceable
  <1>3. Spec => []TypeOK /\ []Traceable
    BY TypeCorrect, TraceabilityHolds
  <1>4. QED
    BY <1>1, <1>2, <1>3, PTL DEF Spec

------------------------------------------------------------------------------

\* What a step may do to the rows that exist, call by call, and with whatever
\* decimals.
LEMMA RecordsNext ==
    ASSUME TypeOK, [Next]_vars
    PROVE  /\ AllocationsKept /\ ShipmentsKept /\ ContractsKept
           /\ DOMAIN lots \subseteq DOMAIN lots' /\ documents \subseteq documents'
  <1> DEFINE Kept == /\ AllocationsKept /\ ShipmentsKept /\ ContractsKept
                     /\ DOMAIN lots \subseteq DOMAIN lots' /\ documents \subseteq documents'
  <1>1. /\ \A c \in DOMAIN contracts : c \in Contract /\ contracts[c] \in ContractRow
        /\ \A s \in DOMAIN shipments : s \in Shipment /\ shipments[s] \in ShipmentRow
    BY DEF TypeOK, IsTable
  <1>2. \A status \in ShipmentStatus : StageOf[status] \in Nat
    BY DEF ShipmentStatus, StageOf
  <1>3. ASSUME UNCHANGED allocs  PROVE AllocationsKept
    BY <1>3 DEF AllocationsKept
  <1>4. ASSUME UNCHANGED shipments  PROVE ShipmentsKept
    BY <1>1, <1>2, <1>4 DEF ShipmentsKept, ShipmentRow
  <1>5. ASSUME UNCHANGED contracts  PROVE ContractsKept
    BY <1>1, <1>5 DEF ContractsKept, ContractRow
  <1>6. ASSUME NEW l \in Lot, NEW x \in Weights, ReceiveLot(l, x)
        PROVE  Kept
    BY <1>3, <1>4, <1>5, <1>6 DEF ReceiveLot, Insert
  <1>7. ASSUME NEW c \in Contract, NEW x \in Weights, CreateContract(c, x)
        PROVE  Kept
    <2>1. ContractsKept
      BY <1>1, <1>7 DEF CreateContract, Insert, ContractsKept, ContractRow
    <2>2. QED
      BY <1>3, <1>4, <1>7, <2>1 DEF CreateContract
  <1>8. ASSUME NEW a \in Alloc, NEW c \in DOMAIN contracts, NEW l \in DOMAIN lots,
               NEW x \in Weights, AllocateLot(a, c, l, x)
        PROVE  Kept
    <2>1. AllocationsKept
      BY <1>8 DEF AllocateLot, Insert, AllocationsKept
    <2>2. /\ Stored(Scale * contracts[c].allocated + x) \in Nat
          /\ Stored(Scale * contracts[c].allocated + x) >= contracts[c].allocated
      BY <1>1, <1>8, AllocatedRow, WeightsAssumption DEF AllocateLot
    <2>3. ContractsKept
      BY <1>1, <1>8, <2>2 DEF AllocateLot, ContractsKept, ContractRow
    <2>4. QED
      BY <1>4, <1>8, <2>1, <2>3 DEF AllocateLot
  <1>9. ASSUME NEW s \in Shipment, NEW c \in DOMAIN contracts,
               NEW ids \in (SUBSET DOMAIN allocs) \ {{}}, CreateShipment(s, c, ids)
        PROVE  Kept
    <2>1. AllocationsKept
      <3>1. s \in DOMAIN shipments' \ DOMAIN shipments
        BY <1>9 DEF CreateShipment, Insert
      <3>2. \A a \in DOMAIN allocs : a \in ids => allocs[a].status = "allocated"
        BY <1>9 DEF CreateShipment, Shippable
      <3>3. QED
        BY <1>9, <3>1, <3>2 DEF CreateShipment, ShippedIn, AllocationsKept
    <2>2. ShipmentsKept
      BY <1>1, <1>2, <1>9 DEF CreateShipment, Insert, ShipmentsKept, ShipmentRow
    <2>3. ContractsKept
      BY <1>1, <1>9 DEF CreateShipment, ContractsKept, ContractRow
    <2>4. QED
      BY <1>9, <2>1, <2>2, <2>3 DEF CreateShipment
  <1>10. ASSUME NEW l \in DOMAIN lots, NEW delta \in Adjustments, AdjustStock(l, delta)
         PROVE  Kept
    BY <1>3, <1>4, <1>5, <1>10 DEF AdjustStock
  <1>11. ASSUME NEW s \in DOMAIN shipments, NEW status \in ShipmentStatus,
                UpdateStatus(s, status)
         PROVE  Kept
    <2>1. ShipmentsKept
      BY <1>1, <1>2, <1>11 DEF UpdateStatus, NotBackwards, ShipmentsKept, ShipmentRow
    <2>2. QED
      BY <1>3, <1>5, <1>11, <2>1 DEF UpdateStatus
  <1>12. ASSUME NEW s \in DOMAIN shipments, NEW types \in (SUBSET DocType) \ {{}},
                GenerateDocuments(s, types)
         PROVE  Kept
    BY <1>3, <1>4, <1>5, <1>12 DEF GenerateDocuments
  <1>13. ASSUME UNCHANGED <<lots, contracts, allocs, shipments, documents, adjustments>>
         PROVE  Kept
    BY <1>3, <1>4, <1>5, <1>13
  <1>14. QED
    BY <1>6, <1>7, <1>8, <1>9, <1>10, <1>11, <1>12, <1>13 DEF Next, vars, Dispatch

\* In whole units a lot's total moves by exactly what is recorded as a
\* correction; with finer decimals the two are rounded separately.
LEMMA LotsNext ==
    ASSUME WholeUnits, TypeOK, [Next]_vars
    PROVE  LotsKept
  <1>1. /\ \A l \in DOMAIN lots : l \in Lot /\ lots[l] \in LotRow
        /\ adjustments \in [Lot -> Int]
    BY DEF TypeOK, IsTable
  <1> DEFINE SameTotals == /\ DOMAIN lots' = DOMAIN lots /\ UNCHANGED adjustments
                           /\ \A l \in DOMAIN lots : lots'[l].total = lots[l].total
  <1>2. ASSUME SameTotals  PROVE LotsKept
    BY <1>1, <1>2 DEF LotsKept, LotRow
  <1>3. ASSUME NEW l \in Lot, NEW x \in Weights, ReceiveLot(l, x)
        PROVE  LotsKept
    BY <1>1, <1>3 DEF ReceiveLot, Insert, LotsKept, LotRow
  <1>4. ASSUME NEW a \in Alloc, NEW c \in DOMAIN contracts, NEW l \in DOMAIN lots,
               NEW x \in Weights, AllocateLot(a, c, l, x)
        PROVE  LotsKept
    <2>1. /\ Taken(lots[l], x) \in LotRow
          /\ Taken(lots[l], x).total = lots[l].total
      BY <1>1, <1>4, TakenRow, WeightsAssumption DEF AllocateLot
    <2>2. SameTotals
      BY <1>1, <1>4, <2>1, RefreshedRow DEF AllocateLot
    <2>3. QED
      BY <1>2, <2>2
  <1>5. ASSUME NEW s \in Shipment, NEW c \in DOMAIN contracts,
               NEW ids \in (SUBSET DOMAIN allocs) \ {{}}, CreateShipment(s, c, ids)
        PROVE  LotsKept
    BY <1>1, <1>2, <1>5, RefreshedRow DEF CreateShipment
  <1>6. ASSUME NEW l \in DOMAIN lots, NEW delta \in Adjustments, AdjustStock(l, delta)
        PROVE  LotsKept
    <2>1. /\ delta \in Int /\ StoredCorrection(delta) = delta
          /\ lots[l].total + delta >= 0 /\ lots[l].available + delta >= 0
      BY <1>1, <1>6, WholeUnitArithmetic, WeightsAssumption DEF AdjustStock, LotRow
    <2>2. /\ DOMAIN lots' = DOMAIN lots
          /\ \A m \in DOMAIN lots \ {l} : lots'[m] = lots[m]
          /\ lots'[l].total = lots[l].total + delta
      <3>1. /\ Corrected(lots[l], delta) \in LotRow
            /\ Corrected(lots[l], delta).total = lots[l].total + delta
        BY <1>1, <2>1, CorrectedRow
      <3>2. Refreshed(Corrected(lots[l], delta), l, allocs).total = lots[l].total + delta
        BY <3>1, RefreshedRow
      <3>3. QED
        BY <1>6, <3>2 DEF AdjustStock
    <2>3. adjustments' = [adjustments EXCEPT ![l] = @ + delta]
      BY <1>6, <2>1 DEF AdjustStock
    <2>4. QED
      BY <1>1, <2>1, <2>2, <2>3 DEF LotsKept, LotRow
  <1>7. ASSUME UNCHANGED <<lots, adjustments>>
        PROVE  LotsKept
    BY <1>2, <1>7
  <1>8. QED
    BY <1>3, <1>4, <1>5, <1>6, <1>7
       DEF Next, vars, CreateContract, UpdateStatus, GenerateDocuments, Dispatch

\* The record of past trades is append-only.
THEOREM HistoryIsKept ==
    ASSUME WholeUnits
    PROVE  Spec => HistoryKept
  <1>1. TypeOK /\ [Next]_vars =>
            [ /\ AllocationsKept /\ ShipmentsKept /\ ContractsKept
              /\ LotsKept /\ documents \subseteq documents' ]_vars
    BY RecordsNext, LotsNext
  <1>2. Spec => []TypeOK
    BY TypeCorrect
  <1>3. QED
    BY <1>1, <1>2, PTL DEF Spec, HistoryKept

------------------------------------------------------------------------------

\* A notification that is true stays true while it waits.
LEMMA NoticeStaysTrue ==
    ASSUME TypeOK, WithinLimits, [Next]_vars,
           NEW n \in Notice, NoticeTrue(n)
    PROVE  NoticeTrue(n)'
  <1>1. /\ \A c \in DOMAIN contracts : contracts[c] \in ContractRow
        /\ \A c \in DOMAIN contracts' : contracts'[c] \in ContractRow
        /\ \A s \in DOMAIN shipments : shipments[s] \in ShipmentRow
        /\ \A s \in DOMAIN shipments' : shipments'[s] \in ShipmentRow
    BY TypeNext DEF TypeOK, IsTable
  <1>2. /\ ShipmentsKept /\ ContractsKept
        /\ DOMAIN lots \subseteq DOMAIN lots' /\ documents \subseteq documents'
    BY RecordsNext
  <1>3. WithinLimits'
    BY LimitsNext
  <1>4. CASE n.event = "contract_created"
    BY <1>2, <1>4 DEF NoticeTrue, ContractsKept
  <1>5. CASE n.event = "contract_fully_allocated"
    <2>1. /\ n.about \in DOMAIN contracts
          /\ contracts[n.about].allocated = contracts[n.about].quantity
      BY <1>5 DEF NoticeTrue
    <2>2. contracts'[n.about].allocated = contracts'[n.about].quantity
      BY <1>1, <1>2, <1>3, <2>1 DEF ContractsKept, WithinLimits, ContractRow
    <2>3. QED
      BY <1>2, <1>5, <2>1, <2>2 DEF NoticeTrue, ContractsKept
  <1>6. CASE n.event = "shipment_created"
    BY <1>2, <1>6 DEF NoticeTrue, ShipmentsKept
  <1>7. CASE n.event = "shipment_status_changed"
    <2>1. /\ n.about \in DOMAIN shipments
          /\ StageOf[shipments[n.about].status] >= StageOf[n.status]
      BY <1>7 DEF NoticeTrue
    <2>2. n.status \in ShipmentStatus
      BY <1>7 DEF Notice
    <2>3. \A status \in ShipmentStatus : StageOf[status] \in Nat
      BY DEF ShipmentStatus, StageOf
    <2>4. /\ n.about \in DOMAIN shipments'
          /\ StageOf[shipments'[n.about].status] >= StageOf[shipments[n.about].status]
      BY <1>2, <2>1 DEF ShipmentsKept
    <2>5. StageOf[shipments'[n.about].status] >= StageOf[n.status]
      BY <1>1, <2>1, <2>2, <2>3, <2>4 DEF ShipmentRow
    <2>6. QED
      BY <1>7, <2>4, <2>5 DEF NoticeTrue
  <1>8. CASE n.event = "shipment_documents_ready"
    BY <1>2, <1>8 DEF NoticeTrue
  <1>9. CASE n.event = "stock_adjusted"
    BY <1>2, <1>9 DEF NoticeTrue
  <1>10. QED
    BY <1>4, <1>5, <1>6, <1>7, <1>8, <1>9 DEF Notice

\* The notifications of a call are true of what it committed.
LEMMA NewNoticesTrue ==
    ASSUME TypeOK, WithinLimits, [Next]_vars, NEW n \in outbox' \ outbox
    PROVE  NoticeTrue(n)'
  <1>1. ASSUME NEW c \in Contract, NEW x \in Weights, CreateContract(c, x)
        PROVE  NoticeTrue(n)'
    <2>1. n = [event |-> "contract_created", about |-> c]
      BY <1>1 DEF CreateContract, Announce
    <2>2. c \in DOMAIN contracts'
      BY <1>1 DEF CreateContract, Insert
    <2>3. QED
      BY <2>1, <2>2 DEF NoticeTrue
  <1>2. ASSUME NEW a \in Alloc, NEW c \in DOMAIN contracts, NEW l \in DOMAIN lots,
               NEW x \in Weights, AllocateLot(a, c, l, x)
        PROVE  NoticeTrue(n)'
    <2>1. n = [event |-> "contract_fully_allocated", about |-> c]
      BY <1>2 DEF AllocateLot, Announce
    <2>2. /\ c \in DOMAIN contracts' /\ contracts'[c] \in ContractRow
          /\ contracts'[c].allocated <= contracts'[c].quantity
      BY <1>2, TypeNext, LimitsNext DEF AllocateLot, TypeOK, IsTable, WithinLimits
    <2>3. contracts'[c].allocated >= contracts'[c].quantity
      <3>1. Stored(Scale * contracts[c].allocated + x) >= contracts[c].quantity
        BY <1>2 DEF AllocateLot, Announce
      <3>2. contracts[c] \in ContractRow
        BY DEF TypeOK, IsTable
      <3>3. /\ contracts'[c].allocated = Stored(Scale * contracts[c].allocated + x)
            /\ contracts'[c].quantity = contracts[c].quantity
        BY <1>2, <3>2 DEF AllocateLot, ContractRow
      <3>4. QED
        BY <3>1, <3>3
    <2>4. QED
      BY <2>1, <2>2, <2>3 DEF NoticeTrue, ContractRow
  <1>3. ASSUME NEW s \in Shipment, NEW c \in DOMAIN contracts,
               NEW ids \in (SUBSET DOMAIN allocs) \ {{}}, CreateShipment(s, c, ids)
        PROVE  NoticeTrue(n)'
    <2>1. n = [event |-> "shipment_created", about |-> s]
      BY <1>3 DEF CreateShipment, Announce
    <2>2. s \in DOMAIN shipments'
      BY <1>3 DEF CreateShipment, Insert
    <2>3. QED
      BY <2>1, <2>2 DEF NoticeTrue
  <1>4. ASSUME NEW l \in DOMAIN lots, NEW delta \in Adjustments, AdjustStock(l, delta)
        PROVE  NoticeTrue(n)'
    <2>1. n = [event |-> "stock_adjusted", about |-> l]
      BY <1>4 DEF AdjustStock, Announce
    <2>2. l \in DOMAIN lots'
      BY <1>4 DEF AdjustStock
    <2>3. QED
      BY <2>1, <2>2 DEF NoticeTrue
  <1>5. ASSUME NEW s \in DOMAIN shipments, NEW status \in ShipmentStatus,
               UpdateStatus(s, status)
        PROVE  NoticeTrue(n)'
    <2>1. n = [event |-> "shipment_status_changed", about |-> s, status |-> status]
      BY <1>5 DEF UpdateStatus, Announce
    <2>2. s \in DOMAIN shipments' /\ shipments'[s].status = status
      BY <1>5 DEF UpdateStatus, TypeOK, IsTable, ShipmentRow
    <2>3. StageOf[status] \in Nat
      BY DEF ShipmentStatus, StageOf
    <2>4. QED
      BY <2>1, <2>2, <2>3 DEF NoticeTrue
  <1>6. ASSUME NEW s \in DOMAIN shipments, NEW types \in (SUBSET DocType) \ {{}},
               GenerateDocuments(s, types)
        PROVE  NoticeTrue(n)'
    <2>1. n = [event |-> "shipment_documents_ready", about |-> s]
      BY <1>6 DEF GenerateDocuments, Announce
    <2>2. \E d \in documents' : d.shipment = s
      <3>1. types # {}
        OBVIOUS
      <3>2. \E type \in types : \E payload :
                [shipment |-> s, type |-> type, payload |-> payload] \in documents'
        BY <1>6, <3>1 DEF GenerateDocuments
      <3>3. QED
        BY <3>2
    <2>3. QED
      BY <2>1, <2>2 DEF NoticeTrue
  <1>7. ASSUME outbox' \subseteq outbox
        PROVE  NoticeTrue(n)'
    BY <1>7
  <1>8. QED
    BY <1>1, <1>2, <1>3, <1>4, <1>5, <1>6, <1>7 DEF Next, vars, ReceiveLot, Dispatch

\* No phantom alerts: a notification is true of the committed data whenever it
\* is sent, however long its handler waited and whatever other calls did.
THEOREM AlertsAreTrue == Spec => []NoPhantomAlert
  <1>1. Init => NoPhantomAlert
    BY DEF Init, NoPhantomAlert
  <1>2. TypeOK /\ WithinLimits /\ NoPhantomAlert /\ [Next]_vars => NoPhantomAlert'
    <2> SUFFICES ASSUME TypeOK, WithinLimits, NoPhantomAlert, [Next]_vars,
                        NEW n \in outbox'
                 PROVE  NoticeTrue(n)'
      BY DEF NoPhantomAlert
    <2>1. CASE n \in outbox
      BY <2>1, NoticeStaysTrue DEF NoPhantomAlert, TypeOK
    <2>2. CASE n \notin outbox
      BY <2>2, NewNoticesTrue
    <2>3. QED
      BY <2>1, <2>2
  <1>3. Spec => []TypeOK /\ []WithinLimits
    BY TypeCorrect, LimitsKept
  <1>4. QED
    BY <1>1, <1>2, <1>3, PTL DEF Spec

\* The fully-allocated alert is raised at most once per contract, because only
\* the step that completes a contract raises it and a complete contract stays
\* complete.  (An allocation that rounds to nothing would raise it again.)
THEOREM AlertOnce ==
    ASSUME NothingTooSmall
    PROVE  Spec => FullyAllocatedOnce
  <1>1. ASSUME TypeOK, WithinLimits, [Next]_vars
        PROVE  [AlertCompletes]_vars
    <2> SUFFICES ASSUME NEW c \in DOMAIN contracts,
                        [event |-> "contract_fully_allocated", about |-> c] \in outbox' \ outbox
                 PROVE  /\ contracts[c].allocated < contracts[c].quantity
                        /\ contracts'[c].allocated = contracts'[c].quantity
      BY DEF AlertCompletes
    <2>0. PICK alert \in outbox' \ outbox :
            /\ alert = [event |-> "contract_fully_allocated", about |-> c]
            /\ alert.event = "contract_fully_allocated"
            /\ alert.about = c
      OBVIOUS
    <2>1. contracts'[c].allocated = contracts'[c].quantity
      <3>1. NoticeTrue(alert)'
        BY <1>1, NewNoticesTrue
      <3>2. QED
        BY <2>0, <3>1 DEF NoticeTrue
    <2>2. PICK a \in Alloc, k \in DOMAIN contracts, l \in DOMAIN lots, x \in Weights :
            AllocateLot(a, k, l, x)
      <3>1. ASSUME NEW s \in DOMAIN shipments, NEW status \in ShipmentStatus,
                   UpdateStatus(s, status)
            PROVE  FALSE
        BY <2>0, <3>1 DEF UpdateStatus, Announce
      <3>2. ASSUME NEW s \in Shipment, NEW k \in DOMAIN contracts,
                   NEW ids \in (SUBSET DOMAIN allocs) \ {{}}, CreateShipment(s, k, ids)
            PROVE  FALSE
        BY <2>0, <3>2 DEF CreateShipment, Announce
      <3>3. ASSUME NEW s \in DOMAIN shipments, NEW types \in (SUBSET DocType) \ {{}},
                   GenerateDocuments(s, types)
            PROVE  FALSE
        BY <2>0, <3>3 DEF GenerateDocuments, Announce
      <3>4. ASSUME NEW l \in DOMAIN lots, NEW delta \in Adjustments, AdjustStock(l, delta)
            PROVE  FALSE
        BY <2>0, <3>4 DEF AdjustStock, Announce
      <3>5. ASSUME NEW k \in Contract, NEW x \in Weights, CreateContract(k, x)
            PROVE  FALSE
        BY <2>0, <3>5 DEF CreateContract, Announce
      <3>6. QED
        BY <1>1, <2>0, <3>1, <3>2, <3>3, <3>4, <3>5 DEF Next, vars, ReceiveLot, Dispatch
    <2>3. k = c
      BY <2>0, <2>2 DEF AllocateLot, Announce
    <2>4. /\ contracts[c] \in ContractRow /\ Stored(x) \in Nat \ {0}
          /\ ~Exceeds(x, contracts[c].quantity - contracts[c].allocated)
      BY <1>1, <2>2, <2>3, StoredNat, WeightsAssumption
         DEF AllocateLot, TypeOK, IsTable, NothingTooSmall
    <2>5. /\ contracts'[c].allocated = contracts[c].allocated + Stored(x)
          /\ contracts'[c].quantity = contracts[c].quantity
      BY <2>2, <2>3, <2>4, AllocatedRow, WeightsAssumption DEF AllocateLot, ContractRow
    <2>6. contracts[c].quantity = contracts[c].allocated + Stored(x)
      BY <2>1, <2>5
    <2>7. /\ contracts[c].allocated \in Nat /\ contracts[c].quantity \in Nat
          /\ Stored(x) \in Nat /\ Stored(x) > 0
      BY <2>4 DEF ContractRow
    <2>8. contracts[c].allocated < contracts[c].quantity
      BY <2>6, <2>7
    <2>9. QED
      BY <2>1, <2>8
  <1>2. Spec => []TypeOK /\ []WithinLimits
    BY TypeCorrect, LimitsKept
  <1>3. QED
    BY <1>1, <1>2, PTL DEF Spec, FullyAllocatedOnce

------------------------------------------------------------------------------
\* The weight of a set of allocations

\* What a set of allocations weighs is the number of its units: one pair per
\* gram of each.  Counting replaces the recursion of the sum, about which
\* nothing could be proved for every set.
Units(table, ids) == UNION {{a} \X (1..table[a].kg) : a \in ids}

\* An allocation has as many units as it weighs.
LEMMA OwnUnits ==
    ASSUME NEW a, NEW n \in Nat
    PROVE  IsFiniteSet({a} \X (1..n)) /\ Cardinality({a} \X (1..n)) = n
  <1>1. IsFiniteSet({a}) /\ Cardinality({a}) = 1
    BY FS_Singleton
  <1>2. IsFiniteSet(1..n) /\ Cardinality(1..n) = n
    <2>1. /\ IsFiniteSet(1..n)
          /\ Cardinality(1..n) = IF 1 > n THEN 0 ELSE n-1+1
      BY FS_Interval
    <2>2. QED
      BY <2>1
  <1>3. /\ IsFiniteSet({a} \X (1..n))
        /\ Cardinality({a} \X (1..n)) = Cardinality({a}) * Cardinality(1..n)
    BY <1>1, <1>2, FS_Product
  <1>4. QED
    BY <1>1, <1>2, <1>3

\* Finitely many allocations have finitely many units.
LEMMA UnitsFinite ==
    ASSUME NEW table, NEW ids, IsFiniteSet(ids), \A a \in ids : table[a].kg \in Nat
    PROVE IsFiniteSet(Units(table, ids))
  <1> DEFINE own == [a \in ids |-> {a} \X (1..table[a].kg)]
             parts == {own[a] : a \in ids}
  <1>1. \A a \in ids : IsFiniteSet(own[a])
    BY OwnUnits
  <1>2. IsFiniteSet(parts)
    <2>1. own \in Surjection(ids, parts)
      BY DEF Surjection
    <2> HIDE DEF own, parts
    <2>2. QED
      BY <2>1, FS_Surjection
  <1>3. IsFiniteSet(UNION parts)
    BY <1>1, <1>2, FS_UNION
  <1>4. QED BY <1>3 DEF Units

\* Taking one allocation out of a set takes away its weight.
LEMMA UnitsAdd ==
    ASSUME NEW table, NEW ids, IsFiniteSet(ids), \A a \in ids : table[a].kg \in Nat, NEW x \in ids
    PROVE  Cardinality(Units(table, ids)) = table[x].kg + Cardinality(Units(table, ids \ {x}))
  <1> DEFINE own == {x} \X (1..table[x].kg)
             rest == Units(table, ids \ {x})
  <1>1. IsFiniteSet(own) /\ Cardinality(own) = table[x].kg
    BY OwnUnits
  <1>2. IsFiniteSet(ids \ {x}) /\ IsFiniteSet(rest)
    BY FS_RemoveElement, UnitsFinite
  <1>3. Units(table, ids) = own \cup rest /\ own \cap rest = {}
    BY DEF Units
  <1>5. Cardinality({}) = 0 /\ Cardinality(rest) \in Nat
    BY <1>2, FS_EmptySet, FS_CardinalityType
  <1> HIDE DEF own, rest
  <1>4. Cardinality(own \cup rest) = Cardinality(own) + Cardinality(rest) - Cardinality(own \cap rest)
    BY <1>1, <1>2, FS_Union
  <1>8. /\ Cardinality(Units(table, ids)) = Cardinality(own \cup rest)
        /\ Cardinality(own \cap rest) = Cardinality({})
    BY <1>3, Zenon
  <1>6. Cardinality(own \cup rest) = table[x].kg + Cardinality(rest)
    BY <1>1, <1>4, <1>5, <1>8
  <1>7. QED
    BY <1>6, <1>8 DEF rest

\* The equation the fold behind Weight chooses its function by.
Rec(G, table, ids) ==
    G = [s \in SUBSET ids |->
            IF s = {} THEN 0
            ELSE table[CHOOSE x \in s : TRUE].kg + G[s \ {CHOOSE x \in s : TRUE}]]

\* The sum is the count: the count solves the equation of the fold, and two
\* solutions that differ would differ on a smallest set.
LEMMA WeightIsCount ==
    ASSUME NEW table, NEW ids, IsFiniteSet(ids), \A a \in ids : table[a].kg \in Nat
    PROVE Weight(table, ids) = Cardinality(Units(table, ids))
  <1> DEFINE Count == [s \in SUBSET ids |-> Cardinality(Units(table, s))]
             Fold == CHOOSE iter : Rec(iter, table, ids)
  <1>1. Weight(table, ids) = Fold[ids]
    BY DEF Weight, MapThenSumSet, MapThenFoldSet, Rec
  <1>2. Rec(Count, table, ids)
    <2> SUFFICES ASSUME NEW s \in SUBSET ids
                 PROVE  Cardinality(Units(table, s))
                            = IF s = {} THEN 0
                              ELSE table[CHOOSE x \in s : TRUE].kg
                                        + Count[s \ {CHOOSE x \in s : TRUE}]
      BY DEF Rec
    <2>1. CASE s = {}
      BY <2>1, FS_EmptySet DEF Units
    <2>2. CASE s # {}
      <3> DEFINE y == CHOOSE x \in s : TRUE
      <3>1. y \in s
        BY <2>2
      <3>2. IsFiniteSet(s) /\ \A a \in s : table[a].kg \in Nat
        BY FS_Subset
      <3> HIDE DEF y
      <3>3. Cardinality(Units(table, s)) = table[y].kg + Cardinality(Units(table, s \ {y}))
        BY <3>1, <3>2, UnitsAdd
      <3>4. Cardinality(Units(table, s)) = table[y].kg + Count[s \ {y}]
        BY <3>3
      <3>5. QED
        BY <2>2, <3>4 DEF y
    <2>3. QED
      BY <2>1, <2>2
  <1>3. Rec(Fold, table, ids)
    <2> DEFINE P(iter) == Rec(iter, table, ids)
    <2>1. \E iter : P(iter)
      BY <1>2
    <2> HIDE DEF P
    <2>2. P(CHOOSE iter : P(iter))
      BY <2>1
    <2>3. QED
      BY <2>2 DEF P
  <1>4. ASSUME NEW G, Rec(G, table, ids), NEW H, Rec(H, table, ids)
        PROVE G[ids] = H[ids]
    <2> DEFINE Differ == {s \in SUBSET ids : G[s] # H[s]}
    <2>1. SUFFICES Differ = {}
      OBVIOUS
    <2>2. SUFFICES ASSUME Differ # {} PROVE FALSE
      OBVIOUS
    <2>3. IsWellFoundedOn(StrictSubsetOrdering(ids), SUBSET ids)
      BY FS_StrictSubsetOrderingWellFounded, FS_FiniteSubsetsOfFinite
    <2>4. PICK s \in Differ : \A t \in Differ : ~(<<t, s>> \in StrictSubsetOrdering(ids))
      BY <2>2, <2>3, WFMin
    <2>5. CASE s = {}
      BY <2>4, <2>5, <1>4 DEF Rec
    <2>6. CASE s # {}
      <3> DEFINE y == CHOOSE x \in s : TRUE
      <3>1. y \in s
        BY <2>6
      <3>2. G[s] = table[y].kg + G[s \ {y}] /\ H[s] = table[y].kg + H[s \ {y}]
        BY <2>4, <2>6, <1>4 DEF Rec
      <3> HIDE DEF y
      <3>3. <<s \ {y}, s>> \in StrictSubsetOrdering(ids)
        BY <3>1, <2>4 DEF StrictSubsetOrdering
      <3>4. G[s \ {y}] = H[s \ {y}]
        BY <3>3, <2>4
      <3>5. QED
        BY <3>2, <3>4, <2>4
    <2>7. QED
      BY <2>5, <2>6
  <1>5. Fold[ids] = Count[ids]
    <2> HIDE DEF Fold, Count
    <2> QED BY <1>2, <1>3, <1>4
  <1>6. QED
    <2> HIDE DEF Fold
    <2> QED BY <1>1, <1>5

\* A table of allocations whose weights can be added up.
Weighed(table) == IsFiniteSet(DOMAIN table) /\ \A a \in DOMAIN table : table[a].kg \in Nat

\* The weight of some allocations is a number, and it is their count of units.
LEMMA WeightType ==
    ASSUME NEW table, Weighed(table), NEW ids \in SUBSET DOMAIN table
    PROVE  /\ IsFiniteSet(ids) /\ Weight(table, ids) \in Nat
           /\ Weight(table, ids) = Cardinality(Units(table, ids))
           /\ IsFiniteSet(Units(table, ids))
  <1>1. IsFiniteSet(ids) /\ \A a \in ids : table[a].kg \in Nat
    BY FS_Subset DEF Weighed
  <1>2. QED
    BY <1>1, WeightIsCount, UnitsFinite, FS_CardinalityType

\* Disjoint sets of allocations weigh together what they weigh apart.
LEMMA WeightUnion ==
    ASSUME NEW table, Weighed(table),
           NEW ids \in SUBSET DOMAIN table, NEW more \in SUBSET DOMAIN table,
           ids \cap more = {}
    PROVE  Weight(table, ids \cup more) = Weight(table, ids) + Weight(table, more)
  <1> DEFINE U == Units(table, ids)
             V == Units(table, more)
  <1>1. Units(table, ids \cup more) = U \cup V /\ U \cap V = {}
    BY DEF Units
  <1>2. /\ IsFiniteSet(U) /\ Weight(table, ids) = Cardinality(U)
        /\ IsFiniteSet(V) /\ Weight(table, more) = Cardinality(V)
        /\ Weight(table, ids) \in Nat /\ Weight(table, more) \in Nat
    BY WeightType
  <1>3. ids \cup more \in SUBSET DOMAIN table
    OBVIOUS
  <1>4. Weight(table, ids \cup more) = Cardinality(U \cup V)
    BY <1>1, <1>3, WeightType
  <1>5. Cardinality({}) = 0
    BY FS_EmptySet
  <1> HIDE DEF U, V
  <1>6. Cardinality(U \cup V) = Cardinality(U) + Cardinality(V) - Cardinality(U \cap V)
    BY <1>2, FS_Union
  <1>7. Cardinality(U \cap V) = Cardinality({})
    BY <1>1, Zenon
  <1>8. QED
    BY <1>2, <1>4, <1>5, <1>6, <1>7

\* One allocation weighs what its row says.
LEMMA WeightSingleton ==
    ASSUME NEW table, Weighed(table), NEW a \in DOMAIN table
    PROVE  Weight(table, {a}) = table[a].kg
  <1>1. table[a].kg \in Nat /\ {a} \in SUBSET DOMAIN table
    BY DEF Weighed
  <1>2. Units(table, {a}) = {a} \X (1..table[a].kg)
    BY DEF Units
  <1>3. Cardinality(Units(table, {a})) = Cardinality({a} \X (1..table[a].kg))
    BY <1>2, Zenon
  <1>4. Weight(table, {a}) = Cardinality(Units(table, {a}))
    BY <1>1, WeightType
  <1>5. Cardinality({a} \X (1..table[a].kg)) = table[a].kg
    BY <1>1, OwnUnits
  <1>6. QED
    BY <1>3, <1>4, <1>5

\* No allocations weigh nothing.
LEMMA WeightEmpty ==
    ASSUME NEW table, Weighed(table)
    PROVE  Weight(table, {}) = 0
  <1>1. Units(table, {}) = {}
    BY DEF Units
  <1>2. Cardinality(Units(table, {})) = Cardinality({})
    BY <1>1, Zenon
  <1>3. Weight(table, {}) = Cardinality(Units(table, {}))
    BY WeightType
  <1>4. QED
    BY <1>2, <1>3, FS_EmptySet

\* Only the weights in the rows matter, not the rest of the table.
LEMMA WeightSame ==
    ASSUME NEW table, Weighed(table), NEW other, Weighed(other),
           NEW ids \in SUBSET DOMAIN table, ids \subseteq DOMAIN other,
           \A a \in ids : other[a].kg = table[a].kg
    PROVE  Weight(other, ids) = Weight(table, ids)
  <1>1. Units(other, ids) = Units(table, ids)
    BY DEF Units
  <1>2. QED
    BY <1>1, WeightType

\* Allocations that weigh nothing together, and each something, do not exist.
LEMMA WeightZero ==
    ASSUME NEW table, Weighed(table), NEW ids \in SUBSET DOMAIN table,
           Weight(table, ids) = 0, \A a \in ids : table[a].kg # 0
    PROVE  ids = {}
  <1>1. Units(table, ids) = {}
    BY WeightType, FS_EmptySet
  <1>2. \A a \in ids : 1 \in 1..table[a].kg
    BY DEF Weighed
  <1>3. \A a \in ids : <<a, 1>> \in Units(table, ids)
    BY <1>2 DEF Units
  <1>4. QED
    BY <1>1, <1>3

------------------------------------------------------------------------------
\* The sums

\* The running totals of a contract are the sums of its allocations.
TotalsAgree ==
    /\ IsFiniteSet(DOMAIN allocs)
    /\ \A c \in DOMAIN contracts :
            LET own == {a \in DOMAIN allocs : allocs[a].contract = c}
            IN  /\ contracts[c].allocated = Weight(allocs, own)
                /\ contracts[c].shipped
                        = Weight(allocs, {a \in own : allocs[a].status = "shipped"})

\* What a lot lacks is what its allocations took.
StockAgrees ==
    \A l \in DOMAIN lots :
        lots[l].total - lots[l].available
            = Weight(allocs, {a \in DOMAIN allocs : allocs[a].lot = l})

\* The rows of a well-typed allocation table can be added up.
LEMMA AllocsWeighed ==
    ASSUME TypeOK, IsFiniteSet(DOMAIN allocs)
    PROVE  Weighed(allocs)
  BY DEF TypeOK, IsTable, AllocRow, Weighed

\* An allocation adds its stored weight to every sum that takes it in and
\* leaves the others alone.
LEMMA AllocateWeights ==
    ASSUME TypeOK, IsFiniteSet(DOMAIN allocs),
           NEW a \in Alloc, NEW c \in DOMAIN contracts, NEW l \in DOMAIN lots,
           NEW x \in Weights, AllocateLot(a, c, l, x)
    PROVE  /\ a \notin DOMAIN allocs /\ Stored(x) \in Nat
           /\ DOMAIN allocs' = DOMAIN allocs \cup {a}
           /\ \A b \in DOMAIN allocs : allocs'[b] = allocs[b]
           /\ allocs'[a] = [contract |-> c, lot |-> l, kg |-> Stored(x),
                            status |-> "allocated", shipment |-> NoShipment]
           /\ IsFiniteSet(DOMAIN allocs')
           /\ \A ids \in SUBSET DOMAIN allocs :
                /\ Weight(allocs, ids) \in Nat
                /\ Weight(allocs', ids) = Weight(allocs, ids)
                /\ Weight(allocs', ids \cup {a}) = Weight(allocs, ids) + Stored(x)
  <1>1. Stored(x) \in Nat
    BY StoredNat, WeightsAssumption
  <1>2. /\ a \notin DOMAIN allocs
        /\ DOMAIN allocs' = DOMAIN allocs \cup {a}
        /\ \A b \in DOMAIN allocs : allocs'[b] = allocs[b]
        /\ allocs'[a] = [contract |-> c, lot |-> l, kg |-> Stored(x), status |-> "allocated",
                         shipment |-> NoShipment]
    BY DEF AllocateLot, Insert
  <1>3. IsFiniteSet(DOMAIN allocs')
    BY <1>2, FS_AddElement
  <1>4. Weighed(allocs) /\ Weighed(allocs')
    BY <1>3, AllocsWeighed, AllocateLotType DEF Weighed, TypeOK, IsTable, AllocRow
  <1>5. \A ids \in SUBSET DOMAIN allocs : Weight(allocs', ids) = Weight(allocs, ids)
    BY <1>2, <1>4, WeightSame
  <1>6. ASSUME NEW ids \in SUBSET DOMAIN allocs
        PROVE  Weight(allocs', ids \cup {a}) = Weight(allocs, ids) + Stored(x)
    <2>1. ids \in SUBSET DOMAIN allocs' /\ {a} \in SUBSET DOMAIN allocs' /\ ids \cap {a} = {}
      BY <1>2
    <2>2. Weight(allocs', ids \cup {a}) = Weight(allocs', ids) + Weight(allocs', {a})
      BY <1>4, <2>1, WeightUnion
    <2>3. Weight(allocs', {a}) = Stored(x)
      BY <1>2, <1>4, WeightSingleton
    <2>4. QED
      BY <1>5, <2>2, <2>3
  <1>7. \A ids \in SUBSET DOMAIN allocs : Weight(allocs, ids) \in Nat
    BY <1>4, WeightType
  <1>8. QED
    BY <1>1, <1>2, <1>3, <1>5, <1>6, <1>7

\* An allocation raises the allocated total of its contract by what it weighs.
LEMMA TotalsAllocate ==
    ASSUME TypeOK, TotalsAgree,
           NEW a \in Alloc, NEW c \in DOMAIN contracts, NEW l \in DOMAIN lots,
           NEW x \in Weights, AllocateLot(a, c, l, x)
    PROVE  TotalsAgree'
  <1>1. \A k \in DOMAIN contracts : k \in Contract /\ contracts[k] \in ContractRow
    BY DEF TypeOK, IsTable
  <1>2. /\ a \notin DOMAIN allocs /\ Stored(x) \in Nat
        /\ DOMAIN allocs' = DOMAIN allocs \cup {a}
        /\ \A b \in DOMAIN allocs : allocs'[b] = allocs[b]
        /\ allocs'[a] = [contract |-> c, lot |-> l, kg |-> Stored(x),
                         status |-> "allocated", shipment |-> NoShipment]
        /\ IsFiniteSet(DOMAIN allocs')
        /\ \A ids \in SUBSET DOMAIN allocs :
             /\ Weight(allocs, ids) \in Nat
             /\ Weight(allocs', ids) = Weight(allocs, ids)
             /\ Weight(allocs', ids \cup {a}) = Weight(allocs, ids) + Stored(x)
    BY AllocateWeights DEF TotalsAgree
  <1>3. /\ contracts' = [contracts EXCEPT ![c].allocated = contracts[c].allocated + Stored(x)]
        /\ DOMAIN contracts' = DOMAIN contracts
    <2>1. Stored(Scale * contracts[c].allocated + x) = contracts[c].allocated + Stored(x)
      BY <1>1, AllocatedRow, WeightsAssumption DEF AllocateLot
    <2>2. QED
      BY <2>1 DEF AllocateLot
  <1>4. ASSUME NEW k \in DOMAIN contracts
        PROVE  /\ contracts'[k].allocated
                    = Weight(allocs', {b \in DOMAIN allocs' : allocs'[b].contract = k})
               /\ contracts'[k].shipped
                    = Weight(allocs', {b \in {d \in DOMAIN allocs' : allocs'[d].contract = k} :
                                            allocs'[b].status = "shipped"})
    <2> DEFINE own == {b \in DOMAIN allocs : allocs[b].contract = k}
               left == {b \in own : allocs[b].status = "shipped"}
    <2>1. /\ own \in SUBSET DOMAIN allocs /\ contracts[k].allocated = Weight(allocs, own)
          /\ left \in SUBSET DOMAIN allocs /\ contracts[k].shipped = Weight(allocs, left)
      BY DEF TotalsAgree
    <2>2. /\ contracts'[k].shipped = contracts[k].shipped
          /\ contracts'[k].allocated = IF k = c THEN contracts[k].allocated + Stored(x)
                                       ELSE contracts[k].allocated
      BY <1>1, <1>3 DEF ContractRow
    <2>3. {b \in {d \in DOMAIN allocs' : allocs'[d].contract = k} : allocs'[b].status = "shipped"}
            = left
      BY <1>2
    <2>4. Weight(allocs', {b \in {d \in DOMAIN allocs' : allocs'[d].contract = k} :
                                            allocs'[b].status = "shipped"}) = Weight(allocs', left)
      BY <2>3, Zenon
    <2>5. {d \in DOMAIN allocs' : allocs'[d].contract = k} = IF k = c THEN own \cup {a} ELSE own
      BY <1>2
    <2>6. Weight(allocs', {d \in DOMAIN allocs' : allocs'[d].contract = k})
                = Weight(allocs', IF k = c THEN own \cup {a} ELSE own)
      BY <2>5, Zenon
    <2> HIDE DEF own, left
    <2>7. QED
      BY <1>2, <2>1, <2>2, <2>4, <2>6
  <1>5. QED
    BY <1>2, <1>3, <1>4 DEF TotalsAgree

\* Shipping moves allocations and weighs none anew.
LEMMA ShippedWeights ==
    ASSUME TypeOK, IsFiniteSet(DOMAIN allocs), NEW ids, NEW s \in Shipment,
           allocs' = ShippedIn(ids, s)
    PROVE  \A some \in SUBSET DOMAIN allocs : Weight(allocs', some) = Weight(allocs, some)
  <1>1. /\ DOMAIN allocs' = DOMAIN allocs
        /\ \A b \in DOMAIN allocs : allocs'[b].kg = allocs[b].kg
    BY ShippedRows
  <1>2. Weighed(allocs) /\ Weighed(allocs')
    BY <1>1, AllocsWeighed DEF Weighed
  <1>3. QED
    BY <1>1, <1>2, WeightSame

\* A shipment raises the shipped total of its contract by what it takes along.
LEMMA TotalsShip ==
    ASSUME TypeOK, TotalsAgree,
           NEW s \in Shipment, NEW c \in DOMAIN contracts,
           NEW ids \in (SUBSET DOMAIN allocs) \ {{}}, CreateShipment(s, c, ids)
    PROVE  TotalsAgree'
  <1>1. \A k \in DOMAIN contracts : k \in Contract /\ contracts[k] \in ContractRow
    BY DEF TypeOK, IsTable
  <1>2. /\ allocs' = ShippedIn(ids, s)
        /\ \A b \in ids : allocs[b].contract = c /\ allocs[b].status = "allocated"
        /\ ids \in SUBSET DOMAIN allocs
    BY DEF CreateShipment, Shippable
  <1>3. /\ DOMAIN allocs' = DOMAIN allocs
        /\ \A b \in DOMAIN allocs :
              /\ allocs'[b].contract = allocs[b].contract
              /\ allocs'[b].status = IF b \in ids THEN "shipped" ELSE allocs[b].status
    BY <1>2, ShippedRows
  <1>4. /\ Weighed(allocs)
        /\ \A some \in SUBSET DOMAIN allocs : Weight(allocs', some) = Weight(allocs, some)
    BY <1>2, AllocsWeighed, ShippedWeights DEF TotalsAgree
  <1>5. PICK newShipped \in 0..contracts[c].quantity :
            /\ newShipped = contracts[c].shipped + Weight(allocs, ids)
            /\ contracts' = [contracts EXCEPT
                    ![c].shipped = newShipped,
                    ![c].status = NextContractStatus(newShipped, contracts[c].quantity,
                                                     contracts[c].status)]
    BY DEF CreateShipment
  <1>6. ASSUME NEW k \in DOMAIN contracts
        PROVE  /\ contracts'[k].allocated
                    = Weight(allocs', {b \in DOMAIN allocs' : allocs'[b].contract = k})
               /\ contracts'[k].shipped
                    = Weight(allocs', {b \in {d \in DOMAIN allocs' : allocs'[d].contract = k} :
                                            allocs'[b].status = "shipped"})
    <2> DEFINE own == {b \in DOMAIN allocs : allocs[b].contract = k}
               left == {b \in own : allocs[b].status = "shipped"}
    <2>1. /\ own \in SUBSET DOMAIN allocs /\ contracts[k].allocated = Weight(allocs, own)
          /\ left \in SUBSET DOMAIN allocs /\ contracts[k].shipped = Weight(allocs, left)
      BY DEF TotalsAgree
    <2>2. /\ contracts'[k].allocated = contracts[k].allocated
          /\ contracts'[k].shipped = IF k = c THEN contracts[k].shipped + Weight(allocs, ids)
                                     ELSE contracts[k].shipped
      BY <1>1, <1>5 DEF ContractRow
    <2>3. {d \in DOMAIN allocs' : allocs'[d].contract = k} = own
      BY <1>3
    <2>4. Weight(allocs', {d \in DOMAIN allocs' : allocs'[d].contract = k}) = Weight(allocs', own)
      BY <2>3, Zenon
    <2>5. {b \in {d \in DOMAIN allocs' : allocs'[d].contract = k} : allocs'[b].status = "shipped"}
            = IF k = c THEN left \cup ids ELSE left
      BY <1>2, <1>3
    <2>6. Weight(allocs', {b \in {d \in DOMAIN allocs' : allocs'[d].contract = k} :
                                            allocs'[b].status = "shipped"})
            = Weight(allocs', IF k = c THEN left \cup ids ELSE left)
      BY <2>5, Zenon
    <2>7. left \cap ids = {}
      BY <1>2
    <2> HIDE DEF own, left
    <2>8. Weight(allocs, left \cup ids) = Weight(allocs, left) + Weight(allocs, ids)
      BY <1>2, <1>4, <2>1, <2>7, WeightUnion
    <2>9. left \cup ids \in SUBSET DOMAIN allocs
      BY <1>2, <2>1
    <2>10. QED
      BY <1>4, <2>1, <2>2, <2>4, <2>6, <2>8, <2>9
  <1>7. DOMAIN contracts' = DOMAIN contracts
    BY <1>5
  <1>8. QED
    BY <1>3, <1>6, <1>7 DEF TotalsAgree

\* The totals of the contracts stay the sums of their allocations, whatever
\* decimals a request carries: a sum that is rounded at every step is the sum
\* of what was stored.
LEMMA TotalsNext ==
    ASSUME TypeOK, ReferencesExist, TotalsAgree, [Next]_vars
    PROVE  TotalsAgree'
  <1>1. ASSUME NEW c \in Contract, NEW x \in Weights, CreateContract(c, x)
        PROVE  TotalsAgree'
    <2>1. /\ DOMAIN contracts' = DOMAIN contracts \cup {c} /\ c \notin DOMAIN contracts
          /\ contracts'[c].allocated = 0 /\ contracts'[c].shipped = 0
          /\ \A k \in DOMAIN contracts : contracts'[k] = contracts[k]
          /\ allocs' = allocs
      BY <1>1 DEF CreateContract, Insert
    <2>2. /\ Weight(allocs, {b \in DOMAIN allocs : allocs[b].contract = c}) = 0
          /\ Weight(allocs, {b \in {d \in DOMAIN allocs : allocs[d].contract = c} :
                                allocs[b].status = "shipped"}) = 0
      <3>1. /\ {b \in DOMAIN allocs : allocs[b].contract = c} = {}
            /\ {b \in {d \in DOMAIN allocs : allocs[d].contract = c} :
                                allocs[b].status = "shipped"} = {}
        BY <2>1 DEF ReferencesExist
      <3>2. /\ Weight(allocs, {b \in DOMAIN allocs : allocs[b].contract = c}) = Weight(allocs, {})
            /\ Weight(allocs, {b \in {d \in DOMAIN allocs : allocs[d].contract = c} :
                                allocs[b].status = "shipped"}) = Weight(allocs, {})
        BY <3>1, Zenon
      <3>3. QED
        BY <3>2, AllocsWeighed, WeightEmpty DEF TotalsAgree
    <2>3. ASSUME NEW k \in DOMAIN contracts'
          PROVE  /\ contracts'[k].allocated
                      = Weight(allocs, {b \in DOMAIN allocs : allocs[b].contract = k})
                 /\ contracts'[k].shipped
                      = Weight(allocs, {b \in {d \in DOMAIN allocs : allocs[d].contract = k} :
                                          allocs[b].status = "shipped"})
      BY <2>1, <2>2 DEF TotalsAgree
    <2>4. QED
      BY <2>1, <2>3 DEF TotalsAgree
  <1>2. ASSUME UNCHANGED <<contracts, allocs>>
        PROVE  TotalsAgree'
    BY <1>2 DEF TotalsAgree
  <1>3. QED
    BY <1>1, <1>2, TotalsAllocate, TotalsShip
       DEF Next, vars, ReceiveLot, AdjustStock, UpdateStatus, GenerateDocuments, Dispatch

\* The commitments to a customer add up, whatever decimals the requests carry.
LEMMA TotalsCorrect == Spec => []TotalsAgree
  <1>1. Init => TotalsAgree
    BY FS_EmptySet DEF Init, Empty, TotalsAgree
  <1>2. TypeOK /\ Traceable /\ TotalsAgree /\ [Next]_vars => TotalsAgree'
    BY TotalsNext DEF Traceable
  <1>3. Spec => []TypeOK /\ []Traceable
    BY TypeCorrect, TraceabilityHolds
  <1>4. QED
    BY <1>1, <1>2, <1>3, PTL DEF Spec

\* The stock of every lot goes on accounting for its allocations: in whole
\* units an allocation takes from the lot what it weighs, and a correction moves
\* both weights of the lot alike.
LEMMA StockNext ==
    ASSUME WholeUnits, TypeOK, ReferencesExist, TotalsAgree, StockAgrees, [Next]_vars
    PROVE  StockAgrees'
  <1>1. \A k \in DOMAIN lots : k \in Lot /\ lots[k] \in LotRow
    BY DEF TypeOK, IsTable
  <1>2. ASSUME NEW l \in Lot, NEW x \in Weights, ReceiveLot(l, x)
        PROVE  StockAgrees'
    <2>1. Stored(x) \in Nat
      BY StoredNat, WeightsAssumption
    <2>2. /\ DOMAIN lots' = DOMAIN lots \cup {l} /\ l \notin DOMAIN lots
          /\ lots'[l].total = Stored(x) /\ lots'[l].available = Stored(x)
          /\ \A k \in DOMAIN lots : lots'[k] = lots[k]
          /\ allocs' = allocs
      BY <1>2 DEF ReceiveLot, Insert
    <2>3. Weight(allocs, {b \in DOMAIN allocs : allocs[b].lot = l}) = 0
      <3>1. {b \in DOMAIN allocs : allocs[b].lot = l} = {}
        BY <2>2 DEF ReferencesExist
      <3>2. Weight(allocs, {b \in DOMAIN allocs : allocs[b].lot = l}) = Weight(allocs, {})
        BY <3>1, Zenon
      <3>3. QED
        BY <3>2, AllocsWeighed, WeightEmpty DEF TotalsAgree
    <2>4. ASSUME NEW k \in DOMAIN lots'
          PROVE  lots'[k].total - lots'[k].available
                      = Weight(allocs, {b \in DOMAIN allocs : allocs[b].lot = k})
      <3>1. CASE k = l
        <4>1. lots'[k].total - lots'[k].available = 0
          BY <2>1, <2>2, <3>1
        <4>2. QED
          BY <2>3, <3>1, <4>1
      <3>2. CASE k # l
        BY <2>2, <3>2 DEF StockAgrees
      <3>3. QED
        BY <3>1, <3>2
    <2>5. QED
      BY <2>2, <2>4 DEF StockAgrees
  <1>3. ASSUME NEW a \in Alloc, NEW c \in DOMAIN contracts, NEW l \in DOMAIN lots,
               NEW x \in Weights, AllocateLot(a, c, l, x)
        PROVE  StockAgrees'
    <2>1. /\ x \in Nat /\ ~Exceeds(x, lots[l].available)
          /\ Stored(x) = x
      BY <1>3, WholeUnitArithmetic, WeightsAssumption DEF AllocateLot
    <2>0. IsFiniteSet(DOMAIN allocs)
      BY DEF TotalsAgree
    <2>2. /\ a \notin DOMAIN allocs /\ Stored(x) \in Nat
          /\ DOMAIN allocs' = DOMAIN allocs \cup {a}
          /\ \A b \in DOMAIN allocs : allocs'[b] = allocs[b]
          /\ allocs'[a] = [contract |-> c, lot |-> l, kg |-> Stored(x),
                           status |-> "allocated", shipment |-> NoShipment]
          /\ \A ids \in SUBSET DOMAIN allocs :
               /\ Weight(allocs, ids) \in Nat
               /\ Weight(allocs', ids) = Weight(allocs, ids)
               /\ Weight(allocs', ids \cup {a}) = Weight(allocs, ids) + Stored(x)
      BY <1>3, <2>0, AllocateWeights, Zenon
    <2>3. /\ Taken(lots[l], x) \in LotRow
          /\ Taken(lots[l], x).total = lots[l].total
          /\ Taken(lots[l], x).available = lots[l].available - x
      BY <1>1, <2>1, TakenRow
    <2>4. lots' = [lots EXCEPT ![l] = Refreshed(Taken(lots[l], x), l, allocs')]
      BY <1>3 DEF AllocateLot
    <2>5. lots'[l].total = lots[l].total /\ lots'[l].available = lots[l].available - x
      BY <2>3, <2>4, RefreshedRow
    <2>6. ASSUME NEW k \in DOMAIN lots
          PROVE  lots'[k].total - lots'[k].available
                      = Weight(allocs', {b \in DOMAIN allocs' : allocs'[b].lot = k})
      <3> DEFINE own == {b \in DOMAIN allocs : allocs[b].lot = k}
      <3>1. own \in SUBSET DOMAIN allocs /\ lots[k].total - lots[k].available = Weight(allocs, own)
        BY DEF StockAgrees
      <3>2. {b \in DOMAIN allocs' : allocs'[b].lot = k} = IF k = l THEN own \cup {a} ELSE own
        BY <2>2
      <3>3. Weight(allocs', {b \in DOMAIN allocs' : allocs'[b].lot = k})
                = Weight(allocs', IF k = l THEN own \cup {a} ELSE own)
        BY <3>2, Zenon
      <3> HIDE DEF own
      <3>4. CASE k # l
        BY <2>2, <2>4, <3>1, <3>3, <3>4
      <3>5. CASE k = l
        BY <1>1, <2>1, <2>2, <2>5, <3>1, <3>3, <3>5 DEF LotRow
      <3>6. QED
        BY <3>4, <3>5
    <2>7. QED
      BY <2>4, <2>6 DEF StockAgrees
  <1>4. ASSUME NEW s \in Shipment, NEW c \in DOMAIN contracts,
               NEW ids \in (SUBSET DOMAIN allocs) \ {{}}, CreateShipment(s, c, ids)
        PROVE  StockAgrees'
    <2>1. allocs' = ShippedIn(ids, s)
      BY <1>4 DEF CreateShipment
    <2>2. /\ DOMAIN allocs' = DOMAIN allocs
          /\ \A b \in DOMAIN allocs : allocs'[b].lot = allocs[b].lot
      BY <2>1, ShippedRows
    <2>3. \A some \in SUBSET DOMAIN allocs : Weight(allocs', some) = Weight(allocs, some)
      BY <2>1, ShippedWeights DEF TotalsAgree
    <2>4. /\ DOMAIN lots' = DOMAIN lots
          /\ \A k \in DOMAIN lots : /\ lots'[k].total = lots[k].total
                                    /\ lots'[k].available = lots[k].available
      BY <1>1, <1>4, RefreshedRow DEF CreateShipment
    <2>5. ASSUME NEW k \in DOMAIN lots
          PROVE  lots'[k].total - lots'[k].available
                      = Weight(allocs', {b \in DOMAIN allocs' : allocs'[b].lot = k})
      <3> DEFINE own == {b \in DOMAIN allocs : allocs[b].lot = k}
      <3>1. own \in SUBSET DOMAIN allocs /\ lots[k].total - lots[k].available = Weight(allocs, own)
        BY DEF StockAgrees
      <3>2. {b \in DOMAIN allocs' : allocs'[b].lot = k} = own
        BY <2>2
      <3>3. Weight(allocs', {b \in DOMAIN allocs' : allocs'[b].lot = k}) = Weight(allocs', own)
        BY <3>2, Zenon
      <3>4. QED
        BY <2>3, <2>4, <3>1, <3>3
    <2>6. QED
      BY <2>4, <2>5 DEF StockAgrees
  <1>5. ASSUME NEW l \in DOMAIN lots, NEW delta \in Adjustments, AdjustStock(l, delta)
        PROVE  StockAgrees'
    <2>1. /\ delta \in Int
          /\ lots[l].total + delta >= 0 /\ lots[l].available + delta >= 0
      BY <1>1, <1>5, WholeUnitArithmetic, WeightsAssumption DEF AdjustStock, LotRow
    <2>2. /\ lots' = [lots EXCEPT ![l] = Refreshed(Corrected(lots[l], delta), l, allocs)]
          /\ allocs' = allocs
      BY <1>5 DEF AdjustStock
    <2>3. /\ Corrected(lots[l], delta) \in LotRow
          /\ Corrected(lots[l], delta).total = lots[l].total + delta
          /\ Corrected(lots[l], delta).available = lots[l].available + delta
      BY <1>1, <2>1, CorrectedRow
    <2>4. /\ lots'[l].available = lots[l].available + delta
          /\ lots'[l].total = lots[l].total + delta
      BY <2>2, <2>3, RefreshedRow
    <2>5. \A k \in DOMAIN lots : lots'[k].total - lots'[k].available
                                    = lots[k].total - lots[k].available
      BY <1>1, <2>1, <2>2, <2>4 DEF LotRow
    <2>6. QED
      BY <2>2, <2>5 DEF StockAgrees
  <1>6. ASSUME UNCHANGED <<lots, allocs>>
        PROVE  StockAgrees'
    BY <1>6 DEF StockAgrees
  <1>7. QED
    BY <1>2, <1>3, <1>4, <1>5, <1>6
       DEF Next, vars, CreateContract, UpdateStatus, GenerateDocuments, Dispatch

\* Nothing is sold twice and nothing gets lost: what a lot lacks is what its
\* allocations took, and a contract's running totals are the sums of its
\* allocations, after every sequence of calls.
THEOREM WeightConserved ==
    ASSUME WholeUnits
    PROVE  Spec => []Conservation
  <1>1. Init => StockAgrees
    BY DEF Init, Empty, StockAgrees
  <1>2. TypeOK /\ Traceable /\ TotalsAgree /\ StockAgrees /\ [Next]_vars => StockAgrees'
    BY StockNext DEF Traceable
  <1>3. TotalsAgree /\ StockAgrees => Conservation
    BY DEF TotalsAgree, StockAgrees, Conservation
  <1>4. Spec => []TypeOK /\ []Traceable /\ []TotalsAgree
    BY TypeCorrect, TraceabilityHolds, TotalsCorrect
  <1>5. QED
    BY <1>1, <1>2, <1>3, <1>4, PTL DEF Spec

\* The allocations of a lot never weigh more than the lot: the half of the
\* conservation law the documents promise.
THEOREM StockCoversAllocations ==
    ASSUME WholeUnits
    PROVE  Spec => []AllocationsWithinStock
  <1>1. ASSUME TypeOK, Conservation
        PROVE  AllocationsWithinStock
    <2> SUFFICES ASSUME NEW l \in DOMAIN lots
                 PROVE  Weight(allocs, {a \in DOMAIN allocs : allocs[a].lot = l}) <= lots[l].total
      BY DEF AllocationsWithinStock
    <2>1. lots[l].total \in Nat /\ lots[l].available \in Nat
      BY <1>1 DEF TypeOK, IsTable, LotRow
    <2>2. QED
      BY <1>1, <2>1 DEF Conservation
  <1>2. Spec => []TypeOK /\ []Conservation
    BY TypeCorrect, WeightConserved
  <1>3. QED
    BY <1>1, <1>2, PTL

------------------------------------------------------------------------------

\* No stored weight is zero, and the stored status of a contract is the one its
\* shipped total gives it.
ProgressAgrees ==
    /\ \A a \in DOMAIN allocs : allocs[a].kg > 0
    /\ \A c \in DOMAIN contracts :
            /\ contracts[c].quantity > 0
            /\ contracts[c].status
                    = NextContractStatus(contracts[c].shipped, contracts[c].quantity, "open")

\* The status of a contract is recomputed by the one call that changes what it
\* depends on.
LEMMA ProgressNext ==
    ASSUME NothingTooSmall, TypeOK, ProgressAgrees, [Next]_vars
    PROVE  ProgressAgrees'
  <1>1. \A c \in DOMAIN contracts : contracts[c] \in ContractRow
    BY DEF TypeOK, IsTable
  <1>2. ASSUME NEW c \in Contract, NEW x \in Weights, CreateContract(c, x)
        PROVE  ProgressAgrees'
    <2>1. Stored(x) \in Nat /\ Stored(x) > 0
      BY StoredNat, WeightsAssumption DEF NothingTooSmall
    <2>2. QED
      BY <1>2, <2>1 DEF CreateContract, Insert, ProgressAgrees, NextContractStatus
  <1>3. ASSUME NEW a \in Alloc, NEW c \in DOMAIN contracts, NEW l \in DOMAIN lots,
               NEW x \in Weights, AllocateLot(a, c, l, x)
        PROVE  ProgressAgrees'
    <2>1. Stored(x) > 0
      BY DEF NothingTooSmall
    <2>2. \A b \in DOMAIN allocs' : allocs'[b].kg > 0
      BY <1>3, <2>1 DEF AllocateLot, Insert, ProgressAgrees
    <2>3. QED
      BY <1>1, <1>3, <2>2 DEF AllocateLot, ProgressAgrees, ContractRow
  <1>4. ASSUME NEW s \in Shipment, NEW c \in DOMAIN contracts,
               NEW ids \in (SUBSET DOMAIN allocs) \ {{}}, CreateShipment(s, c, ids)
        PROVE  ProgressAgrees'
    <2>1. PICK newShipped \in 0..contracts[c].quantity :
            contracts' = [contracts EXCEPT
                ![c].shipped = newShipped,
                ![c].status = NextContractStatus(newShipped, contracts[c].quantity,
                                                 contracts[c].status)]
      BY <1>4 DEF CreateShipment
    <2>2. contracts[c].status # "closed"
      BY DEF ProgressAgrees, NextContractStatus
    <2>3. /\ contracts'[c].quantity = contracts[c].quantity
          /\ contracts'[c].status
                = NextContractStatus(contracts'[c].shipped, contracts'[c].quantity, "open")
      BY <1>1, <2>1, <2>2 DEF NextContractStatus, ContractRow
    <2>4. \A b \in DOMAIN allocs' : allocs'[b].kg > 0
      BY <1>4, ShippedRows DEF CreateShipment, ProgressAgrees
    <2>5. QED
      BY <2>1, <2>3, <2>4 DEF ProgressAgrees
  <1>5. ASSUME UNCHANGED <<contracts, allocs>>
        PROVE  ProgressAgrees'
    BY <1>5 DEF ProgressAgrees
  <1>6. QED
    BY <1>2, <1>3, <1>4, <1>5
       DEF Next, vars, ReceiveLot, AdjustStock, UpdateStatus, GenerateDocuments, Dispatch

\* A contract whose whole quantity has left has nothing waiting: what is
\* allocated to it is no more than that quantity, so what waits weighs nothing.
LEMMA FulfilledMeansShipped ==
    ASSUME TypeOK, WithinLimits, TotalsAgree, ProgressAgrees
    PROVE  FulfilmentAgrees
  <1> SUFFICES ASSUME NEW c \in DOMAIN contracts, contracts[c].status = "fulfilled",
                      NEW a \in DOMAIN allocs, allocs[a].contract = c
               PROVE  allocs[a].status = "shipped"
    BY DEF FulfilmentAgrees, ProgressAgrees
  <1> DEFINE own == {b \in DOMAIN allocs : allocs[b].contract = c}
             left == {b \in own : allocs[b].status = "shipped"}
             waiting == {b \in own : allocs[b].status # "shipped"}
  <1>1. contracts[c] \in ContractRow /\ Weighed(allocs)
    BY AllocsWeighed DEF TypeOK, IsTable, TotalsAgree
  <1>2. contracts[c].shipped >= contracts[c].quantity
    BY DEF ProgressAgrees, NextContractStatus
  <1>3. /\ contracts[c].allocated = Weight(allocs, own)
        /\ contracts[c].shipped = Weight(allocs, left)
    BY DEF TotalsAgree
  <1>4. own \in SUBSET DOMAIN allocs /\ own = left \cup waiting /\ left \cap waiting = {}
    OBVIOUS
  <1>5. left \in SUBSET DOMAIN allocs /\ waiting \in SUBSET DOMAIN allocs
    OBVIOUS
  <1>6. Weight(allocs, own) = Weight(allocs, left \cup waiting)
    BY <1>4, Zenon
  <1>7. \A b \in waiting : allocs[b].kg # 0
    BY DEF ProgressAgrees
  <1>8. a \notin left => a \in waiting
    OBVIOUS
  <1>9. a \in left => allocs[a].status = "shipped"
    OBVIOUS
  <1> HIDE DEF own, left, waiting
  <1>10. Weight(allocs, left \cup waiting) = Weight(allocs, left) + Weight(allocs, waiting)
    BY <1>1, <1>4, <1>5, WeightUnion
  <1>11. Weight(allocs, waiting) \in Nat
    BY <1>1, <1>5, WeightType
  <1>12. Weight(allocs, waiting) = 0
    BY <1>1, <1>2, <1>3, <1>6, <1>10, <1>11 DEF WithinLimits, ContractRow
  <1>13. waiting = {}
    BY <1>1, <1>5, <1>7, <1>12, WeightZero
  <1>14. QED
    BY <1>8, <1>9, <1>13

\* A contract is fulfilled exactly when its whole quantity has left, and then
\* none of its allocations is still waiting: with finer decimals too, as long as
\* none rounds to nothing.
THEOREM FulfilmentCorrect ==
    ASSUME NothingTooSmall
    PROVE  Spec => []FulfilmentAgrees
  <1>1. Init => ProgressAgrees
    BY DEF Init, Empty, ProgressAgrees
  <1>2. TypeOK /\ ProgressAgrees /\ [Next]_vars => ProgressAgrees'
    BY ProgressNext
  <1>3. TypeOK /\ WithinLimits /\ TotalsAgree /\ ProgressAgrees => FulfilmentAgrees
    BY FulfilledMeansShipped
  <1>4. Spec => []TypeOK /\ []WithinLimits /\ []TotalsAgree
    BY TypeCorrect, LimitsKept, TotalsCorrect
  <1>5. QED
    BY <1>1, <1>2, <1>3, <1>4, PTL DEF Spec
=============================================================================
