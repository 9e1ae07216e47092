----------------------------- MODULE LedgerData -----------------------------
(***************************************************************************)
(* The data of the trade ledger and the calculations its services make on  *)
(* it.  A table is a function from the primary keys in use to rows.        *)
(*                                                                         *)
(* Weights are columns of type Decimal(12,3): a stored weight is a whole   *)
(* number of units (grams).  A request carries a JavaScript number with no *)
(* such limit: its weights are counted in units / Scale, and the           *)
(* database rounds what it stores.  Scale = 1 is the world in which every  *)
(* client sends at most three decimals.  Epsilon is the tolerance of the   *)
(* comparisons, in the same fine units.                                    *)
(***************************************************************************)
EXTENDS Integers, FiniteSets, FiniteSetsExt

CONSTANTS
    Lot,            \* lot codes, unique in an organization
    Contract,       \* contract numbers, unique in an organization
    Alloc,          \* allocation ids
    Shipment,       \* shipment numbers, unique in an organization
    NoShipment,     \* the NULL of allocations.shipment_id
    DocType,        \* the kinds of document a shipment can have
    Scale,          \* fine units of a request in one stored unit
    Epsilon         \* tolerance of a comparison, in fine units

ASSUME ScaleAssumption == Scale \in Nat \ {0} /\ Epsilon \in Nat /\ 2 * Epsilon < Scale
ASSUME NoShipmentAssumption == NoShipment \notin Shipment

\* Every weight of a request has at most three decimals.
WholeUnits == Scale = 1

------------------------------------------------------------------------------
\* Tables

Insert(table, key, row) ==
    [k \in DOMAIN table \cup {key} |-> IF k = key THEN row ELSE table[k]]

\* The database's rounding of a weight in fine units to the stored unit,
\* half away from zero; only corrections are negative.
Stored(x) == (2 * x + Scale) \div (2 * Scale)
StoredCorrection(x) == IF x < 0 THEN -Stored(-x) ELSE Stored(x)

\* A weight above a limit by more than the tolerance, and the mutated form
\* that compares one unit too late.
ExceedsByMore(x, limit) == x - Scale * limit > Scale + Epsilon
Exceeds(x, limit) == x - Scale * limit > Epsilon

------------------------------------------------------------------------------
\* Statuses

ContractStatus == {"open", "partially_fulfilled", "fulfilled", "closed"}
LotStatus == {"in_stock", "allocated", "shipped"}

\* SHIPMENT_PROGRESSION: the place of each status.
StageOf == [planned |-> 0, stuffed |-> 1, cleared |-> 2, on_vessel |-> 3, completed |-> 4]
ShipmentStatus == {"planned", "stuffed", "cleared", "on_vessel", "completed"}

\* nextContractStatus, on stored weights, and a mutated form that calls a
\* contract fulfilled one unit early.
FulfilledEarly(shipped, quantity, current) ==
    IF current = "closed" THEN current
    ELSE IF shipped + 1 >= quantity THEN "fulfilled"
    ELSE IF shipped > 0 THEN "partially_fulfilled" ELSE "open"
NextContractStatus(shipped, quantity, current) ==
    IF current = "closed" THEN current
    ELSE IF shipped >= quantity THEN "fulfilled"
    ELSE IF shipped > 0 THEN "partially_fulfilled" ELSE "open"

\* The allocations refreshLotStatus counts.
OpenAllocations(allocs, lot) ==
    {a \in DOMAIN allocs : allocs[a].lot = lot /\ allocs[a].status = "allocated"}

\* The status refreshLotStatus gives a lot.
LotStatusOf(available, openAllocations) ==
    IF openAllocations # {} THEN "allocated"
    ELSE IF available = 0 THEN "shipped" ELSE "in_stock"

\* The total weight of a set of allocations.
Weight(allocs, ids) == MapThenSumSet(LAMBDA a : allocs[a].kg, ids)

\* What a snapshot or a document records of a set of allocations.
Lines(allocs, ids) == {[alloc |-> a, lot |-> allocs[a].lot, kg |-> allocs[a].kg] : a \in ids}

AllocationsOf(allocs, shipment) == {a \in DOMAIN allocs : allocs[a].shipment = shipment}

\* allocateLot's update of the lot; the mutated form forgets it.
NotTaken(lot, x) == lot
Taken(lot, x) == [lot EXCEPT !.available = Stored(Scale * lot.available - x)]

\* adjustStock's update of the lot: both weights move, and neither goes below
\* zero by a difference within the tolerance.
AtLeastZero(x) == IF x < 0 THEN 0 ELSE x
Corrected(lot, delta) ==
    [lot EXCEPT !.total = Stored(AtLeastZero(Scale * lot.total + delta)),
                !.available = Stored(AtLeastZero(Scale * lot.available + delta))]

------------------------------------------------------------------------------
\* Rows

LotRow == [total : Nat, available : Nat, status : LotStatus]
ContractRow == [quantity : Nat, allocated : Nat, shipped : Nat, status : ContractStatus]
AllocRow == [contract : Contract, lot : Lot, kg : Nat,
             status : {"allocated", "shipped"}, shipment : Shipment \cup {NoShipment}]
Line == [alloc : Alloc, lot : Lot, kg : Nat]
ShipmentRow == [contract : Contract, status : ShipmentStatus, snapshot : SUBSET Line]
Document == [shipment : Shipment, type : DocType, payload : SUBSET Line]

\* The notifications a handler sends once its transaction is committed.
Notice == [event : {"contract_created", "contract_fully_allocated"}, about : Contract]
          \cup [event : {"shipment_created", "shipment_documents_ready"}, about : Shipment]
          \cup [event : {"shipment_status_changed"}, about : Shipment,
                status : ShipmentStatus \ {"planned"}]
          \cup [event : {"stock_adjusted"}, about : Lot]

IsTable(table, keys, row) ==
    /\ DOMAIN table \subseteq keys
    /\ table \in [DOMAIN table -> row]
=============================================================================
