---------------------------- MODULE MC_LedgerTx -----------------------------
(* The ledger's transactions on small instances for TLC: committed tables to *)
(* start from and the calls that compete on them.                            *)
EXTENDS LedgerTx, TLC

Symmetry == Permutations(Req)

UpAndDown == {-1, 1}

Allocated(c, l, kg) ==
    [contract |-> c, lot |-> l, kg |-> kg, status |-> "allocated", shipment |-> NoShipment]
LotWith(total, available, status) == [total |-> total, available |-> available, status |-> status]

\* Two contracts, each with an allocation on both lots; the ids of the second
\* contract run in the opposite order.
Crossing ==
    [lots |-> [l \in {"l1", "l2"} |-> LotWith(3, 1, "allocated")],
     contracts |-> [c \in {"c1", "c2"} |->
            [quantity |-> 3, allocated |-> 2, shipped |-> 0, status |-> "open"]],
     allocs |-> 1 :> Allocated("c1", "l1", 1) @@ 2 :> Allocated("c1", "l2", 1)
                @@ 3 :> Allocated("c2", "l2", 1) @@ 4 :> Allocated("c2", "l1", 1),
     shipments |-> Empty]

\* One lot left for two contracts, one of which has shipped half.
Scarce ==
    [lots |-> "l1" :> LotWith(3, 2, "in_stock"),
     contracts |-> "c1" :> [quantity |-> 2, allocated |-> 1, shipped |-> 1,
                            status |-> "partially_fulfilled"]
                   @@ "c2" :> [quantity |-> 2, allocated |-> 0, shipped |-> 0, status |-> "open"],
     allocs |-> 1 :> [Allocated("c1", "l1", 1) EXCEPT !.status = "shipped", !.shipment = "s1"],
     shipments |-> "s1" :> [contract |-> "c1", status |-> "planned",
                            snapshot |-> {[alloc |-> 1, lot |-> "l1", kg |-> 1]}]]

\* Every call on those tables.
AnyCall ==
    [op : {"allocate"}, contract : Contract, lot : Lot, alloc : {5, 6}, x : Weights]
    \cup [op : {"ship"}, contract : Contract, shipment : Shipment,
          ids : {{1}, {2}, {1, 2}, {3, 4}, {4}, {5}}]
    \cup [op : {"adjust"}, lot : Lot, delta : Adjustments]
    \cup [op : {"status"}, shipment : Shipment, status : {"planned", "stuffed", "completed"}]
    \cup [op : {"docs"}, shipment : Shipment, types : {DocType}]

AllSeeds == {Crossing, Scarce}

\* Calls that meet on the crossing tables: shipments that lock the lots in
\* opposite orders, one that names the allocations of the other contract, and an
\* allocation and a correction between them.
CrossingCalls ==
    {[op |-> "ship", contract |-> "c1", shipment |-> "s1", ids |-> {1, 2}],
     [op |-> "ship", contract |-> "c2", shipment |-> "s2", ids |-> {3, 4}],
     [op |-> "ship", contract |-> "c2", shipment |-> "s2", ids |-> {1, 2}],
     [op |-> "ship", contract |-> "c2", shipment |-> "s1", ids |-> {4}],
     [op |-> "allocate", contract |-> "c1", lot |-> "l2", alloc |-> 5, x |-> 1],
     [op |-> "adjust", lot |-> "l1", delta |-> -1]}
CrossingSeed == {Crossing}
=============================================================================
