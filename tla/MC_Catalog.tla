------------------------------ MODULE MC_Catalog -----------------------------
(***************************************************************************)
(* Three calls on one organization: any three of the calls below, in any   *)
(* order of their steps.  Names, weights and files are chosen so that keys *)
(* and weights meet; a bag of 70 kg stands for one too heavy for its       *)
(* column.                                                                 *)
(***************************************************************************)
EXTENDS Catalog, TLC

CONSTANTS agent, farmer, aa, ab, small, large, kenya

MCKey == {agent, farmer, aa, ab, small, large, kenya}
MCStandardGrades == <<aa, ab>>
MCStandardBagTypes == <<[key |-> small, weight |-> 50], [key |-> large, weight |-> 60]>>

Old(entity, n) == [by |-> Nobody, entity |-> entity, line |-> n]
Supplier(key, type) == [key |-> key, type |-> type, weight |-> 0]

\* An organization at work, whose 60 kg bag is not the standard one, and one
\* that was just created.
Furnished ==
    Old("supplier", 1) :> RowOf(Supplier(agent, "auction_agent"), 1)
    @@ Old("supplier", 2) :> RowOf(Supplier(farmer, "farmer"), 2)
    @@ Old("supplier", 3) :> RowOf(Supplier(kenya, "mill"), 3)
    @@ Old("buyer", 1) :> RowOf(Named(kenya), 4)
    @@ Old("warehouse", 1) :> RowOf(Named(kenya), 5)
    @@ Old("grade", 1) :> RowOf(Named(aa), 6)
    @@ Old("bag_type", 1) :> RowOf(Weighing(kenya, 60), 7)
MCTables ==
    {[rows |-> Furnished, agreements |-> "a1" :> Old("supplier", 2)],
     [rows |-> Empty, agreements |-> Empty]}

Says(valid, input) == [valid |-> valid, input |-> input]
SupplierFile ==
    <<Says(TRUE, Supplier(farmer, "mill")), Says(TRUE, Supplier(ab, "farmer")),
      Says(FALSE, Supplier(aa, "mill")), Says(TRUE, Supplier(ab, "mill"))>>
Imports ==
    {[op |-> "import", entity |-> "supplier", file |-> SupplierFile],
     [op |-> "import", entity |-> "grade", file |-> <<Says(TRUE, Named(ab)), Says(TRUE, Named(aa))>>],
     [op |-> "import", entity |-> "bag_type",
      file |-> <<Says(TRUE, Weighing(small, 40)), Says(TRUE, Weighing(large, 70))>>],
     [op |-> "import", entity |-> "buyer", file |-> <<>>]}

Creates ==
    {[op |-> "create", entity |-> "buyer", input |-> Named(kenya)],
     [op |-> "create", entity |-> "warehouse", input |-> Named(kenya)],
     [op |-> "create", entity |-> "grade", input |-> Named(aa)],
     [op |-> "create", entity |-> "bag_type", input |-> Weighing(aa, 50)]}
Updates ==
    {[op |-> "update", id |-> Old("supplier", 1), input |-> Supplier(agent, "mill")],
     [op |-> "update", id |-> Old("grade", 1), input |-> Named(kenya)],
     [op |-> "update", id |-> Old("bag_type", 1), input |-> Weighing(kenya, 70)]}
Deletes == {[op |-> "delete", id |-> i] : i \in DOMAIN Furnished}
Lists == {[op |-> "list", entity |-> e] : e \in {"supplier", "grade"}}

Auction(lot, id) ==
    [op |-> "auction", lot |-> lot, agent |-> id, grade |-> Old("grade", 1),
     warehouse |-> Old("warehouse", 1), bag_type |-> Old("bag_type", 1)]
Intakes ==
    {Auction("l1", Old("supplier", 1)), Auction("l2", Old("supplier", 2)),
     [op |-> "agreement", agreement |-> "a2", supplier |-> Old("supplier", 3)],
     [op |-> "agreement", agreement |-> "a3", supplier |-> Old("supplier", 1)],
     [op |-> "delivery", lot |-> "l3", agreement |-> "a1", grade |-> Old("grade", 1),
      warehouse |-> Old("warehouse", 1), bag_type |-> Old("bag_type", 1)],
     [op |-> "contract", contract |-> "c1", buyer |-> Old("buyer", 1), grade |-> Old("grade", 1)],
     [op |-> "contract", contract |-> "c2", buyer |-> Old("buyer", 1), grade |-> NoGrade]}

MCCalls == Imports \cup Creates \cup Updates \cup Deletes \cup Lists \cup Intakes \cup {[op |-> "seed"]}

Symmetry == Permutations(Req)
=============================================================================
