----------------------------- MODULE CatalogData ----------------------------
(***************************************************************************)
(* The master data of one organization and the calculations its services   *)
(* make on it.  Five tables of reference rows (suppliers, buyers,          *)
(* warehouses, grades, bag types) are kept in one function from ids to     *)
(* rows.  An id is a random uuid; every call runs once and inserts a line  *)
(* of its input once, so the call, the table and the line stand for it.    *)
(* A natural key (the name, or the code of a grade) stands for all its     *)
(* spellings: every comparison trims it and ignores its case.              *)
(***************************************************************************)
EXTENDS Integers, Sequences, FiniteSets

CONSTANTS
    Req,                \* the calls of a behaviour, and processes that start
    Nobody,             \* the calls that came before
    Key,                \* natural keys
    StandardGrades,     \* bootstrapGrades: their codes
    StandardBagTypes,   \* bootstrapBagTypes: names and weights
    MaxWeight,          \* the largest value of a Decimal(10,3)
    MaxImportRows,      \* MAX_IMPORT_ROWS
    PageSize            \* page_size of a list request

ASSUME SizesAssumption == PageSize \in Nat \ {0} /\ MaxWeight \in Nat /\ MaxImportRows \in Nat
ASSUME SeedsAssumption ==
    /\ StandardGrades \in Seq(Key)
    /\ StandardBagTypes \in Seq([key : Key, weight : 1..MaxWeight])
    /\ \A m, n \in DOMAIN StandardGrades : StandardGrades[m] = StandardGrades[n] => m = n
    /\ \A m, n \in DOMAIN StandardBagTypes :
          \/ StandardBagTypes[m].key = StandardBagTypes[n].key
          \/ StandardBagTypes[m].weight = StandardBagTypes[n].weight
          => m = n

Entity == {"supplier", "buyer", "warehouse", "grade", "bag_type"}
SupplierType == {"auction_agent", "mill", "farmer", "other"}
Id == [by : Req \cup {Nobody}, entity : Entity, line : Nat]

\* What a request or a line of a file says of a row: a supplier has a type, a
\* bag type a weight.
Input == [key : Key, type : SupplierType \cup {"none"}, weight : Nat]
Named(key) == [key |-> key, type |-> "none", weight |-> 0]
Weighing(key, weight) == [key |-> key, type |-> "none", weight |-> weight]

Row == [key : Key, type : SupplierType \cup {"none"}, weight : 0..MaxWeight, created : Nat]
RowOf(input, time) ==
    [key |-> input.key, type |-> input.type, weight |-> input.weight, created |-> time]

\* The columns take the input: weight_kg has a largest value, which no schema
\* checks.  The mutated form takes any.
FitsAny(input) == TRUE
Fits(input) == input.weight <= MaxWeight

\* A row to insert, with the line of the input it comes from.
Item == [line : Nat, input : Input]
ItemOf(n, input) == [line |-> n, input |-> input]

------------------------------------------------------------------------------
\* Bulk import

\* A line of an uploaded file: what it says, if the schema accepts it.
Line == [valid : BOOLEAN, input : Input]

\* The lines that runBulkImport queues: valid, with a key that no row has and
\* no line before it.  The mutated form looks at the rows only.
QueuedUnlessKnown(file, known) ==
    {ItemOf(n, file[n].input) :
        n \in {m \in DOMAIN file : file[m].valid /\ file[m].input.key \notin known}}
Queued(file, known) ==
    {ItemOf(n, file[n].input) : n \in {m \in DOMAIN file :
        /\ file[m].valid
        /\ file[m].input.key \notin known
        /\ \A k \in DOMAIN file : k < m /\ file[k].valid => file[k].input.key # file[m].input.key}}

------------------------------------------------------------------------------
\* Seeds

\* The standard bag types of which the organization has neither the name nor
\* the weight, and the standard grades it misses.  The mutated form adds no
\* grades to an organization that has some.
SameBagType(row, seed) == row.key = seed.key \/ row.weight = seed.weight
MissingBagTypes(rows) ==
    {ItemOf(n, Weighing(StandardBagTypes[n].key, StandardBagTypes[n].weight)) :
        n \in {m \in DOMAIN StandardBagTypes :
                  ~\E row \in rows : SameBagType(row, StandardBagTypes[m])}}
MissingIfNone(rows) ==
    {ItemOf(n, Named(StandardGrades[n])) : n \in {m \in DOMAIN StandardGrades : rows = {}}}
MissingGrades(rows) ==
    {ItemOf(n, Named(StandardGrades[n])) :
        n \in {m \in DOMAIN StandardGrades : ~\E row \in rows : row.key = StandardGrades[m]}}

------------------------------------------------------------------------------
\* Pages of a list, newest rows first

\* (page - 1) * pageSize, and a mutated form that starts pages at zero.
OffsetFromZero(page) == page * PageSize
Offset(page) == (page - 1) * PageSize

TotalPages(total) ==
    LET pages == (total + PageSize - 1) \div PageSize IN IF pages = 0 THEN 1 ELSE pages
HasNext(page, total) == page < TotalPages(total)

\* The sets of rows of listed that ORDER BY created_at DESC LIMIT OFFSET may
\* answer: rows of one created_at come in any order.
Pages(rows, listed, page) ==
    LET Newer(i) == Cardinality({j \in listed : rows[j].created > rows[i].created})
        Tied(i) == {j \in listed : rows[j].created = rows[i].created}
        Window == Offset(page) + 1 .. Offset(page) + PageSize
        Places(i) == Newer(i) + 1 .. Newer(i) + Cardinality(Tied(i))
    IN  {answer \in SUBSET listed :
            \A i \in listed : Cardinality(answer \cap Tied(i)) = Cardinality(Window \cap Places(i))}
=============================================================================
