------------------------------- MODULE Ledger -------------------------------
(***************************************************************************)
(* The trade ledger of one organization: what the lot, contract, shipment  *)
(* and stock services promise, one atomic action per service call.  A call *)
(* that fails rolls its transaction back and changes nothing, so an action *)
(* is enabled exactly when the call succeeds.  LedgerTx breaks the calls   *)
(* into the statements they run and is shown to implement this module.     *)
(*                                                                         *)
(* outbox holds the notifications of the calls whose transaction is        *)
(* committed and whose handler has not dispatched them yet.                *)
(***************************************************************************)
EXTENDS LedgerData

CONSTANTS
    Weights,        \* the weights requests carry, in fine units, positive
    Adjustments,    \* the corrections requests carry, in fine units
    MaxTotal,       \* bound: no lot grows above this stored weight
    MaxInFlight     \* bound: calls between their commit and their return

ASSUME WeightsAssumption ==
    /\ Weights \subseteq Nat \ {0}
    /\ Adjustments \subseteq Int
    /\ MaxTotal \in Nat

VARIABLES lots, contracts, allocs, shipments, documents, adjustments, outbox

vars == <<lots, contracts, allocs, shipments, documents, adjustments, outbox>>

TypeOK ==
    /\ IsTable(lots, Lot, LotRow)
    /\ IsTable(contracts, Contract, ContractRow)
    /\ IsTable(allocs, Alloc, AllocRow)
    /\ IsTable(shipments, Shipment, ShipmentRow)
    /\ documents \subseteq Document
    /\ adjustments \in [Lot -> Int]
    /\ outbox \subseteq Notice

Empty == [k \in {} |-> k]

Init ==
    /\ lots = Empty
    /\ contracts = Empty
    /\ allocs = Empty
    /\ shipments = Empty
    /\ documents = {}
    /\ adjustments = [l \in Lot |-> 0]
    /\ outbox = {}

\* The end of a call: the notifications its handler still has to dispatch.
Announce(notices) ==
    /\ Cardinality(outbox) < MaxInFlight
    /\ outbox' = outbox \cup notices

\* refreshLotStatus after the writes of the caller; the mutated form leaves
\* the call out.
NotRefreshed(row, lot, newAllocs) == row
Refreshed(row, lot, newAllocs) ==
    [row EXCEPT !.status = LotStatusOf(row.available, OpenAllocations(newAllocs, lot))]

\* createShipment's check of one allocation; the mutated form ships again what
\* has left.
OfContract(a, c) == allocs[a].contract = c
Shippable(a, c) == allocs[a].contract = c /\ allocs[a].status = "allocated"

\* createShipment's update of its allocations; the mutated form leaves
\* shipment_id as it was.
ShippedNowhere(ids, s) ==
    [a \in DOMAIN allocs |-> IF a \in ids THEN [allocs[a] EXCEPT !.status = "shipped"] ELSE allocs[a]]
ShippedIn(ids, s) ==
    [a \in DOMAIN allocs |->
        IF a \in ids THEN [allocs[a] EXCEPT !.status = "shipped", !.shipment = s] ELSE allocs[a]]

\* updateStatus's check; the mutated form lets every status through.
AnyStatus(s, status) == TRUE
NotBackwards(s, status) == StageOf[status] >= StageOf[shipments[s].status]

------------------------------------------------------------------------------

\* createAuctionLot and createDirectDelivery insert the lot in the same way.
ReceiveLot(l, x) ==
    /\ l \notin DOMAIN lots
    /\ Stored(x) <= MaxTotal
    /\ lots' = Insert(lots, l, [total |-> Stored(x), available |-> Stored(x), status |-> "in_stock"])
    /\ UNCHANGED <<contracts, allocs, shipments, documents, adjustments, outbox>>

CreateContract(c, x) ==
    /\ c \notin DOMAIN contracts
    /\ contracts' = Insert(contracts, c, [quantity |-> Stored(x), allocated |-> 0,
                                          shipped |-> 0, status |-> "open"])
    /\ Announce({[event |-> "contract_created", about |-> c]})
    /\ UNCHANGED <<lots, allocs, shipments, documents, adjustments>>

AllocateLot(a, c, l, x) ==
    LET contract == contracts[c]
        lot == lots[l]
        allocated == Stored(Scale * contract.allocated + x)
        newAllocs == Insert(allocs, a, [contract |-> c, lot |-> l, kg |-> Stored(x),
                                        status |-> "allocated", shipment |-> NoShipment])
    IN  /\ a \notin DOMAIN allocs
        /\ contract.status # "closed"
        /\ ~Exceeds(x, contract.quantity - contract.allocated)
        /\ ~Exceeds(x, lot.available)
        /\ allocs' = newAllocs
        /\ contracts' = [contracts EXCEPT ![c].allocated = allocated]
        /\ lots' = [lots EXCEPT ![l] = Refreshed(Taken(lot, x), l, newAllocs)]
        /\ Announce({n \in {[event |-> "contract_fully_allocated", about |-> c]} :
                        allocated >= contract.quantity})
        /\ UNCHANGED <<shipments, documents, adjustments>>

\* The shipment s takes the allocations of ids; the over-fulfilment check is
\* the bound of newShipped.
CreateShipment(s, c, ids) ==
    LET contract == contracts[c]
        newAllocs == ShippedIn(ids, s)
        touched == {allocs[a].lot : a \in ids}
    IN  /\ s \notin DOMAIN shipments
        /\ \A a \in ids : Shippable(a, c)
        /\ \E newShipped \in 0..contract.quantity :
              /\ newShipped = contract.shipped + Weight(allocs, ids)
              /\ contracts' = [contracts EXCEPT
                    ![c].shipped = newShipped,
                    ![c].status = NextContractStatus(newShipped, contract.quantity, contract.status)]
        /\ allocs' = newAllocs
        /\ lots' = [l \in DOMAIN lots |->
                        IF l \in touched THEN Refreshed(lots[l], l, newAllocs) ELSE lots[l]]
        /\ shipments' = Insert(shipments, s, [contract |-> c, status |-> "planned",
                                              snapshot |-> Lines(allocs, ids)])
        /\ Announce({[event |-> "shipment_created", about |-> s]})
        /\ UNCHANGED <<documents, adjustments>>

AdjustStock(l, delta) ==
    LET lot == lots[l]
        corrected == Corrected(lot, delta)
    IN  /\ Scale * lot.total + delta >= -Epsilon
        /\ Scale * lot.available + delta >= -Epsilon
        /\ corrected.total <= MaxTotal
        /\ lots' = [lots EXCEPT ![l] = Refreshed(corrected, l, allocs)]
        /\ adjustments' = [adjustments EXCEPT ![l] = @ + StoredCorrection(delta)]
        /\ Announce({[event |-> "stock_adjusted", about |-> l]})
        /\ UNCHANGED <<contracts, allocs, shipments, documents>>

\* A status may be repeated; planned has no notification rule.
UpdateStatus(s, status) ==
    /\ NotBackwards(s, status)
    /\ shipments' = [shipments EXCEPT ![s].status = status]
    /\ Announce({n \in {[event |-> "shipment_status_changed", about |-> s, status |-> status]} :
                    status # "planned"})
    /\ UNCHANGED <<lots, contracts, allocs, documents, adjustments>>

\* The traceability report copies the snapshot; the other documents are
\* computed from the allocations of the shipment as they are now.
GenerateDocuments(s, types) ==
    LET now == AllocationsOf(allocs, s)
        Payload(type) == IF type = "traceability_report" THEN shipments[s].snapshot
                         ELSE Lines(allocs, now)
    IN  /\ now # {}
        /\ documents' = documents \cup
                {[shipment |-> s, type |-> type, payload |-> Payload(type)] : type \in types}
        /\ Announce({[event |-> "shipment_documents_ready", about |-> s]})
        /\ UNCHANGED <<lots, contracts, allocs, shipments, adjustments>>

\* The handler sends a notification, or fails to (a failure is swallowed),
\* or its process ends before it gets there.
Dispatch(n) ==
    /\ outbox' = outbox \ {n}
    /\ UNCHANGED <<lots, contracts, allocs, shipments, documents, adjustments>>

------------------------------------------------------------------------------

Next ==
    \/ \E l \in Lot, x \in Weights : ReceiveLot(l, x)
    \/ \E c \in Contract, x \in Weights : CreateContract(c, x)
    \/ \E a \in Alloc, c \in DOMAIN contracts, l \in DOMAIN lots, x \in Weights :
            AllocateLot(a, c, l, x)
    \/ \E s \in Shipment, c \in DOMAIN contracts, ids \in (SUBSET DOMAIN allocs) \ {{}} :
            CreateShipment(s, c, ids)
    \/ \E l \in DOMAIN lots, delta \in Adjustments : AdjustStock(l, delta)
    \/ \E s \in DOMAIN shipments, status \in ShipmentStatus : UpdateStatus(s, status)
    \/ \E s \in DOMAIN shipments, types \in (SUBSET DocType) \ {{}} : GenerateDocuments(s, types)
    \/ \E n \in outbox : Dispatch(n)

Spec == Init /\ [][Next]_vars

------------------------------------------------------------------------------
\* Properties

\* Stock and commitments stay within what exists: a lot never has more
\* available than it holds, and a contract never has more allocated to it or
\* shipped for it than it asks for (allocateLot's two checks and
\* createShipment's over-fulfilment check, each made on a row read earlier in
\* the call).
WithinLimits ==
    /\ \A l \in DOMAIN lots : lots[l].available <= lots[l].total
    /\ \A c \in DOMAIN contracts :
            /\ contracts[c].allocated <= contracts[c].quantity
            /\ contracts[c].shipped <= contracts[c].quantity

\* Nothing is sold twice and nothing gets lost: what a lot lacks is what its
\* allocations took, and the running totals of a contract are the sums of its
\* allocation rows (the three separate updates of allocateLot, the recomputed
\* shipped_kg of createShipment and the two columns adjustStock corrects).
Conservation ==
    /\ \A l \in DOMAIN lots :
            lots[l].total - lots[l].available
                = Weight(allocs, {a \in DOMAIN allocs : allocs[a].lot = l})
    /\ \A c \in DOMAIN contracts :
            LET own == {a \in DOMAIN allocs : allocs[a].contract = c}
            IN  /\ contracts[c].allocated = Weight(allocs, own)
                /\ contracts[c].shipped
                        = Weight(allocs, {a \in own : allocs[a].status = "shipped"})

\* The stored status of a lot is the one its stock and its open allocations
\* give it, after every call and not only after the call on that lot
\* (refreshLotStatus and its callers).
LotStatusAgrees ==
    \A l \in DOMAIN lots :
        lots[l].status = LotStatusOf(lots[l].available, OpenAllocations(allocs, l))

\* "Allocation cannot exceed remaining lot availability": together the
\* allocations of a lot weigh no more than the lot.  The two updates of
\* allocateLot round separately, so this needs requests in whole units.
AllocationsWithinStock ==
    \A l \in DOMAIN lots :
        Weight(allocs, {a \in DOMAIN allocs : allocs[a].lot = l}) <= lots[l].total

\* A contract is fulfilled exactly when its whole quantity has left, and then
\* no allocation of it is still waiting for a shipment (nextContractStatus and
\* the checks that keep the allocated total under the quantity).
FulfilmentAgrees ==
    \A c \in DOMAIN contracts :
        /\ contracts[c].status
                = NextContractStatus(contracts[c].shipped, contracts[c].quantity, "open")
        /\ contracts[c].status = "fulfilled" =>
                \A a \in DOMAIN allocs : allocs[a].contract = c => allocs[a].status = "shipped"

\* Traceability backward and forward: every allocation leads back to a lot and
\* a contract that exist and, once shipped, forward to a shipment of its
\* contract; the snapshot frozen when a shipment was created still lists exactly
\* the allocations that point at it; and so every document of a shipment tells
\* the same story whenever it was generated (createShipment,
\* generateDocuments, the traceability report).
ReferencesExist ==
    \A a \in DOMAIN allocs :
        /\ allocs[a].lot \in DOMAIN lots
        /\ allocs[a].contract \in DOMAIN contracts
        /\ allocs[a].status = "allocated" => allocs[a].shipment = NoShipment
        /\ allocs[a].status = "shipped" =>
                /\ allocs[a].shipment \in DOMAIN shipments
                /\ shipments[allocs[a].shipment].contract = allocs[a].contract

SnapshotFaithful ==
    \A s \in DOMAIN shipments :
        shipments[s].snapshot = Lines(allocs, AllocationsOf(allocs, s))

DocumentsAgree ==
    \A d \in documents :
        d.shipment \in DOMAIN shipments /\ d.payload = shipments[d.shipment].snapshot

Traceable == ReferencesExist /\ SnapshotFaithful /\ DocumentsAgree

\* A notification that is about to be sent is true of the committed data, also
\* when other calls have committed since ("called after transactional writes
\* complete, avoiding phantom alerts").
NoticeTrue(n) ==
    CASE n.event = "contract_created" -> n.about \in DOMAIN contracts
      [] n.event = "contract_fully_allocated" ->
            /\ n.about \in DOMAIN contracts
            /\ contracts[n.about].allocated = contracts[n.about].quantity
      [] n.event = "shipment_created" -> n.about \in DOMAIN shipments
      [] n.event = "shipment_status_changed" ->
            /\ n.about \in DOMAIN shipments
            /\ StageOf[shipments[n.about].status] >= StageOf[n.status]
      [] n.event = "shipment_documents_ready" -> \E d \in documents : d.shipment = n.about
      [] n.event = "stock_adjusted" -> n.about \in DOMAIN lots

NoPhantomAlert == \A n \in outbox : NoticeTrue(n)

\* History is only ever added to: an allocation keeps its contract, lot and
\* weight and ships at most once, with a shipment made for it; a shipment keeps
\* its contract and snapshot and never goes back; a contract's progress never
\* shrinks; a lot's total changes only by what is recorded as a correction; and
\* a document never changes ("cannot move backwards", "freezes a traceability
\* snapshot", the audit trail of stock_adjustments).
AllocationsKept ==
    \A a \in DOMAIN allocs :
        /\ a \in DOMAIN allocs'
        /\ \/ allocs'[a] = allocs[a]
           \/ /\ allocs[a].status = "allocated"
              /\ \E s \in DOMAIN shipments' \ DOMAIN shipments :
                    allocs'[a] = [allocs[a] EXCEPT !.status = "shipped", !.shipment = s]

ShipmentsKept ==
    \A s \in DOMAIN shipments :
        /\ s \in DOMAIN shipments'
        /\ shipments'[s].contract = shipments[s].contract
        /\ shipments'[s].snapshot = shipments[s].snapshot
        /\ StageOf[shipments'[s].status] >= StageOf[shipments[s].status]

LotsKept ==
    \A l \in DOMAIN lots :
        /\ l \in DOMAIN lots'
        /\ lots'[l].total - lots[l].total = adjustments'[l] - adjustments[l]

ContractsKept ==
    \A c \in DOMAIN contracts :
        /\ c \in DOMAIN contracts'
        /\ contracts'[c].quantity = contracts[c].quantity
        /\ contracts'[c].allocated >= contracts[c].allocated

HistoryKept ==
    [][ /\ AllocationsKept
        /\ ShipmentsKept
        /\ ContractsKept
        /\ LotsKept
        /\ documents \subseteq documents' ]_vars

\* The fully-allocated alert of a contract is raised by the one allocation that
\* completes it and by no later call (allocateLot's check after its commit).
AlertCompletes ==
    \A c \in DOMAIN contracts :
        LET alert == [event |-> "contract_fully_allocated", about |-> c]
        IN  alert \in outbox' \ outbox =>
                /\ contracts[c].allocated < contracts[c].quantity
                /\ contracts'[c].allocated = contracts'[c].quantity

FullyAllocatedOnce == [][AlertCompletes]_vars
=============================================================================
