# Kahawa Trade API: verification project

TLA+ models of the Kahawa Trade API (a multi-tenant Express service over PostgreSQL for buying,
stocking, contracting and shipping coffee), the TLC configurations that check them, and TLAPS
proofs of what should hold for every size of the data. Every definition is a translation of code
under `src/`; `PROJECT.json` names the lines of each.

Contents: [the system](#the-system), [modules](#modules), [runs](#runs), [proofs](#proofs),
[fairness](#fairness), [abstractions](#abstractions-and-bounds), [findings](#findings),
[not modelled](#not-modelled), [plan](#plan).

## The system

Several Node processes serve HTTP requests from one PostgreSQL database at READ COMMITTED. All
business state is in the database; a process keeps nothing between requests but its connection
pool and rate-limit counters. A request passes authentication, role check, organization-status
check and the idempotency middleware (`registerRoutes.ts`), on some routes the plan guard, and then
a service call, which is normally one transaction (`withTransaction`) that takes row locks with
`SELECT ... FOR UPDATE`. After the commit the handler sends notification mails. So concurrency
comes from requests of different connections interleaving statement by statement, and failure
from statements, connections and processes that stop between two statements.

| component | state it keeps | operations | talks to | what is hard | what makes it correct |
|---|---|---|---|---|---|
| Procurement | `lots`, `auction_procurements`, `direct_agreements`, `direct_deliveries` | create auction lot, agreement, delivery | plan guard, master data | lot limit is checked before the transaction; references are checked without a lock; supplier type may change | references hold; a lot's procurement record agrees with the lot; agents and direct suppliers keep apart |
| Contracts | `contracts`, `allocations` | create contract, allocate lot | lots, notifications | concurrent allocations of one lot or contract, rounding | no over-allocation, no double selling, totals equal the sums of the rows |
| Shipments | `shipments`, allocation status, contract progress | create, move status | lots, contracts, notifications | several allocations and lots locked in one transaction, deadlock | each allocation ships once; progress and status agree; status never goes back |
| Documents | `shipment_documents` | generate | shipments | read of two tables without locks | documents and frozen snapshot tell the same story |
| Inventory | `lots`, `stock_adjustments` | adjust stock, dashboards | `refreshLotStatus` | absolute write of values computed in the process | total changes only by recorded corrections; stored lot status is the derived one |
| Notifications | none | send mails by role | all services, mail provider | sent after commit, while others commit | no phantom alert; the fully-allocated alert once |
| Cron jobs | none | risk and key-expiry alerts | notifications | one schedule per process plus an HTTP trigger | a mail never makes a contract look better off than it is; a contract at risk is mailed about as long as it is |
| Database access | pool | transactions, session variables | everything | full pool, failing statement, rollback | everything or nothing; connection always given back |
| Idempotency | `idempotency_keys` | claim, replay, finish, expire | every mutating route | claim races, lost responses, crash, expiry | one effect per key, faithful replay, final response |
| Plan guard | `subscriptions.plan`, counts of users, lots, keys | guard a creation | auth, procurement, back office | plan read, count and insert are separate | limits exceeded at most by what is in flight |
| Sessions, users, keys | `users`, `user_sessions`, `api_keys` | register, login, refresh, logout, (de)activate, keys | authentication middleware | refresh reads, then writes; deactivation in two transactions | a revoked session never comes back; rotation |
| Organization status | `organizations.status` | suspend, activate | middleware | checked before the handler; auth routes are outside | no business write after suspension but what was in flight |
| Back office | organizations, subscriptions, notes, impersonation log | create, plan, trial, status, impersonate | super admins | several statements without a transaction; creation in one, seeds after it | an organization has a subscription and an admin; an impersonation is logged; a trial ends |
| Master data, import, seeds | suppliers, buyers, warehouses, grades, bag types | CRUD, lists, import, seed at start | procurement, contracts | read-then-insert without unique constraints; deletes next to inserts; paging | duplicates only by overlapping calls; standards present; a page walk is complete |
| Finance, traceability, lists, dashboards | `cost_entries` | one insert, otherwise reads | ledger tables | torn reads | totals are those of one moment |
| Access control | database policies, route guards | — | everything | two layers that must agree | a role that passes the route can do its work in the database |

`PROJECT.json` lists the same components with what is modelled of each, and every hazard we
know of at its line, the ones without a property yet included.

## Modules

```
LedgerData --> Ledger ----------> LedgerProofs
    |             ^  refines
    +---------> LedgerTx ----> LedgerTxProofs   (statements, locks, pool; INSTANCE Ledger;
                                                the proofs INSTANCE LedgerProofs)
Idempotency ----------> IdempotencyProofs
PlanGuard   ----------> PlanGuardProofs
Sessions    ----------> SessionsProofs
Ledger --> Alerts ----> AlertsProofs           (the ledger and the contract-risk job)
CatalogData --> Catalog --> CatalogProofs
Organizations --------> OrganizationsProofs
MC_*                              (instances for TLC)
```

**LedgerData** — rows of the tables (`LotRow`, `ContractRow`, ...) and the pure computations of the
services: `Stored` is the rounding of a number into `numeric(12,3)`, `Exceeds` a comparison with
EPSILON, `NextContractStatus` and `LotStatusOf` the two status functions of `dbHelpers.ts`,
`Corrected` the arithmetic of `adjustStock`. Weights of requests are integers of *fine* units;
`Scale` of them make a stored unit (0.001 kg), so that a request with more decimals than the column
has is representable. `Scale = 1`, `Epsilon = 0` is the world where clients send at most three
decimals (`WholeUnits`). `ScaleAssumption` says that EPSILON (1e-6 kg) is less than half a stored
unit: two stored weights that differ, differ by more than the tolerance, and so does a stored weight
and one that rounds to another.

**Ledger** — the abstract specification: one organization's ledger, one atomic action per service
call (`ReceiveLot`, `CreateContract`, `AllocateLot`, `CreateShipment`, `AdjustStock`,
`UpdateStatus`, `GenerateDocuments`). An action is enabled exactly when the call succeeds. Lot
refreshes and status updates are part of the action. `outbox` holds notifications of calls whose
transaction is committed and whose handler has not sent them; `Dispatch` sends or loses one.

**LedgerTx** — the same calls as the code runs them. A request waits for a connection, begins, runs
its statements one by one (`Program` gives their order), takes row locks as it goes, keeps its
writes in `draft` until `Commit` and releases locks and connection on every path. Locks are
PostgreSQL's (an update lock excludes other locks on the row; an insert referring to a row takes a
share of it); statements read committed rows plus the transaction's own. Any statement may fail
(`Fail`), and the database cancels a member of a cycle of waiting requests (`BreakDeadlock`).
A shipment locks its allocations in any order (`next` is the one whose turn it is, one of those left,
`ToLock`), because the `SELECT ... FOR UPDATE` has no ORDER BY; the lots it still has to refresh are a
set (`todo`) and `NextLot` is the first of them in the order of the allocations' ids, as the code's query
says.
`L == INSTANCE Ledger WITH outbox <- ...` is the refinement mapping: the committed tables are the
ledger's tables, what committed requests still have to send is its outbox.

| code | LedgerTx |
|---|---|
| `pool.connect`, `BEGIN` | `Connect` |
| contract `FOR UPDATE` | `LockContract` |
| lot `FOR UPDATE`, checks, writes of `allocateLot` / `adjustStock` | `TakeFromLot` / `CorrectLot` |
| `INSERT INTO shipments` (unique number) | `InsertShipment` |
| allocations `FOR UPDATE`, checks, writes of `createShipment` | `LockAllocation` (one lock per step) |
| `refreshLotStatus` | `LockShippedLot`, `RefreshLot` |
| `updateStatus` | `MoveShipment` |
| `generateDocuments`: two reads, insert | `ReadShipment`, `ListAllocations`, `InsertDocuments` |
| `COMMIT` / catch, `ROLLBACK`, release | `Commit` / `Rollback` |

**Idempotency** — the rows of `idempotency_keys` and the requests that carry a key: `Claim` (the
INSERT with its conditional takeover), `LookUp` (the SELECT after a conflict), `Handle` (the business
call, which takes effect or not), `Respond`, `Finalise` (the UPDATE of the `finish` handler, not
awaited and allowed to fail), `Crash`, `Expire`. `effects` records which requests took effect since
the key was last free.

**PlanGuard** — plan, row counts and guarded requests in three steps (`ResolvePlan`,
`CountResource`, `Create`), with `UpdatePlan`, `Deactivate`, `Reactivate` and `RevokeApiKey` between
them. `had` is a history variable.

**Sessions** — the rows of `user_sessions`, whether users are active, and the calls under way. `login`
is `LoginRead` (the user's row; the password is verified afterwards) and `LoginInsert`; `refresh` is
`RefreshRead`, which decides, and then `RefreshRevoke` or `RefreshRotate`, whose UPDATE looks at the
id only; `updateUserStatus` is `Deactivate` and `RevokeSessions`, two transactions, or `Reactivate`.
A token is its session and the second it was signed in, because `jwt.sign` is deterministic and its
clock counts seconds; the second lies between the read and the write of its call (`since`). `given`
are the tokens clients hold, any of which they may present again. `late` and `torn` are
history variables.

**Alerts** — `Ledger` composed with the contract-risk job of `notifications.cron.ts`. `ReadContracts` is
the one SELECT of a run, `NotifyContractRisk` and `Skip` take the rows one by one, `EndRun` and `Crash`
end it; ledger calls commit between any two of these. `near` holds the contracts whose shipment window is
about to close; `ComesNear` is a day passing. `AlertsSpec` implements `Spec` of the ledger
(`LedgerUndisturbed`): the job writes nothing.

**CatalogData**, **Catalog** — the five reference tables in one function from ids to rows, and procurement
and contracts as far as they refer to them. A call that is one statement is one action (`Create`,
`Update`, `Delete`); a call that reads and then writes is two:

| code | Catalog |
|---|---|
| `createSupplier` ... `deleteBagType` | `Create`, `Update`, `Delete` for each entity; `InUse` are the foreign keys that refuse a delete |
| `listSuppliers` ... : COUNT, then page | `Count`, `ReadPage`; the client goes on while `has_next` |
| `runBulkImport`: keys, then INSERT | `ReadKeys`, `InsertQueued` |
| seeding of bag types, then grades | `ReadBagTypes`, `InsertBagTypes`, `ReadGrades`, `InsertGrades` |
| `createAuctionLot`: checks, inserts | `CheckAuction`, `InsertAuctionLot` |
| `createDirectAgreement`, `createDirectDelivery` | `CheckAgreement`, `InsertAgreement`; `CheckDelivery`, `InsertDeliveredLot` |
| `createContract`: references, insert | `CheckContract`, `InsertContract` |
| any error before a commit | `Fail` |

`past` remembers rows that were changed or deleted, so that the properties can tell what the calls did
from what somebody undid. `created_at` is the start of the inserting transaction to the millisecond, so rows of
different calls may share it and a row may be older than rows committed before it: `Moments` lets a row have any of
the last `Lag` times.

**Organizations** — organizations with their subscriptions, users, the impersonation log, and requests on
their way: `Authenticate` reads the user, `CheckOrganization` is `ensureOrgActive`, `Write` the commit of a
business handler; `RegisterCount` and then `RegisterFirst` or `RegisterUser` are `register`;
`UpdateUserStatus` writes the flag; `CreateOrganization`, `UpdatePlan`, `ExtendTrial`,
`UpdateOrganizationStatus` are calls of the back office, each one transaction, and `Impersonate`,
`InsertLog`, `SignToken` the three steps of another. `late`, `crossed` and `undated` are history variables.

The modules contain a few definitions whose comment says *mutated form*: variants of a definition
with a plausible mistake, which no specification uses. `PROJECT.json` "mutants" pairs each property
with one that breaks it.

## Runs

| run | what it checks | instance, and why it is enough |
|---|---|---|
| `ledger` | `TypeOK`, `WithinLimits`, `Conservation`, `LotStatusAgrees`, `FulfilmentAgrees`, `Traceable`, `HistoryKept` | two lots, two contracts, three allocations, two shipments, weights 1 and 2: two contracts competing for a lot, a contract filled from two lots, a shipment of several allocations, a contract shipped in two parts |
| `ledger_alerts` | `AlertsTypeOK`, `RiskNotUnderstated`, `NoPhantomAlert`, `FullyAllocatedOnce`, `RiskAlerted` | two contracts, one lot, two handlers between commit and return, so a notice waits while another call commits; one run of the job, interrupted once, so that contracts are allocated, partly shipped and fulfilled between its SELECT and its mails |
| `ledger_fine` | `AllocationsWithinStock`, violated | four fine units to a stored one, tolerance one of them |
| `ledger_tx` | `TypeOK`, `Serializable`, `CommittedConsistent`, `OnlyShipmentsDeadlock` | every pair of calls on two seeds: `Crossing` (two contracts with allocations in both lots, in opposite order, and a shipment that names allocations of both) and `Scarce` (one lot left for two contracts) |
| `ledger_tx_live` | `EveryCallEnds` under `FairSpec` | three requests on two connections with calls that cross, so requests wait for the pool, for rows and in a cycle |
| `idempotency` | `TypeOK`, `AtMostOnce`, `FaithfulReplay`, `ResponseFinal` | four requests with one key (keys are independent) and two payloads, every fault |
| `idempotency_busy` | `BusyMeansRunning`, violated | two requests, no faults |
| `plan_guard` | `TypeOK`, `OvershootBounded` | two requests, three plans of the shape of `PLAN_LIMITS` (none, few, unlimited), four rows of a resource: more than any finite limit and the overshoot |
| `plan_users` | `UsersWithinPlan`, violated | one request at a time |
| `sessions` | `TypeOK`, `DisabledIsClean`, `RevocationFinal` | two sessions, two calls at a time, three seconds with tokens that live two: a superseded token is presented while valid and after it expired, refresh and logout race, a login straddles a disabling, a disabling is cut short |
| `catalog` | `TypeOK`, `ReferencesHold`, `SourceKnown`, `ChannelsApart`, `DuplicatesOnlyByRace`, `StandardsPresent`, `WalkComplete` | any three of 28 calls on an organization at work or a new one: two that race and a third that changes what they read. Files repeat a line, a key that exists and an invalid line; a bag is too heavy for its column; pages of two rows, so lists of suppliers and of seeded grades have several; `Lag` 2, so rows of two calls tie or swap |
| `organizations` | `TypeOK`, `OrganizationsComplete`, `LateWritesBounded`, `BootstrapBounded`, `AdminRemains`, `ImpersonationLogged`, `TrialsDated` | two requests, two organizations, two users: two first registrations race, administrators disable each other, a suspension falls between a check and a write, an impersonation fails half-way |

`CHECK_DEADLOCK FALSE` is set where requests run once or ids run out, so that a behaviour ends.

`Serializable` is the refinement: every step of `LedgerTx` is a step of `Ledger` on committed state
or changes none of it. `CommittedConsistent` repeats the ledger's invariants over committed state, so
that a mistake in locks shows as a broken business rule, not only as a failed refinement.
`OnlyShipmentsDeadlock` says exactly which calls can wait in a cycle: allocations and shipments both
lock the contract before any lot, so only shipments of *different* contracts can. Most of them refresh two lots
they share. They can also meet on allocations, which are locked in no order and before their contract is
checked, but only if one of the two names an allocation of a contract that is not its own and is to be
refused for it. `ledger_tx` reaches cycles of both kinds.

## Proofs

`LedgerProofs` proves every invariant and action property of the ledger for every set of lots, contracts,
allocations, shipments and document types. How finely clients weigh matters, so each theorem states
exactly what it needs:

| hypothesis | theorems | why |
|---|---|---|
| none | `TypeCorrect`, `LimitsKept`, `TraceabilityHolds`, `AlertsAreTrue` | each check tolerates less than half a stored unit, so what it lets through rounds to something that still fits |
| `NothingTooSmall`: no weight of a request rounds to zero | `LotStatusCorrect`, `FulfilmentCorrect`, `AlertOnce` | an allocation or a contract of nothing is open and full at the same time |
| `WholeUnits` | `HistoryIsKept`, `WeightConserved`, `StockCoversAllocations` | a correction is rounded once in the total and once in what is recorded, and a half rounds up in one and away from zero in the other; an allocation is rounded once as a row and once in what the lot has left |

The last line is not caution: `ledger_fine` shows `AllocationsWithinStock` violated without it. The argument:

- Rounding is monotone and exact on stored weights (`StoredBounds` and its like), and each computation
  keeps row types.
- The inductive invariant is built in layers: types, limits, references, snapshots, lot status, sums.
  `WithinLimits` needs the types of the rows; `SnapshotFaithful` needs `ReferencesExist` (an
  allocation pointing at a shipment that does not exist yet would enter its snapshot later);
  `LotStatusAgrees` needs that only allocations of a touched lot change and that every touched lot is
  refreshed.
- `Conservation` splits into `TotalsAgree` (a contract's totals are sums of its allocations, with any rounding)
  and `StockAgrees` (a lot's total and availability differ by its allocations, in whole units); each
  call adds one row to a sum, changes rows outside it, or moves rows from one sum to another. A sum is
  a fold over a finite set, and induction over sets is beyond the installed provers. So a sum is shown to be
  the number of *units*, pairs of an allocation and one of its stored units of weight (`Units`), whose
  cardinality the library's theorems can split; that the fold is that number follows because a
  least counterexample is impossible.
- `FulfilmentAgrees` is not inductive: `ProgressAgrees` adds that a status follows from the progress and that a
  contract asks for something. That all allocations of a fulfilled contract are shipped follows from
  the sums: what is shipped is all that can be allocated, and every allocation weighs something.
- The action properties follow from the invariant with one step per action. `NoPhantomAlert` needs
  that contracts only grow: a notice is true when announced and what it says cannot become false.

`LedgerTxProofs` proves about transactions, statement by statement, for any finite set of requests, any
connections, calls and starting tables, with failures and cancelled deadlocks at every statement:

- `TxSerializable`: `LedgerTx` implements `Ledger`. The inductive invariant `TxInv` says of each request what its draft
  may contain at each statement (`StageOK`): what it has locked, what the checks it passed said of the committed
  rows, and that its writes are exactly those of the ledger's call so far (`AllocateWrites`, `ShipWrites`, ...). That
  stays true while others commit because of two facts. No two requests hold an exclusive lock on
  one row (`Exclusive`), and ids of rows not yet committed are taken by nobody else (`FreshIds`). So a commit of
  another request leaves alone what a draft relies on (`Kept`: locked rows as they were, the rest only growing).
  `Commit` then is the ledger's call with the same arguments, one lemma per operation; every other step
  changes nothing committed.
- `TxCommittedConsistent` follows: `TotalsAgree`, `StockAgrees` and the other layers of `LedgerProofs` are inductive for the ledger's
  steps, so they hold of what is committed. `P == INSTANCE LedgerProofs` makes its lemmas available.
- `TxOnlyShipmentsDeadlock`: in a cycle every request waits for a row that another member holds. Nobody who holds
  nothing is waited for, and a contract is locked before any other row by everyone who locks several, so
  members are shipments, at their allocations or their lots, and of different contracts, which they hold
  exclusively. What a shipment holds of the allocations, it names (`HoldsNamed`). So a member waiting for an
  allocation and the one that holds it both name it, for different contracts, and it belongs to one contract at
  most: one of them names a foreign allocation (`MeetOnForeign`).

The starting tables are a constant, so the theorems assume of them what the tables of an organization at work
satisfy: `WellFormed` (types, references and a finite number of allocations), and for `TxCommittedConsistent`
also that they are `Consistent` (the ledger's invariants, and no allocation or contract of nothing), which `LedgerProofs`
shows of what calls leave behind from empty tables on. TLC checks types and consistency of the seeds in `ledger_tx`.

`IdempotencyProofs` proves `TypeCorrect`, `NoDuplicateEffects`, `ReplaysAreFaithful` and
`ResponsesAreFinal` for all requests, keys and payloads with every fault, assuming
`OutlivesRequests`. `AtMostOnce` is not inductive: the invariant adds that a request between claim and
end *owns* the live, processing row of its key (`Owned`), that no two requests own the same row
(`OneOwner`), that nothing has taken effect before the owner's call ran (`OneEffect`), and that a
stored response is the unchanging result of a request that has ended (`StoredTrue`).

`PlanGuardProofs` proves `OvershootIsBounded` for any plans, limits and finite number of requests. The
invariant counts the rows *and* the requests that have passed the guard: passing happens below the
limit, at most all requests can be pending then, and an insert turns a pending request into a row.

`SessionsProofs` proves `DisablingIsClean` and `RevocationIsFinal` for any users, sessions and calls with
every fault. `DisabledIsClean` is inductive together with the types: most steps change no user, end
no disabling and keep every row's user and revocation (`QuietStep`); what remains is the login that
inserts a session, the two updates of a disabling and the crash between them.

`AlertsProofs` proves that the ledger next to the job is the ledger (`LedgerUndisturbed`: a step of the job
changes none of its variables), that types stay correct, and `RisksAreNotUnderstated`: a row was true when
it was read, and after that a contract keeps its quantity and its allocated weight only grows, because
nothing takes an allocation back.

`CatalogProofs` proves every invariant of its run, for any calls, keys and starting
tables in order. The inductive invariant names what a call between its two steps may rely on: what
`Check...` has seen of a supplier is still true of what the supplier is or has been (`Checked`,
`IntakeInv`); rows inserted by a call that has not run yet do not exist (`Fresh`); the rows a call `saw` are
the ones it compared its queue with (`Seen`, `QueuesReady`). The references need no lock because the
inserts look again (`Exists` in each), and a delete looks at everything that refers (`InUse`).
`WalkComplete` has an invariant of its own: as long as nobody has changed a row since a walk began, each
page it got is a page of the list as it is, and the total it was told is right (`PagesSoFar`). What remains is arithmetic of
pages, whatever their size: every place of the list is on exactly one page (`PagesCover`, `PagesApart`), and belongs to the
rows of exactly one `created_at` (`PlacesCover`, `PlacesApart`), so a walk pairs the rows it received with the places of the
list one to one (`WalkCounts`). A row that shares its `created_at` with no other has one place, and is on the page that has it
(`LoneRowOnce`); of rows that share theirs nothing more is true, and nothing more is claimed, whichever calls
inserted them.

`OrganizationsProofs` proves every invariant of its run. Two need a count as invariant: writes *and*
requests between check and commit are at most all requests (`LateWritesBounded`), and so are organizations
of first registrations and requests that have counted no users (`BootstrapBounded`). The latter rests on
`OrganizationsComplete`: a request that counts no users finds no organization either.

Only model-checked: liveness (`EveryCallEnds`, `RiskAlerted`), which is beyond the prover. Every other property of a
passing run is a theorem.

## Fairness

`FairSpec` has weak fairness of each request's `Step` and of `BreakDeadlock`: node-postgres runs the
next statement of every open transaction, PostgreSQL grants row locks to waiting transactions and its
deadlock detector runs after `deadlock_timeout`. There is no fairness of `Arrive` or `Fail`. A
request runs once, so weak fairness is not starved by an endless stream of newcomers; PostgreSQL's
lock queues and the pool's waiting list are first-come-first-served.

`AlertsSpec` has weak fairness of `RunJob` of each job: `node-cron` starts a run every day in every process,
and a run goes on as long as its process does. A process may end in the middle of a run (`Crash`), but only
`MaxCrashes` times: for a process that ends in every run there is nothing to promise. There is no fairness
of ledger calls nor of `ComesNear`; `RiskAlerted` assumes that a contract stays at risk.

## Abstractions and bounds

- One organization; every table carries `organization_id` and every statement filters on it.
- Ids are model values (or numbers where order matters: allocations in `LedgerTx`). Bounded sets of ids
  are the bound on the number of rows.
- `MaxTotal` (`Ledger`): no lot grows above it. `MaxInFlight`: handlers between commit and return.
  `MaxRows` (`PlanGuard`). `Calls` and `Seeds` (`LedgerTx`): calls and tables explored.
- `LedgerTx` leaves out receiving lots and creating contracts, which only insert new rows; the seeds
  contain the rows.
- `MaxTime` (`Sessions`): the clock stops there. The database role bypasses row-level security, as the
  comment at `auth.service.ts:280` asks; the updates of sessions would otherwise depend on its policies.
- A call that would exceed `MaxTotal` is refused. `MaxCrashes` (`Alerts`): processes that end in the middle
  of a run. `MaxLogs` (`Organizations`): impersonations of an organization. `MaxImportRows`, `PageSize` and
  `MaxWeight` (`Catalog`) are limits of the code, with small values.
- `Catalog` compares natural keys as the code does: trimmed, ignoring case, so one model value is all
  spellings of a name. The references of an intake call are read in one step, though the code reads them one
  by one; nothing depends on the earlier ones staying but what `InsertAuctionLot` and its like look at
  again. `clock` counts statements in the order of their commits; a new row's `created_at` lies at most `Lag` of them
  back and is the next number otherwise, so that it may tie with any row of those. The proofs are for every
  `Lag`; the run has two, enough for a row to tie with rows committed before it or to be listed behind them.
- The times of the rows `Catalog` starts from are numbered, equal ones alike (`TablesAssumption`): a list compares them
  and nothing else does.
- A seeding is of one organization; a process that starts does the same for each in one transaction.
- `Organizations`: an organization is its id; a slug that is taken is retried with another and in the end
  refused (`Fail`). Being past due or cancelled is like being active. The plan guard of `register` is in
  `PlanGuard`, the sessions that `updateUserStatus` revokes are in `Sessions`, the seeds of a new organization
  are a `seed` call of `Catalog`.
- `UpdateUserStatus` reaches users of every organization: the UPDATE names the user by id and leaves the
  organization to row-level security, which the database role bypasses. A role that does not (as
  `20260316120000_enable_rls/migration.sql:508` plans) has fewer behaviours.
- Documents keep the lines (allocation, lot, weight) and leave out prices and wording.
- Who receives a mail, its text and retries of the mail provider are left out; a failed mail is lost.

## Findings

1. **Rounding lets a lot be sold twice** (`ledger_fine`, `contracts.service.ts:124`). A weight with more
   than three decimals is rounded once in the allocation and once in the availability.
2. **A list response is never stored** (`idempotency_busy`, `idempotency.ts:267`). An array given to a
   jsonb parameter is sent as a PostgreSQL array; the repetition of such a request is refused as still
   processing until the row expires.
3. **Reactivation is not guarded** (`plan_users`, `auth.service.ts:563`). The number of active users can be
   raised above the plan's limit.

Observed while modelling, and part of what the modules do, without a run of their own:

- A refresh in the second in which the presented token was signed returns the same token (`auth.service.ts:368`):
  its claims have no random part and times in whole seconds. `modules/auth/README.md:41` calls this rotation.
- Deleting a grade that only contracts use is not refused: `contracts.grade_id` becomes NULL, while the message of
  `master.service.ts:170` speaks of every use.
- A bag weight beyond `Decimal(10,3)` passes the schema and fails the INSERT, and with it all valid lines of the
  import, while `modules/master/README.md:52` says that invalid rows do not block valid ones.
- Lists are ordered by `created_at` without a tie-break. The rows of one import or seeding share it, and so do rows of
  calls that began in one millisecond: pages may repeat or miss them (`WalkComplete` excepts rows that tie).
- **Standards may be seeded twice**, while `src/README.md:236` calls the seeding of the standard bag types "idempotent and
  safe to run on every startup (no duplicate inserts for these standards)". Seeding reads the bag types that exist and
  inserts what is missing (`seedStandardBagTypes.ts:35` and 54), without a lock and without a unique constraint
  (`schema.prisma:319`). Two processes that start together, or one that starts between the commit of a new
  organization and its own seeding (`internal.service.ts:368`), both insert the standards. In the model: `ReadBagTypes`
  of one seeding, `ReadBagTypes` of another, `InsertBagTypes` of both. `DuplicatesOnlyByRace` excepts rows that
  came after the keys were read, so it says that nothing else doubles a row, not that the promise is kept.
- Overlapping imports and creations add a name twice in the same way: no natural key of the reference tables is unique
  in the database.
- The routes under `/auth` are outside `ensureOrgActive`: administrators of a suspended organization still add and
  disable users and keys, while `src/README.md:64` speaks of mutating requests in general. `LateWritesBounded` is about the
  routes behind the check.
- First registrations that count the users at the same time each found an organization (`BootstrapBounded` says how
  many), while `src/README.md:37` speaks of the very first one. Their standards are seeded when a process next starts.
- `updatePlan` can put an organization on trial without an end, which the alerts of the back office, being about
  days, do not find (`TrialsDated` excepts exactly these).
- Every run of the risk job mails again, one per process and day.

## Not modelled

- **Finance**: one insert and sums of money over a snapshot.
- **Dashboards and reference reads**: each is a few SELECTs in transactions of their own, so its parts may be of
  different moments; no document promises otherwise. Searches and filters of the lists.
- **Row-level security and role guards**: static tables, with no behaviour over time.
- **Key-expiry job**: the shape of the risk job on rows that nothing else rewrites.
- **HTTP plumbing, rate limits, CSRF, logging, configuration, startup order**: no state of the business; ends of
  processes are faults in the modules.
- **The takeover of an expired idempotency row by a slow request**: `OutlivesRequests` excludes it, as the row lives
  for a day.
- **Receipt of mails**: the provider either takes a mail or not.

## Plan

Done: `LedgerData`, `Ledger`, `LedgerTx`, `Idempotency`, `PlanGuard`, `Sessions`, `Alerts`, `CatalogData`, `Catalog`,
`Organizations`, and proofs about all of them.

What could follow: the job on an instance with several processes; the profitability
computation of finance against a reference definition.
