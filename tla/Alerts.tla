------------------------------- MODULE Alerts -------------------------------
(***************************************************************************)
(* The daily contract-risk job next to the ledger's calls.  A run of the   *)
(* job (of the schedule of any process, or of the HTTP trigger) reads the  *)
(* contracts that are not fulfilled once, then mails one by one those that *)
(* lack an allocation and whose shipment window closes soon, while calls   *)
(* commit.  Nothing records what was mailed, so every run mails again.     *)
(*                                                                         *)
(* A mail that fails is logged and the run goes on.  A process that ends   *)
(* takes its run with it.                                                  *)
(***************************************************************************)
EXTENDS Ledger

CONSTANTS
    Job,            \* runs of the job at a time
    MaxCrashes      \* bound: how often a process ends in the middle of a run

ASSUME MaxCrashesAssumption == MaxCrashes \in Nat

VARIABLES
    near,       \* contracts whose window closes within contractRiskAlertWindowDays, or has
    jobs,       \* the runs under way: what each has read and not looked at yet
    crashes

alertVars == <<lots, contracts, allocs, shipments, documents, adjustments, outbox, near, jobs, crashes>>

Idle == [at |-> "idle", rows |-> {}]
RiskRow == [contract : Contract, quantity : Nat, allocated : Nat]

AlertsTypeOK ==
    /\ TypeOK
    /\ near \subseteq Contract
    /\ jobs \in [Job -> [at : {"idle", "sending"}, rows : SUBSET RiskRow]]
    /\ crashes \in 0..MaxCrashes

AlertsInit ==
    /\ Init
    /\ near = {}
    /\ jobs = [j \in Job |-> Idle]
    /\ crashes = 0

------------------------------------------------------------------------------

\* The contracts the job reads; the mutated form forgets those that have
\* partly left.
IsOpen(contract) == contract.status = "open"
IsUnfulfilled(contract) == contract.status \in {"open", "partially_fulfilled"}

\* What a contract or a row read from it lacks, and a mutated form that takes
\* what it has.
Has(row) == row.allocated
Unallocated(row) == AtLeastZero(row.quantity - row.allocated)

Lacks(row) == Exceeds(Scale * Unallocated(row), 0)

RowsToCheck ==
    {[contract |-> c, quantity |-> contracts[c].quantity, allocated |-> contracts[c].allocated] :
        c \in {d \in DOMAIN contracts : IsUnfulfilled(contracts[d])}}

ReadContracts(j) ==
    /\ jobs[j].at = "idle"
    /\ jobs' = [jobs EXCEPT ![j] = [at |-> "sending", rows |-> RowsToCheck]]
    /\ UNCHANGED <<vars, near, crashes>>

\* The mail about a contract is sent, or fails, after the day is looked at.
NotifyContractRisk(j, row) ==
    /\ row \in jobs[j].rows
    /\ Lacks(row) /\ row.contract \in near
    /\ jobs' = [jobs EXCEPT ![j].rows = @ \ {row}]
    /\ UNCHANGED <<vars, near, crashes>>

Skip(j, row) ==
    /\ row \in jobs[j].rows
    /\ ~Lacks(row) \/ row.contract \notin near
    /\ jobs' = [jobs EXCEPT ![j].rows = @ \ {row}]
    /\ UNCHANGED <<vars, near, crashes>>

EndRun(j) ==
    /\ jobs[j].at = "sending" /\ jobs[j].rows = {}
    /\ jobs' = [jobs EXCEPT ![j] = Idle]
    /\ UNCHANGED <<vars, near, crashes>>

Crash(j) ==
    /\ crashes < MaxCrashes
    /\ jobs[j].at = "sending"
    /\ jobs' = [jobs EXCEPT ![j] = Idle]
    /\ crashes' = crashes + 1
    /\ UNCHANGED <<vars, near>>

\* A day passes, and the window of a contract comes near.
ComesNear(c) ==
    /\ c \notin near
    /\ near' = near \cup {c}
    /\ UNCHANGED <<vars, jobs, crashes>>

RunJob(j) ==
    \/ ReadContracts(j) \/ EndRun(j)
    \/ \E row \in jobs[j].rows : NotifyContractRisk(j, row) \/ Skip(j, row)

AlertsNext ==
    \/ Next /\ UNCHANGED <<near, jobs, crashes>>
    \/ \E j \in Job : RunJob(j) \/ Crash(j)
    \/ \E c \in Contract : ComesNear(c)

\* The schedule starts a run every day, and a run goes on as long as its
\* process does.
AlertsSpec == AlertsInit /\ [][AlertsNext]_alertVars /\ \A j \in Job : WF_alertVars(RunJob(j))

------------------------------------------------------------------------------
\* Properties

\* A risk mail never makes a contract look better off than it is: what it says
\* is missing is at least what is still missing when it is sent, whatever was
\* allocated since the run read the contract (sendContractRiskAlerts reads
\* once and mails for as long as it takes).
RiskNotUnderstated ==
    \A j \in Job : \A row \in jobs[j].rows :
        /\ row.contract \in DOMAIN contracts
        /\ Unallocated(row) >= contracts[row.contract].quantity - contracts[row.contract].allocated

\* A contract that stays short of its quantity while its window closes is
\* mailed about again and again, also when it is partly fulfilled, when other
\* mails fail, and when processes end, as long as they do not do so for ever.
AtRisk(c) ==
    /\ c \in near
    /\ c \in DOMAIN contracts
    /\ contracts[c].allocated < contracts[c].quantity
Mails(c) == \E j \in Job : \E row \in jobs[j].rows : row.contract = c /\ NotifyContractRisk(j, row)
RiskAlerted == \A c \in Contract : <>[]AtRisk(c) => []<><<Mails(c)>>_alertVars
=============================================================================
