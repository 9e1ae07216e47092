---------------------------- MODULE AlertsProofs ----------------------------
(***************************************************************************)
(* Proofs about the contract-risk job next to the ledger, for any number   *)
(* of runs at a time and whatever decimals the requests carry.             *)
(***************************************************************************)
EXTENDS Alerts, LedgerProofs

\* The steps of the job are steps of the ledger that change nothing.
LEMMA JobIsApart == [AlertsNext]_alertVars => [Next]_vars
  <1> SUFFICES ASSUME [AlertsNext]_alertVars PROVE [Next]_vars
    OBVIOUS
  <1>1. ASSUME NEW j \in Job, RunJob(j) \/ Crash(j)
        PROVE  UNCHANGED vars
    BY <1>1 DEF RunJob, ReadContracts, EndRun, NotifyContractRisk, Skip, Crash
  <1>2. ASSUME NEW c \in Contract, ComesNear(c)
        PROVE  UNCHANGED vars
    BY <1>2 DEF ComesNear
  <1>3. CASE UNCHANGED alertVars
    BY <1>3 DEF alertVars, vars
  <1>4. QED
    BY <1>1, <1>2, <1>3 DEF AlertsNext

\* Whatever the ledger promises, it promises with the job running next to it,
\* as the job writes nothing of the ledger.
THEOREM LedgerUndisturbed == AlertsSpec => Spec
  BY JobIsApart, PTL DEF AlertsSpec, AlertsInit, Spec

------------------------------------------------------------------------------

\* What a run has read of a contract: the quantity is still its quantity, and
\* no more was allocated than is now.
RowsRemembered ==
    \A j \in Job : \A row \in jobs[j].rows :
        /\ row.contract \in DOMAIN contracts
        /\ row.quantity = contracts[row.contract].quantity
        /\ row.allocated <= contracts[row.contract].allocated

LEMMA RowsRead ==
    ASSUME TypeOK, NEW row \in RowsToCheck
    PROVE  /\ row \in RiskRow
           /\ row.contract \in DOMAIN contracts
           /\ row.quantity = contracts[row.contract].quantity
           /\ row.allocated = contracts[row.contract].allocated
  <1>1. PICK c \in DOMAIN contracts :
            row = [contract |-> c, quantity |-> contracts[c].quantity, allocated |-> contracts[c].allocated]
    BY DEF RowsToCheck
  <1>2. c \in Contract /\ contracts[c] \in ContractRow
    BY DEF TypeOK, IsTable
  <1>3. QED
    BY <1>1, <1>2 DEF RiskRow, ContractRow

\* A step of the job leaves each run what it had read and has not looked at, or
\* what it reads now.
LEMMA JobRows ==
    ASSUME AlertsTypeOK, [AlertsNext]_alertVars
    PROVE  /\ jobs' \in [Job -> [at : {"idle", "sending"}, rows : SUBSET RiskRow]]
           /\ \A j \in Job : jobs'[j].rows \subseteq jobs[j].rows \cup RowsToCheck
  <1> DEFINE JobState == [at : {"idle", "sending"}, rows : SUBSET RiskRow]
             Kept == /\ jobs' \in [Job -> JobState]
                     /\ \A j \in Job : jobs'[j].rows \subseteq jobs[j].rows \cup RowsToCheck
  <1>1. jobs \in [Job -> JobState]
    BY DEF AlertsTypeOK
  <1>2. ASSUME NEW j \in Job, NEW state \in JobState, jobs' = [jobs EXCEPT ![j] = state],
               state.rows \subseteq jobs[j].rows \cup RowsToCheck
        PROVE  Kept
    BY <1>1, <1>2
  <1>3. Idle \in JobState /\ Idle.rows = {}
    BY DEF Idle
  <1>4. ASSUME NEW j \in Job, ReadContracts(j)
        PROVE  Kept
    <2>1. RowsToCheck \subseteq RiskRow
      BY RowsRead DEF AlertsTypeOK
    <2> DEFINE state == [at |-> "sending", rows |-> RowsToCheck]
    <2>2. state \in JobState /\ state.rows = RowsToCheck
      BY <2>1
    <2>3. jobs' = [jobs EXCEPT ![j] = state]
      BY <1>4 DEF ReadContracts
    <2> HIDE DEF state, JobState, Kept
    <2>4. QED
      BY <1>2, <2>2, <2>3
  <1>5. ASSUME NEW j \in Job, EndRun(j) \/ Crash(j)
        PROVE  Kept
    <2>1. jobs' = [jobs EXCEPT ![j] = Idle]
      BY <1>5 DEF EndRun, Crash
    <2> HIDE DEF JobState, Kept
    <2>2. QED
      BY <1>2, <1>3, <2>1
  <1>6. ASSUME NEW j \in Job, NEW row \in jobs[j].rows, NotifyContractRisk(j, row) \/ Skip(j, row)
        PROVE  Kept
    <2>1. jobs' = [jobs EXCEPT ![j].rows = @ \ {row}]
      BY <1>6 DEF NotifyContractRisk, Skip
    <2>2. QED
      BY <1>1, <2>1
  <1>7. CASE jobs' = jobs
    BY <1>1, <1>7
  <1>8. QED
    BY <1>4, <1>5, <1>6, <1>7 DEF AlertsNext, RunJob, ComesNear, alertVars

LEMMA AlertsTypeInit == AlertsInit => AlertsTypeOK /\ RowsRemembered
  <1> SUFFICES ASSUME AlertsInit PROVE AlertsTypeOK /\ RowsRemembered
    OBVIOUS
  <1>1. TypeOK
    BY TypeInit DEF AlertsInit
  <1>2. QED
    BY <1>1, MaxCrashesAssumption DEF AlertsInit, AlertsTypeOK, RowsRemembered, Idle

LEMMA AlertsTypeNext ==
    ASSUME AlertsTypeOK, [AlertsNext]_alertVars
    PROVE  AlertsTypeOK'
  <1>1. TypeOK'
    BY JobIsApart, TypeNext DEF AlertsTypeOK
  <1>2. near' \subseteq Contract
    BY DEF AlertsTypeOK, AlertsNext, RunJob, ReadContracts, EndRun, NotifyContractRisk, Skip, Crash,
           ComesNear, alertVars
  <1>3. crashes' \in 0..MaxCrashes
    BY MaxCrashesAssumption
       DEF AlertsTypeOK, AlertsNext, RunJob, ReadContracts, EndRun, NotifyContractRisk, Skip, Crash,
           ComesNear, alertVars
  <1>4. QED
    BY <1>1, <1>2, <1>3, JobRows DEF AlertsTypeOK

\* A contract keeps its quantity and what was allocated to it, so what a run
\* has read stays what it was or becomes too small.
LEMMA RowsNext ==
    ASSUME AlertsTypeOK, RowsRemembered, [AlertsNext]_alertVars
    PROVE  RowsRemembered'
  <1>1. TypeOK /\ [Next]_vars
    BY JobIsApart DEF AlertsTypeOK
  <1>2. ContractsKept
    BY <1>1, RecordsNext
  <1>3. TypeOK'
    BY <1>1, TypeNext
  <1> SUFFICES ASSUME NEW j \in Job, NEW row \in jobs'[j].rows
               PROVE  /\ row.contract \in DOMAIN contracts'
                      /\ row.quantity = contracts'[row.contract].quantity
                      /\ row.allocated <= contracts'[row.contract].allocated
    BY DEF RowsRemembered
  <1>4. row \in RiskRow
    BY JobRows
  <1>5. /\ row.contract \in DOMAIN contracts
        /\ row.quantity = contracts[row.contract].quantity
        /\ row.allocated <= contracts[row.contract].allocated
    <2>1. CASE row \in jobs[j].rows
      BY <2>1 DEF RowsRemembered
    <2>2. CASE row \in RowsToCheck
      BY <1>1, <1>4, <2>2, RowsRead DEF RiskRow
    <2>3. QED
      BY <2>1, <2>2, JobRows
  <1>6. contracts[row.contract].allocated \in Nat /\ row.allocated \in Nat
    BY <1>1, <1>4, <1>5 DEF TypeOK, IsTable, ContractRow, RiskRow
  <1>7. contracts'[row.contract].allocated \in Nat
    BY <1>2, <1>3, <1>5 DEF ContractsKept, TypeOK, IsTable, ContractRow
  <1>8. QED
    BY <1>2, <1>5, <1>6, <1>7 DEF ContractsKept

AlertsInv == AlertsTypeOK /\ RowsRemembered

LEMMA AlertsInvariance == AlertsSpec => []AlertsInv
  <1>1. AlertsTypeOK /\ RowsRemembered /\ [AlertsNext]_alertVars
            => AlertsTypeOK' /\ RowsRemembered'
    BY AlertsTypeNext, RowsNext
  <1>2. QED
    BY <1>1, AlertsTypeInit, PTL DEF AlertsSpec, AlertsInv

\* For any number of runs at a time, and however the job and the calls
\* interleave, the rows a run holds are well typed.
THEOREM AlertsTypeCorrect == AlertsSpec => []AlertsTypeOK
  <1>1. AlertsInv => AlertsTypeOK
    BY DEF AlertsInv
  <1>2. QED
    BY <1>1, AlertsInvariance, PTL

\* For any number of runs at a time, however long a run takes and whatever is
\* allocated meanwhile, a risk mail says at least what is missing.
THEOREM RisksAreNotUnderstated == AlertsSpec => []RiskNotUnderstated
  <1>1. AlertsInv => RiskNotUnderstated
    <2> SUFFICES ASSUME AlertsInv, NEW j \in Job, NEW row \in jobs[j].rows
                 PROVE  /\ row.contract \in DOMAIN contracts
                        /\ Unallocated(row)
                              >= contracts[row.contract].quantity - contracts[row.contract].allocated
      BY DEF RiskNotUnderstated
    <2>1. /\ row.contract \in DOMAIN contracts
          /\ row.quantity = contracts[row.contract].quantity
          /\ row.allocated <= contracts[row.contract].allocated
      BY DEF AlertsInv, RowsRemembered
    <2>2. row \in RiskRow /\ contracts[row.contract] \in ContractRow
      BY <2>1 DEF AlertsInv, AlertsTypeOK, TypeOK, IsTable
    <2>3. /\ row.quantity \in Nat /\ row.allocated \in Nat
          /\ contracts[row.contract].quantity \in Nat /\ contracts[row.contract].allocated \in Nat
      BY <2>2 DEF RiskRow, ContractRow
    <2>4. QED
      BY <2>1, <2>3 DEF Unallocated, AtLeastZero
  <1>2. QED
    BY <1>1, AlertsInvariance, PTL
=============================================================================
