------------------------- MODULE ScanSystem_proofs --------------------------
(***************************************************************************)
(* Proofs about ScanSystem, for any number of scans, processes, requests,  *)
(* attempts and builds.                                                    *)
(***************************************************************************)
EXTENDS ScanHistory, FiniteSetTheorems, WellFoundedInduction, TLAPS

-----------------------------------------------------------------------------
(* Helpers of the model *)

\* A non-empty set of scans has an oldest member, and Oldest returns it: the
\* claim query and find_completed_scan answer with one of the rows they match.
LEMMA OldestIsMember ==
    ASSUME NEW S \in SUBSET Scans, S # {}
    PROVE  Oldest(S) \in S /\ \A t \in S : Oldest(S) <= t
<1>1. Scans \subseteq Nat
  BY StoreAssumption DEF Scans
<1> DEFINE Prefixes == {1..x : x \in S}
<1>2. Prefixes # {} /\ Prefixes \subseteq FiniteSubsetsOf(Nat)
  <2>1. \A y \in S : 1..y \in SUBSET Nat
    BY <1>1
  <2>2. \A y \in S : IsFiniteSet(1..y)
    <3>1. TAKE y \in S
    <3>2. QED
      BY <1>1, FS_Interval
  <2>3. QED
    BY <2>1, <2>2 DEF FiniteSubsetsOf
<1>3. PICK P \in Prefixes :
        \A Q \in Prefixes : ~ (<<Q, P>> \in StrictSubsetOrdering(Nat))
  <2> HIDE DEF Prefixes
  <2>1. QED
    BY <1>2, FS_StrictSubsetOrderingWellFounded, WFMin
<1>4. PICK x \in S : P = 1..x
  BY <1>3
<1>5. ASSUME NEW y \in S
      PROVE  x <= y
  <2>1. ~ (1..y \subseteq 1..x /\ 1..y # 1..x)
    <3>1. 1..y \in Prefixes /\ 1..y \in SUBSET Nat /\ 1..x \in SUBSET Nat
      BY <1>1
    <3>2. <<1..y, 1..x>> \notin StrictSubsetOrdering(Nat)
      BY <1>3, <1>4, <3>1
    <3>3. QED
      BY <3>1, <3>2 DEF StrictSubsetOrdering
  <2>2. SUFFICES ASSUME y < x PROVE FALSE
    BY <1>1
  <2>3. x \in 1..x /\ x \notin 1..y /\ 1..y \subseteq 1..x
    BY <1>1, <2>2 DEF Scans
  <2>4. QED
    BY <2>1, <2>3
<1>6. QED
  BY <1>5 DEF Oldest

\* Whatever form a submitted SHA has, it resolves to a commit.
LEMMA ResolveType ==
    ASSUME NEW x \in Shas
    PROVE  Resolve(x) \in Commits
BY StoreAssumption DEF Shas, Resolve, Abbrev


-----------------------------------------------------------------------------
(* The inductive invariant *)

LEMMA InitInv == Init => IInv
<1> SUFFICES ASSUME Init PROVE IInv
  OBVIOUS
<1> USE DEF Init, StoreInit, WorkerInit, ApiInit
<1>1. TypeOK
  BY StoreAssumption
  DEF TypeOK, StoreTypeOK, WorkerTypeOK, ApiTypeOK, Statuses
<1>2. StatusesAgree /\ WorkersInv /\ RequestsInv
  BY StoreAssumption DEF StatusesAgree, WorkersInv, RequestsInv, Holding
<1>3. RowsInv /\ AttemptBudget
  BY StoreAssumption
  DEF RowsInv, FindingsAreOfTheScan, AttemptBudget
<1>4. QED
  BY <1>1, <1>2, <1>3 DEF IInv

LEMMA ClaimSelectInv ==
    ASSUME IInv, NEW p \in Procs, ClaimSelect(p), UNCHANGED apiVars
    PROVE  IInv'
<1> DEFINE s == Oldest(Claimable(p))
<1>1. s \in Claimable(p)
  BY OldestIsMember DEF ClaimSelect, Claimable
<1>2. s \in Scans /\ jobStatus[s] = "QUEUED" /\ s # None
  BY <1>1, StoreAssumption DEF Claimable
<1>3. \A q \in Procs \ {p} : wjob[q] # s
  BY <1>1, <1>2, ClaimAssumption
  DEF IInv, TypeOK, WorkerTypeOK, WorkersInv, Holding, Claimable
<1> HIDE DEF s
<1> USE DEF ClaimSelect, storeVars, scanVars, lockVars, procVars, apiVars
<1>4. /\ wpc' = [wpc EXCEPT ![p] = "selected"]
      /\ wjob' = [wjob EXCEPT ![p] = s]
  BY DEF s
<1>5. TypeOK'
  BY <1>2, <1>4 DEF IInv, TypeOK, StoreTypeOK, WorkerTypeOK, ApiTypeOK
<1>6. WorkersInv'
  BY <1>2, <1>3, <1>4 DEF IInv, TypeOK, WorkerTypeOK, WorkersInv, Holding
<1>7. (StatusesAgree /\ RowsInv /\ AttemptBudget /\ RequestsInv)'
  BY DEF IInv, StatusesAgree, RowsInv, FindingsAreOfTheScan, AttemptBudget,
         RequestsInv
<1>8. QED
  BY <1>5, <1>6, <1>7 DEF IInv

\* The store part of a claim that reaches the database.
LEMMA MarkRunningStore ==
    ASSUME IInv, NEW p \in Procs, wpc[p] = "selected", MarkRunning(p),
           dbFaults' \in 0..MaxDbFaults, UNCHANGED apiVars
    PROVE  (StoreTypeOK /\ ApiTypeOK /\ StatusesAgree /\ RowsInv
            /\ AttemptBudget /\ RequestsInv)'
<1> DEFINE s == wjob[p]
<1>1. s \in Scans /\ jobStatus[s] = "QUEUED" /\ attempts[s] < MaxAttempts
  BY DEF IInv, TypeOK, WorkerTypeOK, WorkersInv, AttemptBudget
<1>2. scanStatus[s] = "QUEUED"
  BY <1>1 DEF IInv, StatusesAgree
<1>3. /\ jobStatus' = [jobStatus EXCEPT ![s] = "RUNNING"]
      /\ scanStatus' = [scanStatus EXCEPT ![s] = "RUNNING"]
      /\ attempts' = [attempts EXCEPT ![s] = @ + 1]
      /\ lockedBy' = [lockedBy EXCEPT ![s] = p]
      /\ UNCHANGED <<sha, stamp, rows, procVars>>
  BY <1>2 DEF MarkRunning
<1> HIDE DEF s
<1> USE DEF procVars, apiVars
<1>4. (StoreTypeOK /\ ApiTypeOK)'
  BY <1>1, <1>3, StoreAssumption
  DEF IInv, TypeOK, StoreTypeOK, ApiTypeOK, Statuses
<1>5. (StatusesAgree /\ AttemptBudget)'
  BY <1>1, <1>3, StoreAssumption
  DEF IInv, TypeOK, StoreTypeOK, StatusesAgree, AttemptBudget
<1>6. RowsInv'
  BY <1>1, <1>2, <1>3 DEF IInv, TypeOK, StoreTypeOK, RowsInv, FindingsAreOfTheScan
<1>7. RequestsInv'
  BY <1>1, <1>2, <1>3 DEF IInv, TypeOK, StoreTypeOK, ApiTypeOK, RequestsInv
<1>8. QED
  BY <1>4, <1>5, <1>6, <1>7

LEMMA ClaimCommitInv ==
    ASSUME IInv, NEW p \in Procs, ClaimCommit(p), UNCHANGED apiVars
    PROVE  IInv'
<1>1. dbFaults' \in 0..MaxDbFaults
  BY DEF IInv, TypeOK, StoreTypeOK, ClaimCommit
<1>2. (StoreTypeOK /\ ApiTypeOK /\ StatusesAgree /\ RowsInv
        /\ AttemptBudget /\ RequestsInv)'
  BY <1>1, MarkRunningStore DEF ClaimCommit
<1>3. WorkerTypeOK'
  BY DEF IInv, TypeOK, WorkerTypeOK, ClaimCommit
<1>4. WorkersInv'
  BY DEF IInv, TypeOK, StoreTypeOK, WorkerTypeOK, WorkersInv, Holding,
         ClaimCommit, MarkRunning
<1>5. QED
  BY <1>2, <1>3, <1>4 DEF IInv, TypeOK

LEMMA ClaimFaultInv ==
    ASSUME IInv, NEW p \in Procs, ClaimFault(p), UNCHANGED apiVars
    PROVE  IInv'
<1>1. dbFaults' \in 0..MaxDbFaults
  BY StoreAssumption DEF IInv, TypeOK, StoreTypeOK, ClaimFault, DbFault
<1>2. (StoreTypeOK /\ ApiTypeOK /\ StatusesAgree /\ RowsInv
        /\ AttemptBudget /\ RequestsInv)'
  <2>1. CASE MarkRunning(p)
    BY <1>1, <2>1, MarkRunningStore DEF ClaimFault
  <2>2. CASE UNCHANGED <<scanVars, lockVars, procVars>>
    BY <1>1, <2>2
    DEF scanVars, lockVars, procVars, apiVars, IInv, TypeOK, StoreTypeOK,
        ApiTypeOK, StatusesAgree, RowsInv, FindingsAreOfTheScan,
        AttemptBudget, RequestsInv
  <2>3. QED
    BY <2>1, <2>2 DEF ClaimFault
<1>3. WorkerTypeOK'
  BY DEF IInv, TypeOK, WorkerTypeOK, ClaimFault, Release
<1>4. WorkersInv'
  <2>1. \A q \in Procs \ {p} : wjob[q] # wjob[p]
    BY DEF IInv, TypeOK, WorkerTypeOK, WorkersInv, ClaimFault
  <2>2. \A s \in Scans : s # wjob[p] =>
            jobStatus'[s] = jobStatus[s] /\ lockedBy'[s] = lockedBy[s]
    BY DEF IInv, TypeOK, StoreTypeOK, ClaimFault, MarkRunning, lockVars
  <2>3. QED
    BY <2>1, <2>2, StoreAssumption
    DEF IInv, TypeOK, WorkerTypeOK, WorkersInv, Holding, ClaimFault, Release
<1>5. QED
  BY <1>2, <1>3, <1>4 DEF IInv, TypeOK

\* Steps of a worker that leave the store alone.
LEMMA StoreUnchanged ==
    ASSUME IInv, UNCHANGED <<scanVars, lockVars, procVars, apiVars>>,
           dbFaults' \in 0..MaxDbFaults
    PROVE  (StoreTypeOK /\ ApiTypeOK /\ StatusesAgree /\ RowsInv
            /\ AttemptBudget /\ RequestsInv)'
BY DEF scanVars, lockVars, procVars, apiVars, IInv, TypeOK, StoreTypeOK,
       ApiTypeOK, StatusesAgree, RowsInv, FindingsAreOfTheScan, AttemptBudget,
       RequestsInv

LEMMA AnalyseInv ==
    ASSUME IInv, NEW p \in Procs, Analyse(p), UNCHANGED apiVars
    PROVE  IInv'
<1> DEFINE found == <<Resolve(sha[wjob[p]]), engine[p]>>
<1>1. found \in RowSets /\ found # None
  <2>1. wjob[p] \in Scans /\ jobStatus[wjob[p]] # "NONE"
    BY DEF IInv, TypeOK, WorkerTypeOK, WorkersInv, Holding, Analyse
  <2>2. sha[wjob[p]] \in Shas /\ engine[p] \in Versions
    BY <2>1 DEF IInv, TypeOK, StoreTypeOK, RowsInv
  <2>3. QED
    BY <2>2, ResolveType, StoreAssumption DEF RowSets
<1> HIDE DEF found
<1>2. pending' = [pending EXCEPT ![p] = found]
  BY DEF Analyse, found
<1>3. (StoreTypeOK /\ ApiTypeOK /\ StatusesAgree /\ RowsInv
        /\ AttemptBudget /\ RequestsInv)'
  BY StoreUnchanged DEF Analyse, storeVars, IInv, TypeOK, StoreTypeOK
<1>4. WorkerTypeOK'
  BY <1>1, <1>2 DEF IInv, TypeOK, WorkerTypeOK, Analyse
<1>5. WorkersInv'
  BY <1>1, <1>2
  DEF IInv, TypeOK, WorkerTypeOK, WorkersInv, Holding, Analyse,
      storeVars, lockVars
<1>6. QED
  BY <1>3, <1>4, <1>5 DEF IInv, TypeOK

LEMMA AnalysisRaisesInv ==
    ASSUME IInv, NEW p \in Procs, AnalysisRaises(p), UNCHANGED apiVars
    PROVE  IInv'
<1>1. (StoreTypeOK /\ ApiTypeOK /\ StatusesAgree /\ RowsInv
        /\ AttemptBudget /\ RequestsInv)'
  BY StoreUnchanged DEF AnalysisRaises, storeVars, IInv, TypeOK, StoreTypeOK
<1>2. WorkerTypeOK' /\ WorkersInv'
  BY DEF IInv, TypeOK, WorkerTypeOK, WorkersInv, Holding, AnalysisRaises,
         Rollback, storeVars, lockVars
<1>3. QED
  BY <1>1, <1>2 DEF IInv, TypeOK

\* The store part of a completion that reaches the database.
LEMMA MarkCompletedStore ==
    ASSUME IInv, NEW p \in Procs, wpc[p] = "flushed", MarkCompleted(p),
           dbFaults' \in 0..MaxDbFaults, UNCHANGED apiVars
    PROVE  (StoreTypeOK /\ ApiTypeOK /\ StatusesAgree /\ RowsInv
            /\ AttemptBudget /\ RequestsInv)'
<1> DEFINE s == wjob[p]
<1>1. s \in Scans /\ jobStatus[s] = "RUNNING" /\ scanStatus[s] = "RUNNING"
  BY DEF IInv, TypeOK, WorkerTypeOK, WorkersInv, Holding, StatusesAgree
<1>2. pending[p] \in RowSets /\ pending[p] # None /\ pending[p][1] \in Commits
  BY DEF IInv, TypeOK, WorkerTypeOK, WorkersInv, RowSets
<1>3. /\ jobStatus' = [jobStatus EXCEPT ![s] = "COMPLETED"]
      /\ scanStatus' = [scanStatus EXCEPT ![s] = "COMPLETED"]
      /\ rows' = [rows EXCEPT ![s] = pending[p]]
      /\ sha' = [sha EXCEPT ![s] = pending[p][1]]
      /\ UNCHANGED <<attempts, lockedBy, stamp, procVars>>
  BY <1>2 DEF MarkCompleted, CommitFindings
<1>4. pending[p][1] \in Shas /\ pending[p][1] # None
  BY <1>2, StoreAssumption DEF Shas
<1> HIDE DEF s
<1> USE DEF procVars, apiVars
<1>5. (StoreTypeOK /\ ApiTypeOK)'
  BY <1>1, <1>2, <1>3, <1>4
  DEF IInv, TypeOK, StoreTypeOK, ApiTypeOK, Statuses
<1>6. (StatusesAgree /\ AttemptBudget)'
  BY <1>1, <1>3 DEF IInv, TypeOK, StoreTypeOK, StatusesAgree, AttemptBudget
<1>7. RowsInv'
  BY <1>1, <1>2, <1>3, <1>4
  DEF IInv, TypeOK, StoreTypeOK, RowsInv, FindingsAreOfTheScan
<1>8. RequestsInv'
  BY <1>1, <1>3 DEF IInv, TypeOK, StoreTypeOK, ApiTypeOK, RequestsInv
<1>9. QED
  BY <1>5, <1>6, <1>7, <1>8

\* The rows of jobs in other hands are not touched, and no two workers have
\* the same job: a worker that lets its job go cannot disturb the others.
LEMMA OthersUndisturbed ==
    ASSUME IInv, NEW p \in Procs, wjob[p] # None,
           \A s \in Scans : s # wjob[p] =>
               jobStatus'[s] = jobStatus[s] /\ lockedBy'[s] = lockedBy[s],
           Release(p)
    PROVE  WorkerTypeOK' /\ WorkersInv'
<1>1. \A q \in Procs \ {p} : wjob[q] # wjob[p]
  BY DEF IInv, TypeOK, WorkerTypeOK, WorkersInv
<1>2. QED
  BY <1>1 DEF IInv, TypeOK, WorkerTypeOK, WorkersInv, Holding, Release

LEMMA CompleteInv ==
    ASSUME IInv, NEW p \in Procs, Complete(p), UNCHANGED apiVars
    PROVE  IInv'
<1>1. (StoreTypeOK /\ ApiTypeOK /\ StatusesAgree /\ RowsInv
        /\ AttemptBudget /\ RequestsInv)'
  BY MarkCompletedStore DEF Complete, IInv, TypeOK, StoreTypeOK
<1>2. wjob[p] # None
  BY DEF IInv, WorkersInv, Complete
<1>3. \A s \in Scans : s # wjob[p] =>
          jobStatus'[s] = jobStatus[s] /\ lockedBy'[s] = lockedBy[s]
  BY DEF IInv, TypeOK, StoreTypeOK, Complete, MarkCompleted
<1>4. WorkerTypeOK' /\ WorkersInv'
  BY <1>2, <1>3, OthersUndisturbed DEF Complete
<1>5. QED
  BY <1>1, <1>4 DEF IInv, TypeOK

LEMMA CompleteFaultInv ==
    ASSUME IInv, NEW p \in Procs, CompleteFault(p), UNCHANGED apiVars
    PROVE  IInv'
<1>1. dbFaults' \in 0..MaxDbFaults
  BY StoreAssumption DEF IInv, TypeOK, StoreTypeOK, CompleteFault, DbFault
<1>2. (StoreTypeOK /\ ApiTypeOK /\ StatusesAgree /\ RowsInv
        /\ AttemptBudget /\ RequestsInv)'
  BY <1>1, MarkCompletedStore, StoreUnchanged DEF CompleteFault
<1>3. /\ \A q \in Procs \ {p} : wjob[q] # wjob[p]
      /\ lockedBy[wjob[p]] = p /\ jobStatus[wjob[p]] = "RUNNING"
      /\ wjob[p] \in Scans
  BY DEF IInv, TypeOK, WorkerTypeOK, WorkersInv, Holding, CompleteFault
<1>4. /\ lockedBy' = lockedBy
      /\ \/ jobStatus' = jobStatus
         \/ jobStatus' = [jobStatus EXCEPT ![wjob[p]] = "COMPLETED"]
  BY DEF CompleteFault, MarkCompleted, lockVars
<1>5. WorkerTypeOK' /\ WorkersInv'
  BY <1>3, <1>4
  DEF IInv, TypeOK, StoreTypeOK, WorkerTypeOK, WorkersInv, Holding,
      CompleteFault, Rollback
<1>6. QED
  BY <1>2, <1>5 DEF IInv, TypeOK

\* _fail finds either the RUNNING job it expects or, after a lost commit
\* answer, a COMPLETED one that the legality check keeps it from touching.
LEMMA FailingJob ==
    ASSUME IInv, NEW p \in Procs, wpc[p] = "failing"
    PROVE  /\ wjob[p] \in Scans /\ wjob[p] # None
           /\ pending[p] = None
           /\ jobStatus[wjob[p]] \in {"RUNNING", "COMPLETED"}
           /\ scanStatus[wjob[p]] = jobStatus[wjob[p]]
BY DEF IInv, TypeOK, WorkerTypeOK, WorkersInv, Holding, StatusesAgree

LEMMA FailRetryInv ==
    ASSUME IInv, NEW p \in Procs, FailRetry(p), UNCHANGED apiVars
    PROVE  IInv'
<1> DEFINE s == wjob[p]
<1>1. /\ s \in Scans /\ s # None
      /\ jobStatus[s] = "RUNNING" /\ scanStatus[s] = "RUNNING"
  BY FailingJob DEF FailRetry, CanMove, LegalTransitions
<1>2. /\ attempts[s] < MaxAttempts
      /\ jobStatus' = [jobStatus EXCEPT ![s] = "QUEUED"]
      /\ scanStatus' = [scanStatus EXCEPT ![s] = "QUEUED"]
      /\ lockedBy' = [lockedBy EXCEPT ![s] = None]
      /\ UNCHANGED <<rows, sha, attempts, stamp, procVars, dbFaults>>
  BY FailingJob DEF FailRetry, ShouldRetry, CommitFindings
<1>3. WorkerTypeOK' /\ WorkersInv'
  <2>1. \A t \in Scans : t # wjob[p] =>
            jobStatus'[t] = jobStatus[t] /\ lockedBy'[t] = lockedBy[t]
    BY <1>1, <1>2 DEF IInv, TypeOK, StoreTypeOK
  <2>2. QED
    BY <1>1, <2>1, OthersUndisturbed DEF FailRetry
<1> HIDE DEF s
<1> USE DEF procVars, apiVars
<1>4. (StoreTypeOK /\ ApiTypeOK)'
  BY <1>1, <1>2 DEF IInv, TypeOK, StoreTypeOK, ApiTypeOK, Statuses
<1>5. (StatusesAgree /\ AttemptBudget)'
  BY <1>1, <1>2 DEF IInv, TypeOK, StoreTypeOK, StatusesAgree, AttemptBudget
<1>6. RowsInv'
  BY <1>1, <1>2 DEF IInv, TypeOK, StoreTypeOK, RowsInv, FindingsAreOfTheScan
<1>7. RequestsInv'
  BY <1>1, <1>2 DEF IInv, TypeOK, StoreTypeOK, ApiTypeOK, RequestsInv
<1>8. QED
  BY <1>3, <1>4, <1>5, <1>6, <1>7 DEF IInv, TypeOK

LEMMA FailForGoodInv ==
    ASSUME IInv, NEW p \in Procs, FailForGood(p), UNCHANGED apiVars
    PROVE  IInv'
<1> DEFINE s == wjob[p]
<1>1. /\ s \in Scans /\ s # None
      /\ jobStatus[s] = "RUNNING" /\ scanStatus[s] = "RUNNING"
  BY FailingJob DEF FailForGood, CanMove, LegalTransitions
<1>2. /\ jobStatus' = [jobStatus EXCEPT ![s] = "FAILED"]
      /\ scanStatus' = [scanStatus EXCEPT ![s] = "FAILED"]
      /\ UNCHANGED <<rows, sha, attempts, stamp, lockedBy, procVars, dbFaults>>
  BY FailingJob DEF FailForGood, CommitFindings
<1>3. attempts[s] = MaxAttempts
  BY <1>1, StoreAssumption
  DEF FailForGood, ShouldRetry, IInv, TypeOK, StoreTypeOK
<1>4. WorkerTypeOK' /\ WorkersInv'
  <2>1. \A t \in Scans : t # wjob[p] =>
            jobStatus'[t] = jobStatus[t] /\ lockedBy'[t] = lockedBy[t]
    BY <1>1, <1>2 DEF IInv, TypeOK, StoreTypeOK
  <2>2. QED
    BY <1>1, <2>1, OthersUndisturbed DEF FailForGood
<1> HIDE DEF s
<1> USE DEF procVars, apiVars
<1>5. (StoreTypeOK /\ ApiTypeOK)'
  BY <1>1, <1>2 DEF IInv, TypeOK, StoreTypeOK, ApiTypeOK, Statuses
<1>6. (StatusesAgree /\ AttemptBudget)'
  BY <1>1, <1>2, <1>3
  DEF IInv, TypeOK, StoreTypeOK, StatusesAgree, AttemptBudget
<1>7. RowsInv'
  BY <1>1, <1>2 DEF IInv, TypeOK, StoreTypeOK, RowsInv, FindingsAreOfTheScan
<1>8. RequestsInv'
  BY <1>1, <1>2 DEF IInv, TypeOK, StoreTypeOK, ApiTypeOK, RequestsInv
<1>9. QED
  BY <1>4, <1>5, <1>6, <1>7, <1>8 DEF IInv, TypeOK

\* The steps that only let the job go.
LEMMA LettingGoInv ==
    ASSUME IInv, NEW p \in Procs, UNCHANGED apiVars,
           FailRefused(p) \/ FailFault(p) \/ Cancel(p)
    PROVE  IInv'
<1>1. /\ dbFaults' \in 0..MaxDbFaults
      /\ UNCHANGED <<scanVars, lockVars, procVars>>
  BY StoreAssumption
  DEF FailRefused, FailFault, Cancel, DbFault, storeVars, IInv, TypeOK, StoreTypeOK
<1>2. (StoreTypeOK /\ ApiTypeOK /\ StatusesAgree /\ RowsInv
        /\ AttemptBudget /\ RequestsInv)'
  BY <1>1, StoreUnchanged
<1>3. wjob[p] # None /\ Release(p)
  BY DEF FailRefused, FailFault, Cancel, IInv, WorkersInv
<1>4. WorkerTypeOK' /\ WorkersInv'
  BY <1>1, <1>3, OthersUndisturbed DEF lockVars
<1>5. QED
  BY <1>2, <1>4 DEF IInv, TypeOK

LEMMA WorkerStepInv ==
    ASSUME IInv, NEW p \in Procs, WorkerStep(p), UNCHANGED apiVars
    PROVE  IInv'
BY ClaimSelectInv, ClaimCommitInv, ClaimFaultInv, AnalyseInv,
   AnalysisRaisesInv, CompleteInv, CompleteFaultInv, FailRetryInv,
   FailForGoodInv, LettingGoInv
DEF WorkerStep

\* The steps of a request that leave the store alone.
LEMMA WorkersAside ==
    ASSUME IInv, UNCHANGED <<scanVars, lockVars, workerVars>>
    PROVE  /\ (StatusesAgree /\ WorkerTypeOK /\ WorkersInv)'
           /\ (RowsInv /\ AttemptBudget)'
BY DEF scanVars, lockVars, workerVars, IInv, TypeOK, WorkerTypeOK,
       StatusesAgree, WorkersInv, Holding, RowsInv, FindingsAreOfTheScan,
       AttemptBudget

\* A request that is dropped takes nothing with it.
LEMMA ForgetInv ==
    ASSUME IInv, NEW R \in SUBSET Requests, Forget(R),
           UNCHANGED <<scanVars, engine>>,
           \A r \in Requests \ R : rproc[r] # None => phase'[rproc[r]] = phase[rproc[r]]
    PROVE  ApiTypeOK' /\ RequestsInv'
BY DEF Forget, scanVars, IInv, TypeOK, ApiTypeOK, RequestsInv

LEMMA SubmitInv ==
    ASSUME IInv, NEW r \in Requests, NEW p \in Procs, NEW x \in Submittable,
           Submit(r, p, x), UNCHANGED workerVars
    PROVE  IInv'
<1> USE DEF Submit, storeVars, scanVars, lockVars, procVars
<1>1. StoreTypeOK'
  BY DEF IInv, TypeOK, StoreTypeOK
<1>2. p # None /\ x \in Shas /\ x # None
  BY StoreAssumption DEF Submittable
<1>3. ApiTypeOK' /\ RequestsInv'
  BY <1>2 DEF IInv, TypeOK, ApiTypeOK, RequestsInv
<1>4. QED
  BY <1>1, <1>3, WorkersAside DEF IInv, TypeOK

LEMMA LookUpInv ==
    ASSUME IInv, NEW r \in Requests, LookUp(r), UNCHANGED workerVars
    PROVE  IInv'
<1> USE DEF LookUp, storeVars, scanVars, lockVars, procVars
<1>1. StoreTypeOK'
  BY DEF IInv, TypeOK, StoreTypeOK
<1> DEFINE hits == CompletedWith(rsha[r], engine[rproc[r]])
<1>2. hits # {} => Oldest(hits) \in hits
  BY OldestIsMember DEF CompletedWith
<1>3. ApiTypeOK' /\ RequestsInv'
  <2>1. CASE hits = {}
    BY <2>1 DEF IInv, TypeOK, ApiTypeOK, RequestsInv
  <2>2. CASE hits # {}
    <3>1. PICK s \in hits : s = Oldest(hits)
      BY <1>2, <2>2
    <3>2. /\ s \in Scans /\ s # None /\ scanStatus[s] = "COMPLETED"
          /\ sha[s] = rsha[r] /\ stamp[s] = engine[rproc[r]]
      BY <3>1, StoreAssumption DEF CompletedWith
    <3>3. /\ rpc' = [rpc EXCEPT ![r] = "cached"]
          /\ rscan' = [rscan EXCEPT ![r] = s]
          /\ UNCHANGED <<rproc, rsha>>
      BY <2>2, <3>1
    <3> HIDE DEF hits
    <3>4. QED
      BY <3>2, <3>3 DEF IInv, TypeOK, ApiTypeOK, RequestsInv
  <2>3. QED
    BY <2>1, <2>2
<1>4. QED
  BY <1>1, <1>3, WorkersAside DEF IInv, TypeOK

LEMMA CheckCapacityInv ==
    ASSUME IInv, NEW r \in Requests, CheckCapacity(r), UNCHANGED workerVars
    PROVE  IInv'
<1> USE DEF CheckCapacity, storeVars, scanVars, lockVars, procVars
<1>1. StoreTypeOK'
  BY DEF IInv, TypeOK, StoreTypeOK
<1>2. ApiTypeOK' /\ RequestsInv'
  BY DEF IInv, TypeOK, ApiTypeOK, RequestsInv
<1>3. QED
  BY <1>1, <1>2, WorkersAside DEF IInv, TypeOK

\* Answered or not, an insert gives one unused scan its two rows.
LEMMA InsertInv ==
    ASSUME IInv, NEW r \in Requests, Insert(r) \/ InsertUnanswered(r),
           UNCHANGED workerVars
    PROVE  IInv'
<1>1. PICK s \in Unused :
        Enqueue(r, s) /\ (Insert(r) => rscan' = [rscan EXCEPT ![r] = s])
  BY DEF Insert, InsertUnanswered
<1>2. /\ s \in Scans /\ scanStatus[s] = "NONE" /\ jobStatus[s] = "NONE"
      /\ attempts[s] = 0 /\ rows[s] = None
  BY DEF Unused, IInv, StatusesAgree, RowsInv, FindingsAreOfTheScan
<1>3. /\ rproc[r] \in Procs /\ rsha[r] \in Shas /\ rsha[r] # None
      /\ engine[rproc[r]] \in Versions /\ engine[rproc[r]] # None
  BY StoreAssumption
  DEF Insert, InsertUnanswered, IInv, TypeOK, StoreTypeOK, ApiTypeOK, RequestsInv
<1> USE DEF Enqueue, procVars
<1>4. StoreTypeOK'
  <2>1. dbFaults' \in 0..MaxDbFaults
    BY StoreAssumption
    DEF Insert, InsertUnanswered, DbFault, IInv, TypeOK, StoreTypeOK
  <2>2. QED
    BY <1>1, <1>2, <1>3, <2>1 DEF IInv, TypeOK, StoreTypeOK, Statuses
<1>5. WorkerTypeOK' /\ WorkersInv'
  BY <1>1, <1>2
  DEF IInv, TypeOK, StoreTypeOK, WorkerTypeOK, WorkersInv, Holding, workerVars
<1>6. (StatusesAgree /\ AttemptBudget /\ RowsInv)'
  BY <1>1, <1>2, <1>3, StoreAssumption
  DEF IInv, TypeOK, StoreTypeOK, StatusesAgree, AttemptBudget, RowsInv,
      FindingsAreOfTheScan
<1>7. ApiTypeOK' /\ RequestsInv'
  <2>1. CASE Insert(r)
    BY <1>1, <1>2, <1>3, <2>1
    DEF Insert, IInv, TypeOK, StoreTypeOK, ApiTypeOK, RequestsInv
  <2>2. CASE InsertUnanswered(r)
    <3>1. ApiTypeOK'
      BY <2>2 DEF InsertUnanswered, Forget, IInv, TypeOK, ApiTypeOK
    <3>2. \A q \in Requests \ {r} :
            /\ rpc'[q] = rpc[q] /\ rproc'[q] = rproc[q]
            /\ rsha'[q] = rsha[q] /\ rscan'[q] = rscan[q]
      BY <2>2 DEF InsertUnanswered, Forget
    <3>3. rpc'[r] = "idle" /\ rproc'[r] = None
      BY <2>2 DEF InsertUnanswered, Forget
    <3>4. \A q \in Requests : rscan[q] # None => rscan[q] \in Scans
      BY DEF IInv, TypeOK, ApiTypeOK
    <3>5. RequestsInv'
      BY <1>1, <1>2, <3>2, <3>3, <3>4
      DEF IInv, TypeOK, StoreTypeOK, RequestsInv
    <3>6. QED
      BY <3>1, <3>5
  <2>3. QED
    BY <2>1, <2>2
<1>8. QED
  BY <1>4, <1>5, <1>6, <1>7 DEF IInv, TypeOK

\* The steps that end a request: its answer, or an error.
LEMMA EndRequestInv ==
    ASSUME IInv, NEW r \in Requests, Respond(r) \/ RequestFault(r),
           UNCHANGED workerVars
    PROVE  IInv'
<1>1. /\ Forget({r})
      /\ UNCHANGED <<scanVars, lockVars, procVars>>
      /\ dbFaults' \in 0..MaxDbFaults
  BY StoreAssumption
  DEF Respond, RequestFault, DbFault, storeVars, IInv, TypeOK, StoreTypeOK
<1>2. StoreTypeOK'
  BY <1>1 DEF IInv, TypeOK, StoreTypeOK, scanVars, lockVars, procVars
<1>3. ApiTypeOK' /\ RequestsInv'
  BY <1>1, ForgetInv DEF procVars
<1>4. QED
  BY <1>1, <1>2, <1>3, WorkersAside DEF IInv, TypeOK

LEMMA ApiStepInv ==
    ASSUME IInv, NEW r \in Requests, ApiStep(r), UNCHANGED workerVars
    PROVE  IInv'
BY SubmitInv, LookUpInv, CheckCapacityInv, InsertInv, EndRequestInv
DEF ApiStep, Handle

LEMMA CrashInv ==
    ASSUME IInv, NEW p \in Procs, Crash(p)
    PROVE  IInv'
<1> USE DEF Crash, StopOnce, scanVars, lockVars
<1>1. StoreTypeOK'
  BY StoreAssumption DEF IInv, TypeOK, StoreTypeOK
<1>2. WorkerTypeOK' /\ WorkersInv'
  BY StoreAssumption
  DEF Release, IInv, TypeOK, WorkerTypeOK, WorkersInv, Holding
<1>3. ApiTypeOK' /\ RequestsInv'
  BY ForgetInv DEF ServedBy, IInv, TypeOK, StoreTypeOK, ApiTypeOK
<1>4. (StatusesAgree /\ RowsInv /\ AttemptBudget)'
  BY DEF IInv, StatusesAgree, RowsInv, FindingsAreOfTheScan, AttemptBudget
<1>5. QED
  BY <1>1, <1>2, <1>3, <1>4 DEF IInv, TypeOK

LEMMA LifeCycleInv ==
    ASSUME IInv, NEW p \in Procs,
           Shutdown(p) \/ Exit(p) \/ \E v \in Versions : Restart(p, v)
    PROVE  IInv'
<1>1. UNCHANGED <<scanVars, lockVars, workerVars, apiVars>>
  BY DEF Shutdown, Exit, Restart
<1>2. \A r \in Requests : rproc[r] # None => rproc[r] # p
  BY DEF Shutdown, Exit, Restart, ServedBy, IInv, RequestsInv
<1>3. StoreTypeOK'
  BY <1>1, StoreAssumption
  DEF Shutdown, Exit, Restart, StopOnce, scanVars, lockVars, IInv, TypeOK,
      StoreTypeOK
<1>4. ApiTypeOK' /\ RequestsInv'
  <2>1. \A q \in Procs \ {p} : phase'[q] = phase[q] /\ engine'[q] = engine[q]
    BY DEF Shutdown, Exit, Restart, IInv, TypeOK, StoreTypeOK
  <2>2. QED
    BY <1>1, <1>2, <2>1
    DEF IInv, TypeOK, StoreTypeOK, ApiTypeOK, RequestsInv, scanVars, apiVars
<1>5. QED
  BY <1>1, <1>3, <1>4, WorkersAside DEF IInv, TypeOK

LEMMA NextInv == IInv /\ [Next]_vars => IInv'
<1> SUFFICES ASSUME IInv, [Next]_vars PROVE IInv'
  OBVIOUS
<1>1. ASSUME NEW p \in Procs, WorkerStep(p), UNCHANGED apiVars
      PROVE  IInv'
  BY <1>1, WorkerStepInv
<1>2. ASSUME NEW r \in Requests, ApiStep(r), UNCHANGED workerVars
      PROVE  IInv'
  BY <1>2, ApiStepInv
<1>3. ASSUME NEW p \in Procs, ProcessStep(p)
      PROVE  IInv'
  BY <1>3, CrashInv, LifeCycleInv DEF ProcessStep
<1>4. CASE UNCHANGED vars
  <2>1. dbFaults' \in 0..MaxDbFaults
    BY <1>4 DEF vars, storeVars, IInv, TypeOK, StoreTypeOK
  <2>2. UNCHANGED <<scanVars, lockVars, procVars, workerVars, apiVars>>
    BY <1>4 DEF vars, storeVars
  <2>3. QED
    BY <2>1, <2>2, StoreUnchanged, WorkersAside DEF IInv, TypeOK
<1>5. QED
  BY <1>1, <1>2, <1>3, <1>4 DEF Next

-----------------------------------------------------------------------------
(* What follows from it *)

\* IInv holds throughout: every variable keeps its type, the two rows of a
\* scan agree, no job is in two workers' hands, what is persisted and what is
\* spent match the status, and a request sees one build.
THEOREM Invariance == Spec => []IInv
<1>1. QED
  BY InitInv, NextInv, PTL DEF Spec

\* Type correctness of the composed system (attempt_count in particular never
\* passes max_attempts).
THEOREM TypeCorrect == Spec => []TypeOK
<1>1. IInv => TypeOK
  BY DEF IInv
<1>2. QED
  BY <1>1, Invariance, PTL

\* The scan and its job always show the same status to a reader.
THEOREM StatusesAlwaysAgree == Spec => []StatusesAgree
<1>1. IInv => StatusesAgree
  BY DEF IInv
<1>2. QED
  BY <1>1, Invariance, PTL

\* No two workers execute one job, and the row names its holder, for any
\* number of processes that skip each other's locks (or a single one).
THEOREM ExecutionIsExclusive == Spec => []ExclusiveExecution
<1>1. IInv => ExclusiveExecution
  BY DEF IInv, TypeOK, WorkerTypeOK, WorkersInv, Holding, ExclusiveExecution
<1>2. QED
  BY <1>1, Invariance, PTL

\* Findings are visible exactly for COMPLETED scans, whatever failed before.
THEOREM FindingsAreAtomic == Spec => []FindingsAreOfTheScan
<1>1. IInv => FindingsAreOfTheScan
  BY DEF IInv, RowsInv
<1>2. QED
  BY <1>1, Invariance, PTL

\* The attempt budget is kept across crashes, lost answers and retries.
THEOREM BudgetIsKept == Spec => []AttemptBudget
<1>1. IInv => AttemptBudget
  BY DEF IInv
<1>2. QED
  BY <1>1, Invariance, PTL

-----------------------------------------------------------------------------
(* Steps: a scan that has ended, and the job lifecycle *)

\* What any step does to the job and the scan of one worker or request.
LEMMA EndedStaysStep == IInv /\ [Next]_vars => EndedStays
<1> SUFFICES ASSUME IInv, [Next]_vars, NEW s \in Scans,
                    jobStatus[s] \in {"COMPLETED", "FAILED"}
             PROVE  /\ jobStatus'[s] = jobStatus[s]
                    /\ scanStatus'[s] = scanStatus[s]
                    /\ attempts'[s] = attempts[s]
                    /\ rows'[s] = rows[s]
                    /\ sha'[s] = sha[s]
                    /\ stamp'[s] = stamp[s]
  BY DEF EndedStays
<1> USE DEF storeVars, scanVars, lockVars, procVars
<1>1. ASSUME NEW p \in Procs, WorkerStep(p)
      PROVE  UNCHANGED <<jobStatus[s], scanStatus[s], attempts[s], rows[s],
                         sha[s], stamp[s]>>
  <2> USE DEF IInv, TypeOK, StoreTypeOK
  <2>1. CASE ClaimCommit(p) \/ ClaimFault(p)
    <3>1. wjob[p] # s
      BY <2>1 DEF ClaimCommit, ClaimFault, WorkersInv
    <3>2. QED
      BY <2>1, <3>1 DEF ClaimCommit, ClaimFault, MarkRunning
  <2>2. CASE Complete(p) \/ CompleteFault(p)
    <3>1. wjob[p] # s
      BY <2>2 DEF Complete, CompleteFault, WorkersInv, Holding
    <3>2. QED
      BY <2>2, <3>1 DEF Complete, CompleteFault, MarkCompleted, CommitFindings
  <2>3. CASE FailRetry(p) \/ FailForGood(p)
    <3>1. wjob[p] # s
      BY <2>3 DEF FailRetry, FailForGood, CanMove, LegalTransitions
    <3>2. QED
      BY <2>3, <3>1 DEF FailRetry, FailForGood, CommitFindings
  <2>4. CASE \/ ClaimSelect(p) \/ Analyse(p) \/ AnalysisRaises(p)
             \/ FailRefused(p) \/ FailFault(p) \/ Cancel(p)
    BY <2>4
    DEF ClaimSelect, Analyse, AnalysisRaises, FailRefused, FailFault, Cancel
  <2>5. QED
    BY <1>1, <2>1, <2>2, <2>3, <2>4 DEF WorkerStep
<1>2. ASSUME NEW r \in Requests, ApiStep(r)
      PROVE  UNCHANGED <<jobStatus[s], scanStatus[s], attempts[s], rows[s],
                         sha[s], stamp[s]>>
  <2>1. CASE Insert(r) \/ InsertUnanswered(r)
    <3>1. s \notin Unused
      BY DEF Unused, IInv, StatusesAgree
    <3>2. QED
      BY <2>1, <3>1
      DEF Insert, InsertUnanswered, Enqueue, IInv, TypeOK, StoreTypeOK
  <2>2. CASE ~(Insert(r) \/ InsertUnanswered(r))
    BY <1>2, <2>2
    DEF ApiStep, Handle, Submit, LookUp, CheckCapacity, Respond, RequestFault
  <2>3. QED
    BY <2>1, <2>2
<1>3. ASSUME NEW p \in Procs, ProcessStep(p)
      PROVE  UNCHANGED <<scanVars, lockVars>>
  BY <1>3 DEF ProcessStep, Crash, Shutdown, Exit, Restart
<1>4. QED
  BY <1>1, <1>2, <1>3 DEF Next, vars

\* A scan that has ended is never touched again.
THEOREM EndedScansStay == Spec => EndedIsForever
<1>1. IInv /\ [Next]_vars => [EndedStays]_vars
  BY EndedStaysStep
<1>2. QED
  BY <1>1, Invariance, PTL DEF Spec, EndedIsForever

\* The scan answering an identity is only ever replaced by an older one.
THEOREM CanonicalScanAges == Spec => CanonicalOnlyGetsOlder
<1>1. ASSUME IInv, [Next]_vars PROVE OlderAnswers
  <2>1. SUFFICES ASSUME NEW x \in Shas, NEW v \in Versions,
                        CompletedWith(x, v) # {}
                 PROVE  /\ CompletedWith(x, v)' # {}
                        /\ Oldest(CompletedWith(x, v)') <= Oldest(CompletedWith(x, v))
    BY DEF OlderAnswers
  <2>2. CompletedWith(x, v) \subseteq CompletedWith(x, v)'
    BY <1>1, EndedStaysStep DEF EndedStays, CompletedWith, IInv, StatusesAgree
  <2>3. CompletedWith(x, v) \subseteq Scans /\ CompletedWith(x, v)' \subseteq Scans
    BY DEF CompletedWith
  <2>4. QED
    BY <2>1, <2>2, <2>3, OldestIsMember
<1>2. IInv /\ [Next]_vars => [OlderAnswers]_vars
  BY <1>1
<1>3. QED
  BY <1>2, Invariance, PTL DEF Spec, CanonicalOnlyGetsOlder

\* Whoever submits the full SHA of a commit whose findings are stored under
\* the versions of the build that serves the request is answered from the
\* cache, however the SHA was spelt when the findings were asked for.
THEOREM CompletedCommitsHit == Spec => CompletedCommitHits
<1>1. ASSUME IInv, [Next]_vars, NEW r \in Requests,
             rpc[r] = "lookup", rpc'[r] = "capacity", rsha[r] \in Commits
      PROVE  Reusable(r) = {}
  <2>1. LookUp(r)
    <3> USE DEF IInv, TypeOK, ApiTypeOK
    <3>1. ASSUME NEW q \in Requests, ApiStep(q) PROVE LookUp(r)
      BY <1>1, <3>1
      DEF ApiStep, Handle, Submit, LookUp, CheckCapacity, Insert, Respond, RequestFault,
          InsertUnanswered, Forget
    <3>2. ASSUME NEW p \in Procs, ProcessStep(p) PROVE FALSE
      BY <1>1, <3>2 DEF ProcessStep, Crash, Shutdown, Exit, Restart, Forget, apiVars
    <3>3. QED
      BY <1>1, <3>1, <3>2 DEF Next, vars, apiVars
  <2>2. CompletedWith(rsha[r], engine[rproc[r]]) = {}
    BY <1>1, <2>1 DEF LookUp, IInv, TypeOK, ApiTypeOK
  <2>3. Resolve(rsha[r]) = rsha[r]
    BY <1>1 DEF Resolve
  <2>4. ASSUME NEW s \in Reusable(r) PROVE FALSE
    <3>1. /\ s \in Scans /\ scanStatus[s] = "COMPLETED"
          /\ rows[s][1] = rsha[r] /\ stamp[s] = engine[rproc[r]]
      BY <2>3, <2>4 DEF Reusable
    <3>2. sha[s] = rsha[r]
      BY <1>1, <3>1 DEF IInv, RowsInv, FindingsAreOfTheScan
    <3>3. QED
      BY <2>2, <3>1, <3>2 DEF CompletedWith
  <2>5. QED
    BY <2>4
<1>2. IInv /\ [Next]_vars => [OnlyShortShasMiss]_vars
  BY <1>1 DEF OnlyShortShasMiss
<1>3. QED
  BY <1>2, Invariance, PTL DEF Spec, CompletedCommitHits

\* Every step of the system moves at most one job, and moves it the way
\* scan_jobs.py allows.
LEMMA JobStep == IInv /\ [Next]_vars => [Jobs!Next]_(Jobs!jobVars)
<1> SUFFICES ASSUME IInv, [Next]_vars PROVE [Jobs!Next]_(Jobs!jobVars)
  OBVIOUS
<1> USE DEF storeVars, scanVars, lockVars, procVars, Jobs!jobVars
<1> USE DEF Jobs!Next, Jobs!Move, Jobs!LegalTransitions
<1>1. ASSUME NEW p \in Procs, WorkerStep(p)
      PROVE  [Jobs!Next]_(Jobs!jobVars)
  <2>1. CASE ClaimCommit(p) \/ (ClaimFault(p) /\ MarkRunning(p))
    <3>1. /\ wjob[p] \in Scans /\ jobStatus[wjob[p]] = "QUEUED"
          /\ MarkRunning(p)
      BY <2>1 DEF ClaimCommit, ClaimFault, IInv, TypeOK, WorkerTypeOK, WorkersInv
    <3>2. Jobs!Claim(wjob[p])
      BY <3>1 DEF Jobs!Claim, MarkRunning
    <3>3. QED
      BY <3>1, <3>2
  <2>2. CASE Complete(p) \/ (CompleteFault(p) /\ MarkCompleted(p))
    <3>1. /\ wjob[p] \in Scans /\ jobStatus[wjob[p]] = "RUNNING"
          /\ MarkCompleted(p)
      BY <2>2 DEF Complete, CompleteFault, IInv, TypeOK, WorkerTypeOK, WorkersInv,
                  Holding
    <3>2. Jobs!Complete(wjob[p])
      BY <3>1 DEF Jobs!Complete, MarkCompleted
    <3>3. QED
      BY <3>1, <3>2
  <2>3. CASE FailRetry(p) \/ FailForGood(p)
    <3>1. wjob[p] \in Scans /\ jobStatus[wjob[p]] = "RUNNING"
      BY <2>3, FailingJob
      DEF FailRetry, FailForGood, CanMove, LegalTransitions
    <3>2. Jobs!Retry(wjob[p]) \/ Jobs!Exhaust(wjob[p])
      BY <2>3, <3>1
      DEF FailRetry, FailForGood, ShouldRetry, Jobs!Retry, Jobs!Exhaust,
          Jobs!ShouldRetry
    <3>3. QED
      BY <3>1, <3>2
  <2>4. CASE UNCHANGED <<jobStatus, attempts>>
    BY <2>4
  <2>5. QED
    BY <1>1, <2>1, <2>2, <2>3, <2>4
    DEF WorkerStep, ClaimSelect, ClaimFault, Analyse, AnalysisRaises,
        CompleteFault, FailRefused, FailFault, Cancel
<1>2. ASSUME NEW r \in Requests, ApiStep(r)
      PROVE  [Jobs!Next]_(Jobs!jobVars)
  <2>1. CASE Insert(r) \/ InsertUnanswered(r)
    <3>1. PICK s \in Unused : Enqueue(r, s)
      BY <2>1 DEF Insert, InsertUnanswered
    <3>2. s \in Scans /\ jobStatus[s] = "NONE"
      BY DEF Unused, IInv, StatusesAgree
    <3>3. Jobs!Enqueue(s)
      BY <3>1, <3>2 DEF Enqueue, Jobs!Enqueue
    <3>4. QED
      BY <3>2, <3>3
  <2>2. CASE UNCHANGED <<jobStatus, attempts>>
    BY <2>2
  <2>3. QED
    BY <1>2, <2>1, <2>2
    DEF ApiStep, Handle, Submit, LookUp, CheckCapacity, Respond, RequestFault
<1>3. ASSUME NEW p \in Procs, ProcessStep(p)
      PROVE  UNCHANGED <<jobStatus, attempts>>
  BY <1>3 DEF ProcessStep, Crash, Shutdown, Exit, Restart
<1>4. QED
  BY <1>1, <1>2, <1>3 DEF Next, vars

\* The worker and the endpoint implement the lifecycle of scan_jobs.py.
THEOREM JobLifecycleImplemented == Spec => ImplementsScanJobs
<1>1. Init => Jobs!Init
  BY DEF Init, StoreInit, Jobs!Init
<1>2. QED
  BY <1>1, JobStep, Invariance, PTL DEF Spec, ImplementsScanJobs, Jobs!Spec

-----------------------------------------------------------------------------
(* How far the in-flight limit can be overshot *)

LEMMA InFlightFinite ==
    /\ IsFiniteSet(InFlight) /\ Cardinality(InFlight) \in Nat
    /\ IsFiniteSet(Cleared) /\ Cardinality(Cleared) \in Nat
    /\ Cardinality(Cleared) <= Cardinality(Requests)
    /\ Cardinality(Requests) \in Nat /\ Cardinality(Requests) > 0
<1>1. IsFiniteSet(Scans)
  BY StoreAssumption, FS_Interval DEF Scans
<1>2. InFlight \subseteq Scans /\ Cleared \subseteq Requests
  BY DEF InFlight, Cleared
<1>3. IsFiniteSet(InFlight)
  BY <1>1, <1>2, FS_Subset
<1>4. IsFiniteSet(Cleared) /\ Cardinality(Cleared) <= Cardinality(Requests)
  BY <1>2, ApiAssumption, FS_Subset
<1>5. Cardinality(InFlight) \in Nat /\ Cardinality(Cleared) \in Nat
  BY <1>3, <1>4, FS_CardinalityType
<1>6. Cardinality(Requests) \in Nat /\ Cardinality(Requests) > 0
  BY ApiAssumption, FS_CardinalityType, FS_EmptySet
<1>7. QED
  BY <1>3, <1>4, <1>5, <1>6

LEMMA CapacityInit == Init => CapacityInv
<1> SUFFICES ASSUME Init PROVE CapacityInv
  OBVIOUS
<1>1. InFlight = {} /\ Cleared = {}
  BY DEF Init, StoreInit, ApiInit, InFlight, Cleared
<1>2. Cardinality(InFlight) = 0 /\ Cardinality(Cleared) = 0
  BY <1>1, FS_EmptySet
<1>3. QED
  BY <1>2, InFlightFinite, ApiAssumption DEF CapacityInv

\* A step that neither queues a scan nor clears a request cannot raise the sum.
LEMMA NothingAdded ==
    ASSUME CapacityInv, InFlight' \subseteq InFlight, Cleared' \subseteq Cleared
    PROVE  CapacityInv'
<1>1. /\ Cardinality(InFlight') <= Cardinality(InFlight)
      /\ Cardinality(Cleared') <= Cardinality(Cleared)
      /\ Cardinality(InFlight') \in Nat /\ Cardinality(Cleared') \in Nat
  BY InFlightFinite, FS_Subset, FS_CardinalityType
<1>2. QED
  BY <1>1, InFlightFinite, ApiAssumption DEF CapacityInv

\* A request that passes the check sees fewer scans in flight than the limit.
LEMMA CheckAdds ==
    ASSUME IInv, CapacityInv, NEW r \in Requests, CheckCapacity(r)
    PROVE  CapacityInv'
<1>1. InFlight' = InFlight
  BY DEF CheckCapacity, storeVars, scanVars, InFlight
<1>2. CASE Cardinality(InFlight) >= MaxInFlightScans
  <2>1. Cleared' \subseteq Cleared
    BY <1>2 DEF CheckCapacity, Cleared, IInv, TypeOK, ApiTypeOK
  <2>2. QED
    BY <1>1, <2>1, NothingAdded
<1>3. CASE Cardinality(InFlight) < MaxInFlightScans
  <2>1. Cleared' \subseteq Requests
    BY DEF Cleared
  <2>2. /\ Cardinality(Cleared') \in Nat
        /\ Cardinality(Cleared') <= Cardinality(Requests)
    BY <2>1, ApiAssumption, FS_Subset, FS_CardinalityType
  <2>3. QED
    BY <1>1, <1>3, <2>2, InFlightFinite, ApiAssumption DEF CapacityInv
<1>4. QED
  BY <1>2, <1>3, InFlightFinite, ApiAssumption

\* An insert turns a cleared request into a scan in flight.
LEMMA InsertMoves ==
    ASSUME IInv, CapacityInv, NEW r \in Requests,
           Insert(r) \/ InsertUnanswered(r)
    PROVE  CapacityInv'
<1>1. PICK s \in Unused : scanStatus' = [scanStatus EXCEPT ![s] = "QUEUED"]
  BY DEF Insert, InsertUnanswered, Enqueue
<1>2. s \in Scans /\ s \notin InFlight
  BY DEF Unused, InFlight
<1>3. InFlight' = InFlight \cup {s}
  BY <1>1, <1>2 DEF InFlight, IInv, TypeOK, StoreTypeOK
<1>4. r \in Cleared /\ Cleared' = Cleared \ {r}
  BY DEF Insert, InsertUnanswered, Forget, Cleared, IInv, TypeOK, ApiTypeOK
<1>5. Cardinality(InFlight') = Cardinality(InFlight) + 1
  BY <1>2, <1>3, InFlightFinite, FS_AddElement
<1>6. Cardinality(Cleared') = Cardinality(Cleared) - 1
  BY <1>4, InFlightFinite, FS_RemoveElement
<1>7. QED
  BY <1>5, <1>6, InFlightFinite, ApiAssumption DEF CapacityInv

LEMMA CapacityNext == IInv /\ CapacityInv /\ [Next]_vars => CapacityInv'
<1> SUFFICES ASSUME IInv, CapacityInv, [Next]_vars PROVE CapacityInv'
  OBVIOUS
<1> USE DEF storeVars, scanVars, lockVars, procVars
<1>1. ASSUME NEW p \in Procs, WorkerStep(p), UNCHANGED apiVars
      PROVE  CapacityInv'
  <2>1. Cleared' = Cleared
    BY <1>1 DEF Cleared, apiVars
  <2>2. InFlight' \subseteq InFlight
    <3> USE DEF InFlight, IInv, TypeOK, StoreTypeOK
    <3>1. CASE MarkRunning(p)
      BY <3>1 DEF MarkRunning
    <3>2. CASE MarkCompleted(p)
      BY <3>2 DEF MarkCompleted
    <3>3. CASE FailRetry(p)
      <4>1. scanStatus[wjob[p]] = "RUNNING"
        BY <3>3, FailingJob DEF FailRetry, CanMove, LegalTransitions
      <4>2. QED
        BY <3>3, <4>1 DEF FailRetry
    <3>4. CASE FailForGood(p)
      BY <3>4 DEF FailForGood
    <3>5. CASE UNCHANGED scanStatus
      BY <3>5
    <3>6. QED
      BY <1>1, <3>1, <3>2, <3>3, <3>4, <3>5
      DEF WorkerStep, ClaimSelect, ClaimCommit, ClaimFault, Analyse,
          AnalysisRaises, Complete, CompleteFault, FailRefused, FailFault, Cancel
  <2>3. QED
    BY <2>1, <2>2, NothingAdded
<1>2. ASSUME NEW r \in Requests, ApiStep(r)
      PROVE  CapacityInv'
  <2>1. CASE Insert(r) \/ InsertUnanswered(r) \/ CheckCapacity(r)
    BY <2>1, InsertMoves, CheckAdds
  <2>2. CASE ~(Insert(r) \/ InsertUnanswered(r) \/ CheckCapacity(r))
    <3>1. InFlight' = InFlight /\ Cleared' \subseteq Cleared
      BY <1>2, <2>2
      DEF ApiStep, Handle, Submit, LookUp, Respond, RequestFault, Forget,
          InFlight, Cleared, IInv, TypeOK, ApiTypeOK
    <3>2. QED
      BY <3>1, NothingAdded
  <2>3. QED
    BY <2>1, <2>2
<1>3. ASSUME NEW p \in Procs, ProcessStep(p)
      PROVE  CapacityInv'
  <2>1. InFlight' = InFlight
    BY <1>3 DEF ProcessStep, Crash, Shutdown, Exit, Restart, InFlight
  <2>2. Cleared' \subseteq Cleared
    BY <1>3
    DEF ProcessStep, Crash, Shutdown, Exit, Restart, Forget, Cleared, apiVars
  <2>3. QED
    BY <2>1, <2>2, NothingAdded
<1>4. CASE UNCHANGED vars
  <2>1. InFlight' = InFlight /\ Cleared' = Cleared
    BY <1>4 DEF vars, apiVars, InFlight, Cleared
  <2>2. QED
    BY <2>1, NothingAdded
<1>5. QED
  BY <1>1, <1>2, <1>3, <1>4 DEF Next

\* The bound that create_scan does keep, for every number of requests: the
\* configured limit plus one scan for each other request in progress.
THEOREM OvershootIsBounded == Spec => []InFlightBound
<1>1. IInv /\ CapacityInv => InFlightBound
  BY InFlightFinite, ApiAssumption DEF CapacityInv, InFlightBound
<1>2. QED
  BY <1>1, CapacityInit, CapacityNext, Invariance, PTL DEF Spec

\* With one request at a time the documented limit itself is kept.
THEOREM OneAtATimeKeepsTheLimit ==
    ASSUME Cardinality(Requests) = 1
    PROVE  Spec => []InFlightLimitKept
<1>1. InFlightBound => InFlightLimitKept
  BY InFlightFinite, ApiAssumption DEF InFlightBound, InFlightLimitKept
<1>2. QED
  BY <1>1, OvershootIsBounded, PTL

-----------------------------------------------------------------------------
(* Deployments: which build the findings of a cached answer come from *)

LEMMA HistoryInit == Init /\ overlapped = {} => HistoryInv
BY StoreAssumption
DEF Init, StoreInit, WorkerInit, HistoryInv, WorkersAreOfRunningProcesses,
    OneBuildWhileOpen, OtherBuildRuns, PendingIsOfTheBuild, RowsAreOfTheBuild

\* The version columns are written once, when the scan is inserted.
LEMMA StampsStay ==
    ASSUME IInv, Next, NEW s \in Scans, jobStatus[s] # "NONE"
    PROVE  stamp'[s] = stamp[s]
<1> USE DEF storeVars, scanVars
<1>1. ASSUME NEW p \in Procs, WorkerStep(p)
      PROVE  stamp' = stamp
  BY <1>1
  DEF WorkerStep, ClaimSelect, ClaimCommit, ClaimFault, MarkRunning, Analyse,
      AnalysisRaises, Complete, CompleteFault, MarkCompleted, FailRetry,
      FailForGood, FailRefused, FailFault, Cancel
<1>2. ASSUME NEW r \in Requests, ApiStep(r)
      PROVE  stamp'[s] = stamp[s]
  <2>1. CASE Insert(r) \/ InsertUnanswered(r)
    <3>1. s \notin Unused
      BY DEF Unused, IInv, StatusesAgree
    <3>2. QED
      BY <2>1, <3>1
      DEF Insert, InsertUnanswered, Enqueue, IInv, TypeOK, StoreTypeOK
  <2>2. CASE UNCHANGED stamp
    BY <2>2
  <2>3. QED
    BY <1>2, <2>1, <2>2
    DEF ApiStep, Handle, Submit, LookUp, CheckCapacity, Respond, RequestFault
<1>3. ASSUME NEW p \in Procs, ProcessStep(p)
      PROVE  stamp' = stamp
  BY <1>3 DEF ProcessStep, Crash, Shutdown, Exit, Restart
<1>4. QED
  BY <1>1, <1>2, <1>3 DEF Next

\* A worker is at work only in a process that runs: a crash takes it along,
\* and the lifespan is left only when the loop has ended.
LEMMA WorkersRun ==
    ASSUME IInv, WorkersAreOfRunningProcesses, Next
    PROVE  WorkersAreOfRunningProcesses'
<1> USE DEF WorkersAreOfRunningProcesses, IInv, TypeOK, StoreTypeOK, WorkerTypeOK,
            storeVars, procVars, workerVars
<1>1. ASSUME NEW p \in Procs, WorkerStep(p)
      PROVE  /\ phase' = phase
             /\ \A q \in Procs : wpc'[q] # "idle" => q = p \/ wpc[q] # "idle"
             /\ wpc'[p] # "idle" => phase[p] # "down"
  BY <1>1
  DEF WorkerStep, ClaimSelect, ClaimCommit, ClaimFault, MarkRunning, Analyse,
      AnalysisRaises, Complete, CompleteFault, MarkCompleted, FailRetry,
      FailForGood, FailRefused, FailFault, Cancel, Release, Rollback
<1>2. ASSUME NEW r \in Requests, ApiStep(r), UNCHANGED workerVars
      PROVE  phase' = phase
  BY <1>2
  DEF ApiStep, Handle, Submit, LookUp, CheckCapacity, Insert, InsertUnanswered,
      Enqueue, Respond, RequestFault
<1>3. ASSUME NEW p \in Procs, ProcessStep(p)
      PROVE  WorkersAreOfRunningProcesses'
  BY <1>3 DEF ProcessStep, Crash, Release, Shutdown, Exit, Restart
<1>4. QED
  BY <1>1, <1>2, <1>3 DEF Next

\* The findings a step puts into a session or commits are those of the build
\* that ran, which is the one the scan was submitted to.
LEMMA HistoryNext ==
    IInv /\ HistoryInv /\ [Next /\ Remember]_historyVars => HistoryInv'
<1> SUFFICES ASSUME IInv, HistoryInv, [Next /\ Remember]_historyVars
             PROVE  HistoryInv'
  OBVIOUS
<1>1. CASE UNCHANGED historyVars
  BY <1>1
  DEF historyVars, vars, storeVars, scanVars, lockVars, procVars, workerVars,
      HistoryInv, WorkersAreOfRunningProcesses, OneBuildWhileOpen, OtherBuildRuns,
      PendingIsOfTheBuild, RowsAreOfTheBuild
<1>2. CASE Next /\ Remember
  <2>1. WorkersAreOfRunningProcesses'
    BY <1>2, WorkersRun DEF HistoryInv
  <2>2. OneBuildWhileOpen'
    BY <1>2 DEF Remember, OneBuildWhileOpen
  <2>3. overlapped \subseteq overlapped'
    BY <1>2 DEF Remember
  <2>4. \A s \in Scans : jobStatus[s] # "NONE" => stamp'[s] = stamp[s]
    BY <1>2, StampsStay
  <2>5. PendingIsOfTheBuild'
    <3>1. SUFFICES ASSUME NEW p \in Procs, wpc'[p] = "flushed",
                          wjob'[p] \notin overlapped'
                   PROVE  pending'[p][2] = stamp'[wjob'[p]]
      BY DEF PendingIsOfTheBuild
    <3>2. CASE Analyse(p)
      <4>1. /\ wjob[p] \in Scans /\ jobStatus[wjob[p]] = "RUNNING"
            /\ wjob' = wjob /\ phase[p] # "down"
            /\ pending'[p] = <<Resolve(sha[wjob[p]]), engine[p]>>
        BY <3>2
        DEF Analyse, IInv, TypeOK, WorkerTypeOK, WorkersInv, Holding, HistoryInv,
            WorkersAreOfRunningProcesses
      <4>2. engine[p] = stamp[wjob[p]]
        BY <2>3, <3>1, <4>1 DEF HistoryInv, OneBuildWhileOpen, OtherBuildRuns
      <4>3. QED
        BY <2>4, <4>1, <4>2
    <3>3. CASE ~Analyse(p)
      <4>1. /\ wpc[p] = "flushed" /\ wjob'[p] = wjob[p] /\ pending'[p] = pending[p]
        <5> USE DEF IInv, TypeOK, WorkerTypeOK
        <5>1. ASSUME NEW q \in Procs, WorkerStep(q)
              PROVE  wpc[p] = "flushed" /\ wjob'[p] = wjob[p] /\ pending'[p] = pending[p]
          BY <3>1, <3>3, <5>1
          DEF WorkerStep, ClaimSelect, ClaimCommit, ClaimFault, Analyse,
              AnalysisRaises, Complete, CompleteFault, FailRetry, FailForGood,
              FailRefused, FailFault, Cancel, Release, Rollback
        <5>2. ASSUME NEW q \in Procs, ProcessStep(q)
              PROVE  wpc[p] = "flushed" /\ wjob'[p] = wjob[p] /\ pending'[p] = pending[p]
          BY <3>1, <5>2
          DEF ProcessStep, Crash, Release, Shutdown, Exit, Restart, workerVars
        <5>3. CASE UNCHANGED workerVars
          BY <3>1, <5>3 DEF workerVars
        <5>4. QED
          BY <1>2, <5>1, <5>2, <5>3 DEF Next
      <4>2. wjob[p] \in Scans /\ jobStatus[wjob[p]] # "NONE"
        BY <4>1 DEF IInv, TypeOK, WorkerTypeOK, WorkersInv, Holding
      <4>3. QED
        BY <2>3, <2>4, <3>1, <4>1, <4>2 DEF HistoryInv, PendingIsOfTheBuild
    <3>4. QED
      BY <3>2, <3>3
  <2>6. RowsAreOfTheBuild'
    <3>1. SUFFICES ASSUME NEW s \in Scans, jobStatus'[s] = "COMPLETED",
                          s \notin overlapped'
                   PROVE  rows'[s][2] = stamp'[s]
      BY DEF RowsAreOfTheBuild
    <3>2. CASE jobStatus[s] = "COMPLETED"
      <4>1. rows'[s] = rows[s] /\ stamp'[s] = stamp[s]
        BY <1>2, <3>2, EndedStaysStep DEF EndedStays
      <4>2. QED
        BY <2>3, <3>1, <3>2, <4>1 DEF HistoryInv, RowsAreOfTheBuild
    <3>3. CASE jobStatus[s] # "COMPLETED"
      <4>1. PICK p \in Procs : /\ wpc[p] = "flushed"
                               /\ MarkCompleted(p)
                               /\ s = wjob[p]
        <5> USE DEF IInv, TypeOK, StoreTypeOK, WorkerTypeOK
        <5>1. ASSUME NEW p \in Procs, WorkerStep(p)
              PROVE  wpc[p] = "flushed" /\ MarkCompleted(p) /\ s = wjob[p]
          BY <3>1, <3>3, <5>1
          DEF WorkerStep, ClaimSelect, ClaimCommit, ClaimFault, MarkRunning, Analyse,
              AnalysisRaises, Complete, CompleteFault, MarkCompleted, FailRetry,
              FailForGood, FailRefused, FailFault, Cancel, storeVars, lockVars
        <5>2. ASSUME NEW r \in Requests, ApiStep(r)
              PROVE  FALSE
          BY <3>1, <3>3, <5>2
          DEF ApiStep, Handle, Submit, LookUp, CheckCapacity, Insert,
              InsertUnanswered, Enqueue, Respond, RequestFault, storeVars, lockVars
        <5>3. ASSUME NEW p \in Procs, ProcessStep(p)
              PROVE  FALSE
          BY <3>1, <3>3, <5>3
          DEF ProcessStep, Crash, Shutdown, Exit, Restart, lockVars
        <5>4. QED
          BY <1>2, <5>1, <5>2, <5>3 DEF Next
      <4>2. jobStatus[s] # "NONE" /\ pending[p] # None
        BY <4>1 DEF IInv, WorkersInv, Holding
      <4>3. rows'[s] = pending[p]
        BY <4>1, <4>2 DEF MarkCompleted, CommitFindings, IInv, TypeOK, StoreTypeOK
      <4>4. pending[p][2] = stamp[s]
        BY <2>3, <3>1, <4>1 DEF HistoryInv, PendingIsOfTheBuild
      <4>5. QED
        BY <2>4, <4>2, <4>3, <4>4
    <3>4. QED
      BY <3>2, <3>3
  <2>7. QED
    BY <2>1, <2>2, <2>5, <2>6 DEF HistoryInv
<1>3. QED
  BY <1>1, <1>2

\* A cached answer is a finished scan of the commit asked for, and its findings
\* come from the build that serves the request unless a deployment overlapped
\* the scan (find_completed_scan).
THEOREM CachedAnswersAreRight == HistorySpec => []CachedAnswerIsRight
<1>1. ASSUME IInv, HistoryInv PROVE CachedAnswerIsRight
  <2>1. SUFFICES ASSUME NEW r \in Requests, rpc[r] = "cached"
                 PROVE  /\ scanStatus[rscan[r]] = "COMPLETED"
                        /\ rows[rscan[r]] # None
                        /\ rows[rscan[r]][1] = Resolve(rsha[r])
                        /\ \/ rows[rscan[r]][2] = engine[rproc[r]]
                           \/ rscan[r] \in overlapped
    BY DEF CachedAnswerIsRight
  <2>2. /\ rscan[r] \in Scans
        /\ scanStatus[rscan[r]] = "COMPLETED"
        /\ sha[rscan[r]] = rsha[r]
        /\ stamp[rscan[r]] = engine[rproc[r]]
    BY <1>1, <2>1 DEF IInv, TypeOK, ApiTypeOK, RequestsInv
  <2>3. rows[rscan[r]] # None /\ rows[rscan[r]][1] = rsha[r]
    BY <1>1, <2>2 DEF IInv, RowsInv, FindingsAreOfTheScan
  <2>4. rsha[r] \in Commits
    BY <1>1, <2>2, <2>3 DEF IInv, TypeOK, StoreTypeOK, RowSets
  <2>5. jobStatus[rscan[r]] = "COMPLETED"
    BY <1>1, <2>2 DEF IInv, StatusesAgree
  <2>6. QED
    BY <1>1, <2>2, <2>3, <2>4, <2>5 DEF Resolve, HistoryInv, RowsAreOfTheBuild
<1>2. [Next /\ Remember]_historyVars => [Next]_vars
  BY DEF historyVars
<1>3. QED
  BY <1>1, <1>2, InitInv, NextInv, HistoryInit, HistoryNext, PTL DEF HistorySpec

=============================================================================
