----------------------------- MODULE ScanWorker -----------------------------
(***************************************************************************)
(* The worker loop of app/worker.py, one per server process: claim the     *)
(* oldest queued job, run the engine on it, persist, and on an error retry *)
(* or give up.  A step is one database transaction or one await; between   *)
(* two steps anything else in the system may run.                          *)
(***************************************************************************)
EXTENDS ScanStore

CONSTANT
    SkipLocked     \* TRUE: FOR UPDATE SKIP LOCKED (PostgreSQL); FALSE: SQLite

\* "SQLite has no such clause and runs a single in-process worker".
ASSUME ClaimAssumption ==
    /\ SkipLocked \in BOOLEAN
    /\ SkipLocked \/ \A p, q \in Procs : p = q

VARIABLES
    wpc,       \* wpc[p]: where run_next_job stands in process p
    wjob,      \* wjob[p]: the job it holds, None when idle
    pending    \* pending[p]: findings flushed in its session, not committed

workerVars == <<wpc, wjob, pending>>

WorkerTypeOK ==
    /\ wpc \in [Procs -> {"idle", "selected", "executing", "flushed", "failing"}]
    /\ wjob \in [Procs -> Scans \cup {None}]
    /\ pending \in [Procs -> RowSets \cup {None}]

WorkerInit ==
    /\ wpc = [p \in Procs |-> "idle"]
    /\ wjob = [p \in Procs |-> None]
    /\ pending = [p \in Procs |-> None]

-----------------------------------------------------------------------------
(* Helpers *)

LegalTransitions ==
    {<<"QUEUED", "RUNNING">>, <<"RUNNING", "COMPLETED">>,
     <<"RUNNING", "FAILED">>, <<"RUNNING", "QUEUED">>}

\* Defect for EndedIsForever: no check of the move.
MoveUnchecked(s, target) == TRUE

\* assert_transition, without the cancellations nobody performs.
CanMove(s, target) == <<jobStatus[s], target>> \in LegalTransitions

ShouldRetry(s) == attempts[s] < MaxAttempts

\* Defect for ExclusiveExecution: the row locks of other claims are ignored.
ClaimableIgnoringLocks(p) == {s \in Scans : jobStatus[s] = "QUEUED"}

\* Defect for AcceptedScansEnd: a retried job is never picked up again.
ClaimableOnce(p) == {s \in Scans : jobStatus[s] = "QUEUED" /\ attempts[s] = 0}

\* The rows the claim query may return: QUEUED, and not locked by the claim
\* of another worker where the database can tell.
Claimable(p) ==
    {s \in Scans :
        /\ jobStatus[s] = "QUEUED"
        /\ SkipLocked => \A q \in Procs \ {p} : ~(wpc[q] = "selected" /\ wjob[q] = s)}

\* Session.close: the job is let go and whatever was not committed is lost.
Release(p) ==
    /\ wpc' = [wpc EXCEPT ![p] = "idle"]
    /\ wjob' = [wjob EXCEPT ![p] = None]
    /\ pending' = [pending EXCEPT ![p] = None]

\* Defect for FindingsAreOfTheScan: _fail runs in the transaction that broke.
NoRollback(p) ==
    /\ wpc' = [wpc EXCEPT ![p] = "failing"]
    /\ UNCHANGED <<wjob, pending>>

\* Session.rollback before _fail.
Rollback(p) ==
    /\ wpc' = [wpc EXCEPT ![p] = "failing"]
    /\ pending' = [pending EXCEPT ![p] = None]
    /\ UNCHANGED wjob

\* Defect for CompletedCommitHits: the scan keeps the SHA it was submitted by.
CommitRowsOnly(p) ==
    /\ rows' = IF pending[p] = None THEN rows
               ELSE [rows EXCEPT ![wjob[p]] = pending[p]]
    /\ UNCHANGED sha

\* Session.commit writes what the session still holds along with the status.
CommitFindings(p) ==
    IF pending[p] = None
    THEN UNCHANGED <<rows, sha>>
    ELSE /\ rows' = [rows EXCEPT ![wjob[p]] = pending[p]]
         /\ sha' = [sha EXCEPT ![wjob[p]] = pending[p][1]]

-----------------------------------------------------------------------------
(* _claim_next_job: the select, then the update and its commit *)

ClaimSelect(p) ==
    /\ phase[p] = "up"
    /\ wpc[p] = "idle"
    /\ Claimable(p) # {}
    /\ wpc' = [wpc EXCEPT ![p] = "selected"]
    /\ wjob' = [wjob EXCEPT ![p] = Oldest(Claimable(p))]
    /\ UNCHANGED <<storeVars, pending>>

\* Defect for ImplementsScanJobs: a claim that spends no attempt.
MarkRunningForFree(p) ==
    /\ jobStatus' = [jobStatus EXCEPT ![wjob[p]] = "RUNNING"]
    /\ lockedBy' = [lockedBy EXCEPT ![wjob[p]] = p]
    /\ scanStatus' = [scanStatus EXCEPT ![wjob[p]] = "RUNNING"]
    /\ UNCHANGED <<sha, stamp, rows, attempts, procVars>>

MarkRunning(p) ==
    LET s == wjob[p] IN
    /\ jobStatus' = [jobStatus EXCEPT ![s] = "RUNNING"]
    /\ attempts' = [attempts EXCEPT ![s] = @ + 1]
    /\ lockedBy' = [lockedBy EXCEPT ![s] = p]
    /\ scanStatus' = IF scanStatus[s] = "QUEUED"
                     THEN [scanStatus EXCEPT ![s] = "RUNNING"]
                     ELSE scanStatus
    /\ UNCHANGED <<sha, stamp, rows, procVars>>

ClaimCommit(p) ==
    /\ wpc[p] = "selected"
    /\ MarkRunning(p)
    /\ wpc' = [wpc EXCEPT ![p] = "executing"]
    /\ UNCHANGED <<wjob, pending, dbFaults>>

\* The claim raises: run_next_job has no job to fail, the loop only logs.
\* If the commit had reached the database, the row stays RUNNING.
ClaimFault(p) ==
    /\ wpc[p] = "selected"
    /\ DbFault
    /\ MarkRunning(p) \/ UNCHANGED <<scanVars, lockVars, procVars>>
    /\ Release(p)

-----------------------------------------------------------------------------
(* _execute: ingest and analyse, then one transaction for the result *)

\* The engine of this process analyses the commit the SHA resolves to, and
\* persist_analysis flushes the findings.
Analyse(p) ==
    /\ wpc[p] = "executing"
    /\ wpc' = [wpc EXCEPT ![p] = "flushed"]
    /\ pending' = [pending EXCEPT ![p] = <<Resolve(sha[wjob[p]]), engine[p]>>]
    /\ UNCHANGED <<storeVars, wjob>>

\* Ingestion, the engine or the flush raises.
AnalysisRaises(p) ==
    /\ wpc[p] = "executing"
    /\ Rollback(p)
    /\ UNCHANGED storeVars

MarkCompleted(p) ==
    LET s == wjob[p] IN
    /\ jobStatus' = [jobStatus EXCEPT ![s] = "COMPLETED"]
    /\ scanStatus' = [scanStatus EXCEPT ![s] = "COMPLETED"]
    /\ CommitFindings(p)
    /\ UNCHANGED <<attempts, lockedBy, stamp, procVars>>

Complete(p) ==
    /\ wpc[p] = "flushed"
    /\ MarkCompleted(p)
    /\ Release(p)
    /\ UNCHANGED dbFaults

\* The commit raises, having reached the database or not.
CompleteFault(p) ==
    /\ wpc[p] = "flushed"
    /\ DbFault
    /\ MarkCompleted(p) \/ UNCHANGED <<scanVars, lockVars, procVars>>
    /\ Rollback(p)

-----------------------------------------------------------------------------
(* _fail: the rollback expired the job, so its status is read afresh *)

\* Defect for StatusesAgree: the retry forgets the scan row.
FailRetryJobOnly(p) ==
    /\ wpc[p] = "failing"
    /\ ShouldRetry(wjob[p])
    /\ CanMove(wjob[p], "QUEUED")
    /\ jobStatus' = [jobStatus EXCEPT ![wjob[p]] = "QUEUED"]
    /\ lockedBy' = [lockedBy EXCEPT ![wjob[p]] = None]
    /\ Release(p)
    /\ UNCHANGED <<scanVars, attempts, procVars, dbFaults>>

FailRetry(p) ==
    LET s == wjob[p] IN
    /\ wpc[p] = "failing"
    /\ ShouldRetry(s)
    /\ CanMove(s, "QUEUED")
    /\ jobStatus' = [jobStatus EXCEPT ![s] = "QUEUED"]
    /\ lockedBy' = [lockedBy EXCEPT ![s] = None]
    /\ scanStatus' = [scanStatus EXCEPT ![s] = "QUEUED"]
    /\ CommitFindings(p)
    /\ Release(p)
    /\ UNCHANGED <<attempts, stamp, procVars, dbFaults>>

FailForGood(p) ==
    LET s == wjob[p] IN
    /\ wpc[p] = "failing"
    /\ ~ShouldRetry(s)
    /\ CanMove(s, "FAILED")
    /\ jobStatus' = [jobStatus EXCEPT ![s] = "FAILED"]
    /\ scanStatus' = [scanStatus EXCEPT ![s] = "FAILED"]
    /\ CommitFindings(p)
    /\ Release(p)
    /\ UNCHANGED <<attempts, lockedBy, stamp, procVars, dbFaults>>

\* assert_transition raises InvalidJobTransitionError out of run_next_job.
FailRefused(p) ==
    /\ wpc[p] = "failing"
    /\ ~CanMove(wjob[p], IF ShouldRetry(wjob[p]) THEN "QUEUED" ELSE "FAILED")
    /\ Release(p)
    /\ UNCHANGED storeVars

\* _fail itself cannot reach the database: nothing else touches the job.
FailFault(p) ==
    /\ wpc[p] = "failing"
    /\ DbFault
    /\ Release(p)
    /\ UNCHANGED <<scanVars, lockVars, procVars>>

-----------------------------------------------------------------------------
(* Shutdown reaches the worker *)

\* lifespan waits ten seconds for the loop, then cancels the task.  Only the
\* await in _execute can be interrupted; CancelledError is no Exception, so
\* _fail does not run and the session is just closed.
Cancel(p) ==
    /\ phase[p] = "stopping"
    /\ wpc[p] = "executing"
    /\ Release(p)
    /\ UNCHANGED storeVars

WorkerStep(p) ==
    \/ ClaimSelect(p)
    \/ ClaimCommit(p)
    \/ ClaimFault(p)
    \/ Analyse(p)
    \/ AnalysisRaises(p)
    \/ Complete(p)
    \/ CompleteFault(p)
    \/ FailRetry(p)
    \/ FailForGood(p)
    \/ FailRefused(p)
    \/ FailFault(p)
    \/ Cancel(p)

=============================================================================
