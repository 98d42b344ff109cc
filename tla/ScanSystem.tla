----------------------------- MODULE ScanSystem -----------------------------
(***************************************************************************)
(* The submission endpoint and the workers over one database, with server  *)
(* processes that crash, are shut down, and come back with the same build  *)
(* or another.                                                             *)
(***************************************************************************)
EXTENDS ScanWorker, ScanApi

vars == <<storeVars, workerVars, apiVars>>

ServedBy(p) == {r \in Requests : rproc[r] = p}

\* One crash or shutdown more, within the model bound.
StopOnce == stops < MaxStops /\ stops' = stops + 1

-----------------------------------------------------------------------------
(* The life of a server process (lifespan, app/main.py) *)

\* SIGKILL, out of memory, power: every session of the process is gone and
\* the database rolls its open transactions back.
Crash(p) ==
    /\ phase[p] # "down"
    /\ StopOnce
    /\ phase' = [phase EXCEPT ![p] = "down"]
    /\ Release(p)
    /\ Forget(ServedBy(p))
    /\ UNCHANGED <<scanVars, lockVars, engine, dbFaults>>

\* Defect for IInv: the process leaves while requests are in progress.
ShutdownAbruptly(p) ==
    /\ phase[p] = "up"
    /\ StopOnce
    /\ phase' = [phase EXCEPT ![p] = "stopping"]
    /\ UNCHANGED <<scanVars, lockVars, engine, dbFaults, workerVars, apiVars>>

\* The server stops accepting, lets its requests finish, then leaves lifespan,
\* which sets the stop event of the worker loop.
Shutdown(p) ==
    /\ phase[p] = "up"
    /\ ServedBy(p) = {}
    /\ StopOnce
    /\ phase' = [phase EXCEPT ![p] = "stopping"]
    /\ UNCHANGED <<scanVars, lockVars, engine, dbFaults, workerVars, apiVars>>

\* The worker loop has ended, by itself or cancelled.
Exit(p) ==
    /\ phase[p] = "stopping"
    /\ wpc[p] = "idle"
    /\ phase' = [phase EXCEPT ![p] = "down"]
    /\ UNCHANGED <<scanVars, lockVars, engine, stops, dbFaults, workerVars, apiVars>>

\* restart: unless-stopped, or a deployment of another build.  Nothing looks
\* at the jobs the previous process left behind.
Restart(p, v) ==
    /\ phase[p] = "down"
    /\ phase' = [phase EXCEPT ![p] = "up"]
    /\ engine' = [engine EXCEPT ![p] = v]
    /\ UNCHANGED <<scanVars, lockVars, stops, dbFaults, workerVars, apiVars>>

-----------------------------------------------------------------------------

Init == StoreInit /\ WorkerInit /\ ApiInit

ProcessStep(p) ==
    \/ Crash(p)
    \/ Shutdown(p)
    \/ Exit(p)
    \/ \E v \in Versions : Restart(p, v)

Next ==
    \/ \E p \in Procs : WorkerStep(p) /\ UNCHANGED apiVars
    \/ \E r \in Requests : ApiStep(r) /\ UNCHANGED workerVars
    \/ \E p \in Procs : ProcessStep(p)

Spec == Init /\ [][Next]_vars

\* What the code's scheduling gives: a worker loop polls, and a step it has
\* begun ends; a request is carried to its answer; a process that is down is
\* started again.  Submissions, crashes, shutdowns and faults are free.
WorkerProgress(p) ==
    \/ ClaimSelect(p)
    \/ ClaimCommit(p)
    \/ Analyse(p)
    \/ AnalysisRaises(p)
    \/ Complete(p)
    \/ FailRetry(p)
    \/ FailForGood(p)
    \/ FailRefused(p)

Fairness ==
    /\ \A p \in Procs :
        /\ WF_vars(WorkerProgress(p) /\ UNCHANGED apiVars)
        /\ WF_vars(Exit(p))
        /\ WF_vars(\E v \in Versions : Restart(p, v))
    /\ \A r \in Requests : WF_vars(Handle(r) /\ UNCHANGED workerVars)

FairSpec == Spec /\ Fairness

-----------------------------------------------------------------------------
(* State invariants *)

\* Every variable has its type; in particular attempt_count stays within
\* max_attempts.
TypeOK == StoreTypeOK /\ WorkerTypeOK /\ ApiTypeOK

\* The two rows of a scan are written in one transaction wherever they are
\* written, so no reader ever sees them disagree (worker.py claims, completes,
\* retries and fails both).
StatusesAgree == \A s \in Scans : scanStatus[s] = jobStatus[s]

\* A worker past its claim holds a job nobody else works on, RUNNING and
\* locked by its process - except that a lost commit answer may leave it
\* about to fail a job that is COMPLETED already.
Holding(p) == wpc[p] \in {"executing", "flushed", "failing"}

ExclusiveExecution ==
    \A p \in Procs : Holding(p) =>
        /\ \A q \in Procs \ {p} : wjob[q] # wjob[p]
        /\ lockedBy[wjob[p]] = p
        /\ \/ jobStatus[wjob[p]] = "RUNNING"
           \/ wpc[p] = "failing" /\ jobStatus[wjob[p]] = "COMPLETED"

\* Findings are visible exactly when the scan is COMPLETED, and they are
\* those of the commit the scan names: a failed or retried attempt leaves
\* nothing behind (the rollback in run_next_job).
FindingsAreOfTheScan ==
    \A s \in Scans :
        IF scanStatus[s] = "COMPLETED"
        THEN rows[s] # None /\ rows[s][1] = sha[s]
        ELSE rows[s] = None

\* The attempt budget: a job waits only while an attempt is left for it, and
\* is FAILED only with all of them spent (should_retry).
AttemptBudget ==
    \A s \in Scans :
        /\ jobStatus[s] \in {"NONE", "QUEUED"} => attempts[s] < MaxAttempts
        /\ jobStatus[s] = "FAILED" => attempts[s] = MaxAttempts

\* max_in_flight_scans is checked and acted upon in separate statements, so
\* requests that pass the check together may each insert: the bound that does
\* hold is the limit plus one scan per other request in progress.
InFlightBound ==
    Cardinality(InFlight) <= MaxInFlightScans - 1 + Cardinality(Requests)

-----------------------------------------------------------------------------
(* The inductive invariant behind the state invariants above *)

\* Where each worker stands determines its job, its session and the row.  A
\* job is in the hands of one worker at most, from the select on.
WorkersInv ==
    /\ \A p, q \in Procs : wjob[p] # None /\ wjob[p] = wjob[q] => p = q
    /\ \A p \in Procs :
        /\ wpc[p] = "idle" <=> wjob[p] = None
        /\ wpc[p] = "selected" => jobStatus[wjob[p]] = "QUEUED"
        /\ Holding(p) =>
            /\ lockedBy[wjob[p]] = p
            /\ \/ jobStatus[wjob[p]] = "RUNNING"
               \/ wpc[p] = "failing" /\ jobStatus[wjob[p]] = "COMPLETED"
        /\ wpc[p] = "flushed" <=> pending[p] # None

\* What a row holds once it exists.
RowsInv ==
    /\ FindingsAreOfTheScan
    /\ \A s \in Scans : jobStatus[s] # "NONE" => sha[s] # None /\ stamp[s] # None
    /\ \A s \in Scans : jobStatus[s] = "NONE" => attempts[s] = 0

\* A request in progress belongs to a process that is up, so the build it
\* looks up and inserts under is one and the same.
RequestsInv ==
    \A r \in Requests :
        /\ rpc[r] = "idle" <=> rproc[r] = None
        /\ rproc[r] # None => phase[rproc[r]] = "up" /\ rsha[r] # None
        /\ rpc[r] = "cached" => /\ rscan[r] # None
                                /\ scanStatus[rscan[r]] = "COMPLETED"
                                /\ sha[rscan[r]] = rsha[r]
                                /\ stamp[rscan[r]] = engine[rproc[r]]

IInv ==
    /\ TypeOK
    /\ StatusesAgree
    /\ WorkersInv
    /\ RowsInv
    /\ AttemptBudget
    /\ RequestsInv

\* Requests that have passed the capacity check and not yet inserted.
Cleared == {r \in Requests : rpc[r] = "insert"}

\* What makes InFlightBound inductive: those requests are counted too.
CapacityInv ==
    Cardinality(InFlight) + Cardinality(Cleared)
        <= MaxInFlightScans - 1 + Cardinality(Requests)

-----------------------------------------------------------------------------
(* Action properties *)

EndedStays ==
    \A s \in Scans : jobStatus[s] \in {"COMPLETED", "FAILED"} =>
        /\ jobStatus'[s] = jobStatus[s]
        /\ scanStatus'[s] = scanStatus[s]
        /\ attempts'[s] = attempts[s]
        /\ rows'[s] = rows[s]
        /\ sha'[s] = sha[s]
        /\ stamp'[s] = stamp[s]

OlderAnswers ==
    \A x \in Shas, v \in Versions : CompletedWith(x, v) # {} =>
        /\ CompletedWith(x, v)' # {}
        /\ Oldest(CompletedWith(x, v)') <= Oldest(CompletedWith(x, v))

\* A scan that has ended is never touched again: not requeued, not failed,
\* its findings and identity not rewritten - whatever a worker that lost the
\* answer to its commit still tries (the assert_transition in _fail).
EndedIsForever == [][EndedStays]_vars

\* "The original run is the canonical one": over time, the scan that answers
\* an identity is only ever replaced by an older one.
CanonicalOnlyGetsOlder == [][OlderAnswers]_vars

\* Finished scans whose findings are those of the commit the request names, in
\* whatever spelling, and whose version columns are those of its build.
Reusable(r) ==
    {s \in Scans : /\ scanStatus[s] = "COMPLETED"
                   /\ rows[s] # None
                   /\ rows[s][1] = Resolve(rsha[r])
                   /\ stamp[s] = engine[rproc[r]]}

\* A submission by the full SHA is queued again only if no scan of that commit
\* has completed under the build's versions, however the earlier client spelt
\* the SHA: the worker writes the full one back.  A submission by an
\* abbreviated SHA never profits, although CACHE_BEHAVIOR.md:28 says the
\* re-submission of the same commit is answered from the cache.
OnlyShortShasMiss ==
    \A r \in Requests : rpc[r] = "lookup" /\ rpc'[r] = "capacity" =>
        Reusable(r) = {} \/ rsha[r] \notin Commits

CompletedCommitHits == [][OnlyShortShasMiss]_vars

\* The worker and the endpoint implement the job lifecycle of scan_jobs.py.
Jobs == INSTANCE ScanJobs WITH status <- jobStatus

ImplementsScanJobs == Jobs!Spec

-----------------------------------------------------------------------------
(* Liveness *)

\* Every scan accepted is eventually COMPLETED or FAILED.
AcceptedScansEnd ==
    \A s \in Scans :
        jobStatus[s] = "QUEUED" ~> jobStatus[s] \in {"COMPLETED", "FAILED"}

\* Every request is answered.
RequestsAnswered == \A r \in Requests : rpc[r] # "idle" ~> rpc[r] = "idle"

-----------------------------------------------------------------------------
(* Statements of the documentation that the code does not keep; each has a *)
(* run that shows how.                                                     *)

\* config.py:37: "Bound on scans that are QUEUED or RUNNING at once ... past
\* this a submission is rejected".
InFlightLimitKept == Cardinality(InFlight) <= MaxInFlightScans

\* Readiness report, section 20: after a restart "a stuck job retries up to
\* its cap then -> FAILED".
RunningJobsEnd ==
    \A s \in Scans : jobStatus[s] = "RUNNING" ~> jobStatus[s] # "RUNNING"

=============================================================================
