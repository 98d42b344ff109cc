---------------------------- MODULE ScanHistory -----------------------------
(***************************************************************************)
(* ScanSystem with a memory of deployments.  The look-up of a cached scan   *)
(* compares the version columns, which the endpoint fills when the scan is  *)
(* submitted; the findings come from whichever build claims the job.  The   *)
(* two are one build unless a deployment overlapped the scan, and overlapped *)
(* remembers which scans that happened to.  It constrains nothing.          *)
(***************************************************************************)
EXTENDS ScanSystem

VARIABLE
    overlapped   \* scans that were QUEUED or RUNNING beside another build

historyVars == <<vars, overlapped>>

\* A process of a build other than the one the scan was submitted to.
OtherBuildRuns(s) ==
    \E p \in Procs : phase[p] # "down" /\ engine[p] # stamp[s]

Remember ==
    overlapped' = overlapped \cup
        {s \in Scans : jobStatus'[s] \in {"QUEUED", "RUNNING"} /\ OtherBuildRuns(s)'}

HistorySpec ==
    /\ Init /\ overlapped = {}
    /\ [][Next /\ Remember]_historyVars

-----------------------------------------------------------------------------

\* A cached answer is a finished scan of the commit asked for, and the build
\* that serves the request is the one its findings come from - unless a
\* process of another build was running while the scan was QUEUED or RUNNING,
\* in which case that build may have claimed the job and only the version
\* columns agree.  ("Two scans that share all seven parts must produce the
\* same findings", scan_cache.py:4; the columns of db/models/scan.py:36.)
CachedAnswerIsRight ==
    \A r \in Requests : rpc[r] = "cached" =>
        /\ scanStatus[rscan[r]] = "COMPLETED"
        /\ rows[rscan[r]] # None
        /\ rows[rscan[r]][1] = Resolve(rsha[r])
        /\ rows[rscan[r]][2] = engine[rproc[r]] \/ rscan[r] \in overlapped

-----------------------------------------------------------------------------
(* What makes it inductive, beside IInv *)

WorkersAreOfRunningProcesses == \A p \in Procs : wpc[p] # "idle" => phase[p] # "down"

OneBuildWhileOpen ==
    \A s \in Scans : jobStatus[s] \in {"QUEUED", "RUNNING"} /\ s \notin overlapped =>
        ~OtherBuildRuns(s)

PendingIsOfTheBuild ==
    \A p \in Procs : wpc[p] = "flushed" /\ wjob[p] \notin overlapped =>
        pending[p][2] = stamp[wjob[p]]

RowsAreOfTheBuild ==
    \A s \in Scans : jobStatus[s] = "COMPLETED" /\ s \notin overlapped =>
        rows[s][2] = stamp[s]

HistoryInv ==
    /\ WorkersAreOfRunningProcesses
    /\ OneBuildWhileOpen
    /\ PendingIsOfTheBuild
    /\ RowsAreOfTheBuild

=============================================================================
