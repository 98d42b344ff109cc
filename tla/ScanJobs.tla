------------------------------ MODULE ScanJobs ------------------------------
(***************************************************************************)
(* What the lifecycle of a scan job promises, as stated by                 *)
(* app/services/scan_jobs.py before any worker exists: the legal moves, the *)
(* attempt budget and the terminal statuses.  One job per scan, named by   *)
(* the scan.  The worker (ScanSystem) is shown to implement this module.   *)
(***************************************************************************)
EXTENDS Naturals

CONSTANTS
    Scans,        \* names of the scans that may ever be submitted
    MaxAttempts   \* ScanJob.max_attempts (DEFAULT_MAX_ATTEMPTS = 3)

VARIABLES
    status,    \* status[s]: status of the job of s, "NONE" before it exists
    attempts   \* attempts[s]: attempt_count of the job of s

jobVars == <<status, attempts>>

LegalTransitions ==
    {<<"QUEUED", "RUNNING">>, <<"QUEUED", "CANCELLED">>,
     <<"RUNNING", "COMPLETED">>, <<"RUNNING", "FAILED">>,
     <<"RUNNING", "QUEUED">>, <<"RUNNING", "CANCELLED">>}

ShouldRetry(n) == n < MaxAttempts

-----------------------------------------------------------------------------

Init ==
    /\ status = [s \in Scans |-> "NONE"]
    /\ attempts = [s \in Scans |-> 0]

\* A job moves only along a row of LegalTransitions (assert_transition).
Move(s, target) ==
    /\ <<status[s], target>> \in LegalTransitions
    /\ status' = [status EXCEPT ![s] = target]

Enqueue(s) ==
    /\ status[s] = "NONE"
    /\ status' = [status EXCEPT ![s] = "QUEUED"]
    /\ UNCHANGED attempts

\* Claiming is what spends an attempt.
Claim(s) ==
    /\ Move(s, "RUNNING")
    /\ attempts' = [attempts EXCEPT ![s] = @ + 1]

Complete(s) == Move(s, "COMPLETED") /\ UNCHANGED attempts

Retry(s) == ShouldRetry(attempts[s]) /\ Move(s, "QUEUED") /\ UNCHANGED attempts

Exhaust(s) == ~ShouldRetry(attempts[s]) /\ Move(s, "FAILED") /\ UNCHANGED attempts

\* Legal, though no caller in the repository cancels a job yet.
Cancel(s) == Move(s, "CANCELLED") /\ UNCHANGED attempts

Next ==
    \E s \in Scans :
        \/ Enqueue(s)
        \/ Claim(s)
        \/ Complete(s)
        \/ Retry(s)
        \/ Exhaust(s)
        \/ Cancel(s)

Spec == Init /\ [][Next]_jobVars

=============================================================================
