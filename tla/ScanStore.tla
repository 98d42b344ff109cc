----------------------------- MODULE ScanStore ------------------------------
(***************************************************************************)
(* The state the submission endpoint and the worker share: the scans and   *)
(* scan_jobs tables with the rows persisted for a scan (app/db/models),    *)
(* and the server processes, each of which runs the API and one worker     *)
(* loop over one build of the engine (app/main.py).                        *)
(*                                                                         *)
(* A scan and its job are created together and never deleted, so both are  *)
(* named by one identifier: its rank in the order of (created_at, id).     *)
(* A commit stands for (provider, owner, name, full SHA), an engine version *)
(* for the triple (parser, ruleset, pqc ruleset).                          *)
(***************************************************************************)
EXTENDS Naturals, FiniteSets

CONSTANTS
    MaxScans,      \* bound on the scans ever submitted
    MaxAttempts,   \* ScanJob.max_attempts
    Commits,       \* commits that exist upstream, by full SHA
    Versions,      \* engine builds that may be deployed
    Procs,         \* server processes over the one database
    MaxStops,      \* bound on crashes and shutdowns
    MaxDbFaults,   \* bound on database calls that fail or lose their answer
    None           \* absent value

Scans == 1..MaxScans

\* A submitted SHA is a full one or an abbreviation of it (7 to 40 digits).
Abbrev(c) == <<"short", c>>
Shas == Commits \cup {Abbrev(c) : c \in Commits}

\* The commit the provider resolves a SHA to.
Resolve(x) == IF x \in Commits THEN x ELSE x[2]

\* Findings persisted for a scan: the commit analysed, the build that did it.
RowSets == Commits \X Versions

ASSUME StoreAssumption ==
    /\ MaxScans \in Nat
    /\ MaxAttempts \in Nat \ {0}
    /\ MaxStops \in Nat
    /\ MaxDbFaults \in Nat
    /\ Commits \cap {Abbrev(c) : c \in Commits} = {}
    /\ None \notin Scans
    /\ None \notin Shas
    /\ None \notin Versions
    /\ None \notin Procs
    /\ None \notin RowSets

Statuses == {"NONE", "QUEUED", "RUNNING", "COMPLETED", "FAILED"}

VARIABLES
    scanStatus,   \* Scan.status, "NONE" until the row is inserted
    sha,          \* Scan.commit_sha
    stamp,        \* Scan.{parser,ruleset,pqc_ruleset}_version
    rows,         \* committed findings of the scan, None if there are none
    jobStatus,    \* ScanJob.status
    attempts,     \* ScanJob.attempt_count
    lockedBy,     \* ScanJob.locked_by
    phase,        \* phase[p]: "up", "stopping" (lifespan left) or "down"
    engine,       \* engine[p]: engine_versions() of the running build
    stops,        \* crashes and shutdowns so far (model bound)
    dbFaults      \* database faults so far (model bound)

scanVars == <<scanStatus, sha, stamp, rows>>
lockVars == <<jobStatus, attempts, lockedBy>>
procVars == <<phase, engine, stops>>
storeVars == <<scanVars, lockVars, procVars, dbFaults>>

StoreTypeOK ==
    /\ scanStatus \in [Scans -> Statuses]
    /\ sha \in [Scans -> Shas \cup {None}]
    /\ stamp \in [Scans -> Versions \cup {None}]
    /\ rows \in [Scans -> RowSets \cup {None}]
    /\ jobStatus \in [Scans -> Statuses]
    /\ attempts \in [Scans -> 0..MaxAttempts]
    /\ lockedBy \in [Scans -> Procs \cup {None}]
    /\ phase \in [Procs -> {"up", "stopping", "down"}]
    /\ engine \in [Procs -> Versions]
    /\ stops \in 0..MaxStops
    /\ dbFaults \in 0..MaxDbFaults

StoreInit ==
    /\ scanStatus = [s \in Scans |-> "NONE"]
    /\ sha = [s \in Scans |-> None]
    /\ stamp = [s \in Scans |-> None]
    /\ rows = [s \in Scans |-> None]
    /\ jobStatus = [s \in Scans |-> "NONE"]
    /\ attempts = [s \in Scans |-> 0]
    /\ lockedBy = [s \in Scans |-> None]
    /\ phase = [p \in Procs |-> "up"]
    /\ \E v \in Versions : engine = [p \in Procs |-> v]
    /\ stops = 0
    /\ dbFaults = 0

-----------------------------------------------------------------------------

\* Defect for CanonicalOnlyGetsOlder: newest first.
Newest(S) == CHOOSE s \in S : \A t \in S : s >= t

\* ORDER BY created_at, id ... LIMIT 1
Oldest(S) == CHOOSE s \in S : \A t \in S : s <= t

\* What _assert_in_flight_capacity counts.
InFlight == {s \in Scans : scanStatus[s] \in {"QUEUED", "RUNNING"}}

\* Defect for CachedAnswerIsRight: the version columns are not compared.
CompletedUnderAnyBuild(x, v) ==
    {s \in Scans : scanStatus[s] = "COMPLETED" /\ sha[s] = x}

\* Rows that find_completed_scan matches for one identity, oldest first.
CompletedWith(x, v) ==
    {s \in Scans : /\ scanStatus[s] = "COMPLETED"
                   /\ sha[s] = x
                   /\ stamp[s] = v}

\* A database call that raises, or whose answer is lost.
DbFault == dbFaults < MaxDbFaults /\ dbFaults' = dbFaults + 1

=============================================================================
