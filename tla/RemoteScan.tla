----------------------------- MODULE RemoteScan -----------------------------
(***************************************************************************)
(* The commands of cli/main.py from start to exit, over cli/client.py.  The *)
(* server they talk to is what ScanJobs promises of one scan, with the     *)
(* pages of list_findings_page.  A finding is its priority rank.           *)
(***************************************************************************)
EXTENDS Integers, Sequences, FiniteSets, SequencesExt

CONSTANTS
    MaxAttempts,
    Ranks,          \* of PRIORITY_RANK
    MaxFindings,    \* bound: findings of the scan
    PageSize,
    Timeout, PollInterval,
    Latency,        \* the longest a request takes: an assumption about the server,
                    \* httpx bounds the connect, the write and each read only
    None

ASSUME RemoteAssumption ==
    /\ MaxAttempts \in Nat \ {0}
    /\ Ranks \subseteq 0..4 /\ MaxFindings \in Nat
    /\ PageSize \in Nat \ {0} /\ PollInterval \in Nat \ {0}
    /\ Timeout \in Nat /\ Latency \in Nat

Active == {"QUEUED", "RUNNING"}
Outcomes == {"ok", "findings", "usage", "failure", "not_found", "scan_failed", "timeout",
             "traceback", "interrupted"}

ASSUME NoneAssumption ==
    /\ None \notin Active \cup {"COMPLETED", "FAILED"} /\ None \notin Outcomes
    /\ None \notin Int

Scan == "scan"

VARIABLES
    cmd, rows,          \* the arguments, and the findings of the scan, by score
    status, attempts,   \* the job, as in ScanJobs
    phase,
    seen,               \* the status the client knows
    read,               \* the status a request under way has read
    left,               \* time to the deadline
    timer,              \* left of the sleep, or spent on the request
    spare,              \* history: time that was left when the scan ended
    page, todo, fetched,
    outcome

vars == <<cmd, rows, status, attempts, phase, seen, read, left, timer, spare, page, todo,
          fetched, outcome>>
job == <<status, attempts>>
paging == <<page, todo, fetched>>
waiting == <<seen, read, left, timer>>

Server == INSTANCE ScanJobs WITH Scans <- {Scan}

Rank == [low |-> 1, medium |-> 2, high |-> 3, never |-> 999]

\* _fail_on_threshold: no rank reaches that of "never".
AtLeast(rank, token) == rank >= Rank[token]

Attention(found, token) == \E i \in DOMAIN found : AtLeast(rows[found[i]], token)

OneShots == {"scan-status", "findings", "finding", "review-queue", "review-update"}

Commands ==
    [name : {"scan"}, commit : BOOLEAN, wait : BOOLEAN, failOn : DOMAIN Rank]
        \cup [name : {"local"}, commit : BOOLEAN, wait : {TRUE}, failOn : DOMAIN Rank]
        \cup [name : {"diff"}, commit : {TRUE}, wait : {TRUE}, failOn : {"low", "never"}]
        \cup [name : OneShots \cup {"demo"}, commit : {TRUE}, wait : {TRUE}, failOn : {"never"}]

\* One page holds the worst findings, the next ones those that are no worse.
ByScore == {r \in BoundedSeq(Ranks, MaxFindings) :
                \A i \in 1..(Len(r) - 1) : r[i] >= r[i + 1]}

Init ==
    /\ cmd \in Commands /\ rows \in ByScore
    /\ status \in IF cmd.name \in OneShots
                  THEN [{Scan} -> {"QUEUED", "COMPLETED", "FAILED"}]
                  ELSE [{Scan} -> {"NONE", "COMPLETED"}]   \* COMPLETED: cached
    /\ attempts = [s \in {Scan} |->
                      CASE status[s] = "FAILED" -> MaxAttempts
                        [] status[s] = "COMPLETED" -> 1
                        [] OTHER -> 0]
    /\ phase = "start"
    /\ seen = None /\ read = None /\ left = Timeout /\ timer = 0 /\ spare = None
    /\ page = 1 /\ todo = << >> /\ fetched = << >>
    /\ outcome = None

Exit(why) == phase' = "over" /\ outcome' = why

\* _request: an error of the transport, an answer of 400 and more, or one of 200
\* that is not JSON, which nothing catches.
Fails ==
    /\ \E why \in {"failure", "not_found", "traceback"} : Exit(why)
    /\ UNCHANGED <<cmd, rows, job, waiting, spare, paging>>

-----------------------------------------------------------------------------
\* The commands without a loop

\* A review-update without a field is a usage error and asks nothing; finding
\* with a domain drops the error of the assessment.
OneShot ==
    /\ phase = "start" /\ cmd.name \in OneShots
    /\ \/ Fails
       \/ /\ cmd.name = "review-update" /\ Exit("usage")
          /\ UNCHANGED <<cmd, rows, job, waiting, spare, paging>>
       \/ /\ Exit(IF cmd.name = "scan-status" /\ status[Scan] = "FAILED"
                  THEN "scan_failed" ELSE "ok")
          /\ UNCHANGED <<cmd, rows, job, waiting, spare, paging>>

\* local_analysis raises a CliError, or the folded findings are compared with
\* the threshold.  A diff compares with whether there are new ones.
Local ==
    /\ phase = "start" /\ cmd.name \in {"local", "diff"}
    /\ \/ \E why \in {"usage", "scan_failed"} : Exit(why)
       \/ /\ cmd.name = "local"
          /\ Exit(IF Attention([i \in DOMAIN rows |-> i], cmd.failOn)
                  THEN "findings" ELSE "ok")
       \/ /\ cmd.name = "diff"
          /\ \E new \in BOOLEAN :
                 Exit(IF new /\ cmd.failOn # "never" THEN "findings" ELSE "ok")
    /\ UNCHANGED <<cmd, rows, job, waiting, spare, paging>>

-----------------------------------------------------------------------------
\* Submitting a scan and waiting for it

Remote == cmd.name \in {"scan", "demo"}

NoCommit ==
    /\ phase = "start" /\ Remote /\ ~cmd.commit
    /\ Exit("usage")
    /\ UNCHANGED <<cmd, rows, job, waiting, spare, paging>>

\* POST /scans: cached, or queued.  The deadline is set when it has answered.
Create ==
    /\ phase = "start" /\ Remote /\ cmd.commit
    /\ IF status[Scan] = "NONE" THEN Server!Enqueue(Scan) ELSE UNCHANGED job
    /\ seen' = status'[Scan]
    /\ IF cmd.wait THEN phase' = "check" /\ UNCHANGED outcome ELSE Exit("ok")
    /\ spare' = IF status'[Scan] = "COMPLETED" THEN left ELSE spare
    /\ UNCHANGED <<cmd, rows, read, left, timer, paging>>

\* create_scan catches ConnectError only: when the answer does not come in time,
\* the exception goes up to the interpreter, whether or not the scan was queued.
CreateFails ==
    /\ phase = "start" /\ Remote /\ cmd.commit
    /\ \/ Fails
       \/ /\ Exit("traceback")
          /\ \/ UNCHANGED job
             \/ Server!Enqueue(Scan)
          /\ UNCHANGED <<cmd, rows, waiting, spare, paging>>

TimeUp == left < 0

\* Defect for DeadlineKept: the deadline counts for the poll to come.
CheckAhead ==
    /\ phase = "check" /\ seen \in Active
    /\ IF left < PollInterval
       THEN Exit("timeout") /\ UNCHANGED timer
       ELSE phase' = "sleep" /\ timer' = PollInterval /\ UNCHANGED outcome
    /\ UNCHANGED <<cmd, rows, job, seen, read, left, spare, paging>>

\* The head of the loop.
Check ==
    /\ phase = "check" /\ seen \in Active
    /\ IF TimeUp
       THEN Exit("timeout") /\ UNCHANGED timer
       ELSE phase' = "sleep" /\ timer' = PollInterval /\ UNCHANGED outcome
    /\ UNCHANGED <<cmd, rows, job, seen, read, left, spare, paging>>

Wake ==
    /\ phase = "sleep" /\ timer = 0
    /\ phase' = "get" /\ read' = None
    /\ UNCHANGED <<cmd, rows, job, seen, left, timer, spare, paging, outcome>>

ServerReads ==
    /\ phase = "get" /\ read = None
    /\ read' = status[Scan]
    /\ UNCHANGED <<cmd, rows, job, phase, seen, left, timer, spare, paging, outcome>>

\* Defect for EventuallyExits: the deadline is set in the loop.
AnswerRenews ==
    /\ phase = "get" /\ read # None
    /\ seen' = read
    /\ phase' = "check" /\ timer' = 0 /\ left' = Timeout
    /\ UNCHANGED <<cmd, rows, job, read, spare, paging, outcome>>

Answer ==
    /\ phase = "get" /\ read # None
    /\ seen' = read
    /\ phase' = "check" /\ timer' = 0
    /\ UNCHANGED <<cmd, rows, job, read, left, spare, paging, outcome>>

GetFails == phase = "get" /\ Fails

\* After the loop: a failed scan ends the command, any other is taken as done.
Waited ==
    /\ phase = "check" /\ seen \notin Active
    /\ IF seen = "FAILED" THEN Exit("scan_failed")
       ELSE /\ phase' = IF cmd.name = "demo" THEN "sample" ELSE "list"
            /\ UNCHANGED outcome
    /\ UNCHANGED <<cmd, rows, job, waiting, spare, paging>>

-----------------------------------------------------------------------------
\* Reading the findings

\* Defect for ReportTellsTheOutcome: rounded down.
PagesDown(n) == IF n < PageSize THEN 1 ELSE n \div PageSize

\* pages of the envelope.
Pages(n) == IF n = 0 THEN 1 ELSE (n + PageSize - 1) \div PageSize

\* The rows of a page, by OFFSET and LIMIT over a fixed order.
OnPage(p) ==
    LET last == IF p * PageSize < Len(rows) THEN p * PageSize ELSE Len(rows)
        first == (p - 1) * PageSize
    IN IF last <= first THEN << >> ELSE [i \in 1..(last - first) |-> first + i]

IsLast == page >= Pages(Len(rows))

Concluded ==
    Exit(IF Attention(fetched', cmd.failOn) THEN "findings" ELSE "ok")

TurnedOrDone(items) ==
    IF IsLast \/ items = << >>
    THEN Concluded /\ UNCHANGED page
    ELSE page' = page + 1 /\ phase' = "list" /\ UNCHANGED outcome

List ==
    /\ phase = "list"
    /\ todo' = OnPage(page)
    /\ UNCHANGED fetched
    /\ IF OnPage(page) = << >> THEN TurnedOrDone(<< >>)
       ELSE phase' = "detail" /\ UNCHANGED <<page, outcome>>
    /\ UNCHANGED <<cmd, rows, job, waiting, spare>>

Detail ==
    /\ phase = "detail"
    /\ fetched' = Append(fetched, Head(todo))
    /\ todo' = Tail(todo)
    /\ IF Len(todo) = 1 THEN TurnedOrDone(todo) ELSE UNCHANGED <<page, phase, outcome>>
    /\ UNCHANGED <<cmd, rows, job, waiting, spare>>

\* demo: a sample of the findings, of the candidates and the queue.
Samples == 3
Sample ==
    /\ phase = "sample"
    /\ IF page = Samples THEN Exit("ok") /\ UNCHANGED page
       ELSE page' = page + 1 /\ UNCHANGED <<phase, outcome>>
    /\ UNCHANGED <<cmd, rows, job, waiting, spare, todo, fetched>>

ReadFails == phase \in {"list", "detail", "sample"} /\ Fails

-----------------------------------------------------------------------------
Interrupt ==
    /\ phase # "over"
    /\ Exit("interrupted")
    /\ UNCHANGED <<cmd, rows, job, waiting, spare, paging>>

\* The time that counts passes in a sleep and in a request, and no faster than
\* they are over: the client is not held up elsewhere.  left stops at the first
\* value that is too late.
TooLate == 0 - (PollInterval + Latency + 1)

Tick ==
    /\ \/ phase = "sleep" /\ timer > 0 /\ timer' = timer - 1
       \/ phase = "get" /\ timer < Latency /\ timer' = timer + 1
    /\ left' = IF left > TooLate THEN left - 1 ELSE left
    /\ UNCHANGED <<cmd, rows, job, phase, seen, read, spare, paging, outcome>>

\* What the worker does to the scan; nobody cancels one.
ServerWorks ==
    /\ \/ Server!Claim(Scan) \/ Server!Complete(Scan)
       \/ Server!Retry(Scan) \/ Server!Exhaust(Scan)
    /\ spare' = IF status'[Scan] \in {"COMPLETED", "FAILED"} THEN left ELSE spare
    /\ UNCHANGED <<cmd, rows, phase, waiting, paging, outcome>>

Step ==
    \/ OneShot \/ Local \/ NoCommit \/ Create \/ CreateFails
    \/ Check \/ Wake \/ ServerReads \/ Answer \/ GetFails \/ Waited
    \/ List \/ Detail \/ Sample \/ ReadFails
    \/ Tick

Next == Step \/ Interrupt \/ ServerWorks

Spec == Init /\ [][Next]_vars

\* The process runs and every request ends, within Latency; that the worker of
\* the server ever works is not assumed.
FairSpec == Spec /\ WF_vars(Step)

-----------------------------------------------------------------------------
Waits == cmd.name = "scan" /\ cmd.wait
\* EXIT_*: a demo that gives up is a failure, a scan is one of the scan.
Code ==
    CASE outcome = "ok" -> 0
      [] outcome = "usage" -> 2
      [] outcome = "not_found" -> 4
      [] outcome = "scan_failed" \/ (outcome = "timeout" /\ cmd.name = "scan") -> 3
      [] OTHER -> 1

\* Type invariant.
TypeOK ==
    /\ phase \in {"start", "check", "sleep", "get", "list", "detail", "sample", "over"}
    /\ seen \in Active \cup {"COMPLETED", "FAILED", None}
    /\ left \in TooLate..Timeout
    /\ timer \in 0..(PollInterval + Latency)
    /\ page \in 1..(IF cmd.name = "demo" THEN Samples ELSE Pages(Len(rows)))
    /\ outcome \in Outcomes \cup {None}
    /\ (phase = "over") = (outcome # None)

\* The exit code of a scan that was waited for says what the server knows: 0 that
\* it completed and no finding of any page reaches --fail-on, 3 without a timeout
\* that it failed, and findings are reported only when there are some.
ExitTellsTheOutcome ==
    Waits /\ phase = "over" =>
        /\ Code = 0 => status[Scan] = "COMPLETED"
                       /\ \A i \in DOMAIN rows : rows[i] < Rank[cmd.failOn]
        /\ outcome = "findings" => \E i \in DOMAIN rows : rows[i] >= Rank[cmd.failOn]
        /\ Code = 3 /\ outcome # "timeout" => status[Scan] = "FAILED"

\* A report lists every finding of the scan exactly once, however they fall on
\* pages.
EveryFindingOnce ==
    Waits /\ phase = "over" /\ outcome \in {"ok", "findings"} =>
        /\ Len(fetched) = Len(rows)
        /\ ToSet(fetched) = DOMAIN rows

\* A client gives up within one poll and one request of its deadline.
GivesUpInTime == phase \in {"sleep", "get"} => left >= 0 - (PollInterval + Latency)

\* A scan that ended before the deadline, by what a request takes, is not reported
\* as one that did not finish: the last poll ends after the deadline.
FinishedInTimeIsSeen == outcome = "timeout" /\ spare # None => spare < Latency

\* The report is complete and the exit code is its verdict.
ReportTellsTheOutcome == ExitTellsTheOutcome /\ EveryFindingOnce

\* The deadline is kept on both sides: nobody waits much longer, and nobody gives
\* up on a scan that was done in time.
DeadlineKept == TypeOK /\ GivesUpInTime /\ FinishedInTimeIsSeen

\* As long as its requests end, the command does, even when the scan never does.
EventuallyExits == <>(phase = "over")

=============================================================================
