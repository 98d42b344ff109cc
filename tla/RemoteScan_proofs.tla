-------------------------- MODULE RemoteScan_proofs -------------------------
(***************************************************************************)
(* The commands of the CLI against any server: for any timeout, interval   *)
(* and latency the deadline is kept on both sides, and for any number of   *)
(* findings and any page size the report is complete and its exit code the *)
(* verdict.  Three invariants, each with a lemma that every step keeps it: *)
(* what is known of the job, what time has passed, what has been read.     *)
(***************************************************************************)
EXTENDS RemoteScan, TLAPS

Ended == {"COMPLETED", "FAILED"}

\* What the client holds for ended has ended that way.
JobInv ==
    /\ DOMAIN status = {Scan}
    /\ phase \in {"start", "check", "sleep", "get", "list", "detail", "sample", "over"}
    /\ status[Scan] \in {"NONE"} \cup Active \cup Ended
    /\ phase \notin {"start", "over"} => status[Scan] # "NONE" /\ seen # None
    /\ seen \in Active \cup Ended \cup {None} /\ read \in Active \cup Ended \cup {None}
    /\ seen \in Ended => status[Scan] = seen
    /\ read \in Ended => status[Scan] = read
    /\ spare # None => status[Scan] \in Ended
    /\ phase \in {"list", "detail", "sample"} => seen = "COMPLETED"
    /\ phase \in {"sleep", "get"} => seen \in Active

-----------------------------------------------------------------------------
(* The job and what is known of it *)

\* Nothing that is known is None.
LEMMA Known == /\ None \notin Active /\ None \notin Ended
               /\ \A x \in Active : x \notin Ended /\ x # "NONE"
               /\ \A x \in Ended : x # "NONE"
BY NoneAssumption DEF Active, Ended

LEMMA JobInit == Init => JobInv
<1> SUFFICES ASSUME Init PROVE JobInv
    OBVIOUS
<1>1. /\ DOMAIN status = {Scan} /\ status[Scan] \in {"NONE", "QUEUED", "COMPLETED", "FAILED"}
    BY DEF Init
<1>2. /\ phase = "start" /\ seen = None /\ read = None /\ spare = None
    BY DEF Init
<1> QED BY <1>1, <1>2, Known DEF JobInv, Active, Ended

\* Submitting.
LEMMA EnqueueJob ==
    ASSUME JobInv, Server!Enqueue(Scan)
    PROVE  DOMAIN status' = {Scan} /\ status'[Scan] = "QUEUED" /\ status[Scan] = "NONE"
BY DEF JobInv, Server!Enqueue

\* The worker moves only a job that is active.
LEMMA WorkerJob ==
    ASSUME JobInv, ServerWorks
    PROVE  /\ DOMAIN status' = {Scan} /\ status'[Scan] \in Active \cup Ended
           /\ status[Scan] \in Active
           /\ spare' = IF status'[Scan] \in Ended THEN left ELSE spare
           /\ UNCHANGED <<cmd, rows, phase, waiting, paging, outcome>>
<1>1. PICK target \in {"RUNNING", "COMPLETED", "QUEUED", "FAILED"} : Server!Move(Scan, target)
    BY DEF ServerWorks, Server!Claim, Server!Complete, Server!Retry, Server!Exhaust
<1>2. status[Scan] \in Active
    BY <1>1 DEF Server!Move, Server!LegalTransitions, Active
<1>3. DOMAIN status' = {Scan} /\ status'[Scan] = target
    BY <1>1 DEF JobInv, Server!Move
<1>4. status'[Scan] \in Active \cup Ended
    BY <1>1, <1>3 DEF Active, Ended
<1> QED BY <1>2, <1>3, <1>4 DEF ServerWorks, Ended

LEMMA JobStep == JobInv /\ [Next]_vars => JobInv'
<1> SUFFICES ASSUME JobInv, [Next]_vars PROVE JobInv'
    OBVIOUS
<1>1. CASE ServerWorks
    <2>1. UNCHANGED <<phase, seen, read>>
        BY <1>1, WorkerJob DEF waiting
    <2>2. seen \notin Ended /\ read \notin Ended /\ spare = None
        BY <1>1, WorkerJob, Known DEF JobInv
    <2> QED BY <1>1, <2>1, <2>2, WorkerJob, Known DEF JobInv
<1>2. CASE Create
    <2>1. CASE status[Scan] = "NONE"
        <3>1. /\ DOMAIN status' = {Scan} /\ status'[Scan] = "QUEUED" /\ seen' = "QUEUED"
              /\ UNCHANGED <<read, spare>> /\ phase' \in {"check", "over"} /\ phase = "start"
            BY <1>2, <2>1, EnqueueJob DEF Create, Exit
        <3>2. read \notin Ended /\ spare = None
            BY <2>1, Known DEF JobInv
        <3> QED BY <3>1, <3>2, Known DEF JobInv, Active, Ended
    <2>2. CASE status[Scan] # "NONE"
        <3>1. /\ UNCHANGED <<status, read>> /\ seen' = status[Scan]
              /\ phase' \in {"check", "over"} /\ phase = "start"
              /\ spare' = IF status[Scan] = "COMPLETED" THEN left ELSE spare
            BY <1>2, <2>2 DEF Create, Exit, job
        <3> QED BY <2>2, <3>1, Known DEF JobInv, Ended
    <2> QED BY <2>1, <2>2
<1>3. CASE CreateFails
    <2>1. CASE UNCHANGED status
        BY <1>3, <2>1 DEF CreateFails, Fails, Exit, waiting, JobInv
    <2>2. CASE Server!Enqueue(Scan)
        <3>1. /\ DOMAIN status' = {Scan} /\ status'[Scan] = "QUEUED" /\ status[Scan] = "NONE"
              /\ UNCHANGED <<seen, read, spare>> /\ phase' = "over"
            BY <1>3, <2>2, EnqueueJob DEF CreateFails, Fails, Exit, waiting
        <3>2. seen \notin Ended /\ read \notin Ended /\ spare = None
            BY <3>1, Known DEF JobInv
        <3> QED BY <3>1, <3>2 DEF JobInv, Active
    <2> QED BY <1>3, <2>1, <2>2 DEF CreateFails, Fails, job
<1>4. CASE OneShot \/ Local \/ NoCommit \/ GetFails \/ ReadFails \/ Interrupt
    BY <1>4 DEF OneShot, Local, NoCommit, GetFails, ReadFails, Interrupt, Fails, Exit, job, waiting,
                JobInv
<1>5. CASE Check \/ Wake \/ ServerReads \/ Answer
    BY <1>5, Known DEF Check, Wake, ServerReads, Answer, Exit, job, JobInv
<1>6. CASE Waited
    <2>1. /\ UNCHANGED <<status, seen, read, spare>> /\ phase = "check" /\ seen \in Ended
          /\ phase' \in {"over", "list", "sample"} /\ (phase' # "over" => seen # "FAILED")
        BY <1>6, Known DEF Waited, Exit, job, waiting, JobInv
    <2> QED BY <2>1 DEF JobInv, Ended
<1>7. CASE List \/ Detail \/ Sample \/ Tick
    <2>1. /\ UNCHANGED <<status, seen, read, spare>>
          /\ \/ phase' = phase
             \/ phase' \in {"list", "detail", "over"} /\ phase \in {"list", "detail", "sample"}
        BY <1>7 DEF List, Detail, Sample, Tick, TurnedOrDone, Concluded, Exit, job, waiting
    <2> QED BY <2>1 DEF JobInv
<1>8. CASE UNCHANGED vars
    BY <1>8 DEF vars, JobInv
<1> QED BY <1>1, <1>2, <1>3, <1>4, <1>5, <1>6, <1>7, <1>8 DEF Next, Step

-----------------------------------------------------------------------------
(* Time *)

\* What is left, and how far what the client knows lies back: a request that has
\* read an active job was made when the scan had not ended.
TimeInv ==
    /\ left \in Int /\ TooLate <= left /\ left <= Timeout
    /\ timer \in Nat /\ timer <= PollInterval + Latency
    /\ phase = "sleep" => timer <= PollInterval /\ left >= timer - PollInterval
    /\ phase = "get" => timer <= Latency /\ left >= 0 - PollInterval - timer
    /\ spare # None => spare \in Int
    /\ phase = "get" /\ read \in Active /\ spare # None => spare <= left + timer
    /\ phase = "check" /\ seen \in Active /\ spare # None => spare <= left + Latency
    /\ outcome = "timeout" => phase = "over" /\ left < 0
    /\ outcome = "timeout" /\ spare # None => spare < Latency

LEMMA TimeFacts ==
    /\ Timeout \in Nat /\ Latency \in Nat /\ PollInterval \in Nat
    /\ TooLate \in Int /\ TooLate = 0 - (PollInterval + Latency + 1)
    /\ None # "timeout" /\ None \notin Int
BY RemoteAssumption, NoneAssumption DEF TooLate, Outcomes

LEMMA TimeInit == Init => TimeInv
<1> SUFFICES ASSUME Init PROVE TimeInv
    OBVIOUS
<1>1. /\ left = Timeout /\ timer = 0 /\ spare = None /\ phase = "start" /\ outcome = None
    BY DEF Init
<1> QED BY <1>1, TimeFacts DEF TimeInv

\* Leaving, but not for the deadline.
LEMMA TimeExit ==
    ASSUME TimeInv, NEW why, why # "timeout", Exit(why), UNCHANGED <<left, timer>>,
           spare' = spare \/ spare' = left
    PROVE  TimeInv'
BY DEF TimeInv, Exit

LEMMA TimeStep == JobInv /\ TimeInv /\ [Next]_vars => TimeInv'
<1> SUFFICES ASSUME JobInv, TimeInv, [Next]_vars PROVE TimeInv'
    OBVIOUS
<1>1. CASE ServerWorks
    <2>1. UNCHANGED <<phase, outcome, seen, read, left, timer>> /\ (spare' = left \/ spare' = spare)
        BY <1>1, WorkerJob DEF waiting
    <2> QED BY <2>1, TimeFacts DEF TimeInv
<1>2. CASE Create
    <2>1. /\ UNCHANGED <<left, timer, read>> /\ (spare' = left \/ spare' = spare)
          /\ phase = "start"
        BY <1>2 DEF Create
    <2>2. CASE phase' = "check" /\ UNCHANGED outcome
        <3>1. seen' \in Active => spare' = spare /\ (spare = None \/ status[Scan] \in Ended)
            BY <1>2, Known DEF Create, JobInv, Ended, Active
        <3>2. seen' \in Active => spare' = None
            <4>1. SUFFICES ASSUME seen' \in Active, spare # None PROVE FALSE
                BY <3>1
            <4>2. status[Scan] \in Ended
                BY <3>1, <4>1
            <4>3. seen' = status[Scan]
                BY <1>2, <4>2, Known DEF Create, job
            <4> QED BY <4>1, <4>2, <4>3, Known
        <3> QED BY <2>1, <2>2, <3>2, TimeFacts DEF TimeInv
    <2>3. CASE Exit("ok")
        BY <2>1, <2>3, TimeExit
    <2> QED BY <1>2, <2>2, <2>3 DEF Create
<1>3. CASE CreateFails
    BY <1>3, TimeExit DEF CreateFails, Fails, waiting
<1>4. CASE OneShot \/ Local \/ NoCommit \/ GetFails \/ ReadFails \/ Interrupt
    <2>1. UNCHANGED <<left, timer, spare>>
        BY <1>4 DEF OneShot, Local, NoCommit, GetFails, ReadFails, Interrupt, Fails, waiting
    <2>2. \E why : Exit(why) /\ why # "timeout"
        BY <1>4 DEF OneShot, Local, NoCommit, GetFails, ReadFails, Interrupt, Fails
    <2> QED BY <2>1, <2>2, TimeExit
<1>5. CASE Check
    <2>1. /\ UNCHANGED <<seen, read, left, spare>> /\ phase = "check" /\ seen \in Active
        BY <1>5 DEF Check
    <2>2. CASE TimeUp
        BY <1>5, <2>1, <2>2, TimeFacts DEF Check, Exit, TimeInv, TimeUp
    <2>3. CASE ~TimeUp
        BY <1>5, <2>1, <2>3, TimeFacts DEF Check, TimeInv, TimeUp
    <2> QED BY <2>2, <2>3
<1>6. CASE Wake
    BY <1>6, Known, TimeFacts DEF Wake, TimeInv
<1>7. CASE ServerReads
    <2>1. read' \in Active => spare = None
        BY <1>7, Known DEF ServerReads, JobInv
    <2> QED BY <1>7, <2>1, TimeFacts DEF ServerReads, TimeInv
<1>8. CASE Answer
    BY <1>8, TimeFacts DEF Answer, TimeInv
<1>9. CASE Waited
    <2>1. /\ UNCHANGED <<seen, read, left, timer, spare>> /\ phase = "check"
        BY <1>9 DEF Waited, waiting
    <2>2. CASE Exit("scan_failed")
        BY <2>1, <2>2, TimeExit
    <2>3. CASE phase' \in {"list", "sample"} /\ UNCHANGED outcome
        BY <2>1, <2>3 DEF TimeInv
    <2> QED BY <1>9, <2>2, <2>3 DEF Waited
<1>10. CASE List \/ Detail \/ Sample
    <2>1. UNCHANGED <<seen, read, left, timer, spare>> /\ phase \in {"list", "detail", "sample"}
        BY <1>10 DEF List, Detail, Sample, waiting
    <2>2. CASE \E why : Exit(why) /\ why # "timeout"
        BY <2>1, <2>2, TimeExit
    <2>3. CASE phase' \in {"list", "detail", "sample"} /\ UNCHANGED outcome
        BY <2>1, <2>3 DEF TimeInv
    <2>4. \/ \E why : Exit(why) /\ why # "timeout"
          \/ phase' \in {"list", "detail", "sample"} /\ UNCHANGED outcome
        BY <1>10 DEF List, Detail, Sample, TurnedOrDone, Concluded
    <2> QED BY <2>2, <2>3, <2>4
<1>11. CASE Tick
    <2>1. /\ left' \in Int /\ left - 1 <= left' /\ left' <= left /\ TooLate <= left'
        BY <1>11, TimeFacts DEF Tick, TimeInv
    <2>2. CASE phase = "sleep"
        BY <1>11, <2>1, <2>2, TimeFacts DEF Tick, TimeInv
    <2>3. CASE phase = "get"
        BY <1>11, <2>1, <2>3, TimeFacts DEF Tick, TimeInv
    <2> QED BY <1>11, <2>2, <2>3 DEF Tick
<1>12. CASE UNCHANGED vars
    BY <1>12 DEF vars, TimeInv
<1> QED BY <1>1, <1>2, <1>3, <1>4, <1>5, <1>6, <1>7, <1>8, <1>9, <1>10, <1>11, <1>12 DEF Next, Step

-----------------------------------------------------------------------------
(* Pages *)

\* The number of findings up to the end of page p.
UpTo(p) == IF p * PageSize < Len(rows) THEN p * PageSize ELSE Len(rows)

\* What has been read is a prefix of the findings; a page under way continues it.
PageInv ==
    /\ cmd \in Commands /\ rows \in Seq(Nat)
    /\ page \in Nat /\ 1 <= page /\ page <= IF cmd.name = "demo" THEN Samples ELSE Pages(Len(rows))
    /\ fetched \in Seq(Nat) /\ Len(fetched) <= Len(rows)
    /\ \A i \in 1..Len(fetched) : fetched[i] = i
    /\ phase \in {"start", "check", "sleep", "get"} => page = 1 /\ Len(fetched) = 0
    /\ phase = "sample" => cmd.name = "demo"
    /\ phase \in {"list", "detail"} => cmd.name # "demo"
    /\ phase = "list" => Len(fetched) = (page - 1) * PageSize
    /\ phase = "detail" => /\ todo \in Seq(Nat) /\ Len(todo) # 0
                           /\ Len(fetched) + Len(todo) = UpTo(page)
                           /\ \A i \in 1..Len(todo) : todo[i] = Len(fetched) + i
    /\ (phase = "over") = (outcome # None) /\ outcome \in Outcomes \cup {None}

Reaches == \E i \in 1..Len(rows) : rows[i] >= Rank[cmd.failOn]

\* The exit of a scan that was waited for.
Verdict ==
    Waits =>
        /\ outcome \in {"ok", "findings"} => Len(fetched) = Len(rows) /\ status[Scan] = "COMPLETED"
        /\ outcome = "ok" => ~Reaches
        /\ outcome = "findings" => Reaches
        /\ outcome = "scan_failed" => status[Scan] = "FAILED"

\* The pages cover the findings, and no page but the last ends behind them.
LEMMA PagesFacts ==
    ASSUME NEW n \in Nat
    PROVE  /\ Pages(n) \in Nat /\ Pages(n) >= 1 /\ Pages(n) * PageSize >= n
           /\ n # 0 => (Pages(n) - 1) * PageSize < n
<1>1. PageSize \in Nat /\ PageSize >= 1
    BY RemoteAssumption
<1>2. CASE n = 0
    BY <1>1, <1>2 DEF Pages
<1>3. CASE n # 0
    <2>1. ASSUME NEW P \in Nat, P >= 1
          PROVE  LET q == (n + P - 1) \div P
                 IN q \in Nat /\ q >= 1 /\ q * P >= n /\ (q - 1) * P < n
        BY <1>3, <2>1
    <2>2. Pages(n) = (n + PageSize - 1) \div PageSize
        BY <1>3 DEF Pages
    <2> QED BY <1>1, <2>1, <2>2
<1> QED BY <1>2, <1>3

\* The last page ends with the last finding, every other one in front of it.
LEMMA PageEnds ==
    ASSUME rows \in Seq(Nat), NEW p \in Nat, 1 <= p, p <= Pages(Len(rows))
    PROVE  /\ p >= Pages(Len(rows)) => UpTo(p) = Len(rows)
           /\ ~(p >= Pages(Len(rows))) => UpTo(p) = p * PageSize
<1> DEFINE n == Len(rows)
           q == Pages(n)
<1>1. n \in Nat /\ PageSize \in Nat /\ PageSize >= 1
    BY RemoteAssumption
<1>2. q \in Nat /\ q * PageSize >= n /\ (n # 0 => (q - 1) * PageSize < n) /\ (n = 0 => q = 1)
    BY <1>1, PagesFacts DEF Pages
<1> HIDE DEF n, q
<1>3. CASE p >= q
    <2>1. p = q
        BY <1>2, <1>3 DEF q, n
    <2> QED BY <1>1, <1>2, <1>3, <2>1 DEF UpTo, n, q
<1>4. CASE ~(p >= q)
    <2>1. p <= q - 1 /\ q - 1 \in Nat /\ n # 0
        BY <1>2, <1>4
    <2>2. ASSUME NEW a \in Nat, NEW b \in Nat, NEW k \in Nat, a <= b PROVE a * k <= b * k
        BY <2>2
    <2>3. p * PageSize <= (q - 1) * PageSize
        BY <1>1, <2>1, <2>2
    <2>4. p * PageSize < n
        BY <1>1, <1>2, <2>1, <2>3
    <2> QED BY <1>4, <2>4 DEF UpTo, n, q
<1> QED BY <1>3, <1>4 DEF n, q

\* Thresholds are numbers.
LEMMA RankIsNumber == cmd \in Commands => Rank[cmd.failOn] \in Int
<1> SUFFICES ASSUME cmd \in Commands PROVE Rank[cmd.failOn] \in Int
    OBVIOUS
<1>1. DOMAIN Rank = {"low", "medium", "high", "never"}
    BY DEF Rank
<1>2. cmd.failOn \in {"low", "medium", "high", "never"}
    BY <1>1 DEF Commands
<1>3. Rank["low"] \in Int /\ Rank["medium"] \in Int /\ Rank["high"] \in Int /\ Rank["never"] \in Int
    BY DEF Rank
<1> QED BY <1>2, <1>3

\* When all findings were read, the exit code is the verdict on all of them.
LEMMA ConcludedVerdict ==
    ASSUME PageInv, JobInv, fetched' \in Seq(Nat), Len(fetched') = Len(rows),
           \A i \in 1..Len(fetched') : fetched'[i] = i,
           Concluded, seen = "COMPLETED", UNCHANGED <<cmd, rows, status>>
    PROVE  Verdict'
<1>1. Attention(fetched', cmd.failOn) <=> Reaches
    BY DEF Attention, AtLeast, Reaches
<1>2. outcome' = IF Reaches THEN "findings" ELSE "ok"
    BY <1>1 DEF Concluded, Exit
<1>3. Reaches' <=> Reaches
    BY DEF Reaches
<1>4. status[Scan] = "COMPLETED"
    BY DEF JobInv, Ended
<1> QED BY <1>2, <1>3, <1>4 DEF Verdict

LEMMA PageInit == Init => PageInv /\ Verdict
<1> SUFFICES ASSUME Init PROVE PageInv /\ Verdict
    OBVIOUS
<1>1. rows \in Seq(Nat)
    <2>1. rows \in ByScore
        BY DEF Init
    <2>2. rows \in BoundedSeq(Ranks, MaxFindings)
        BY <2>1 DEF ByScore
    <2>3. rows \in UNION {[1..m -> Ranks] : m \in 0..MaxFindings}
        BY <2>2 DEF BoundedSeq, SeqOf
    <2>4. PICK m \in 0..MaxFindings : rows \in [1..m -> Ranks]
        BY <2>3
    <2>5. m \in Nat /\ Ranks \subseteq Nat
        BY <2>4, RemoteAssumption
    <2>6. rows \in [1..m -> Nat]
        BY <2>4, <2>5
    <2> QED BY <2>5, <2>6
<1>2. Len(rows) \in Nat
    BY <1>1
<1>3. Pages(Len(rows)) >= 1
    BY <1>2, PagesFacts
<1>4. /\ cmd \in Commands /\ page = 1 /\ fetched = << >> /\ phase = "start" /\ outcome = None
    BY DEF Init
<1>5. PageInv
    BY <1>1, <1>3, <1>4 DEF PageInv, Samples
<1>6. Verdict
    BY <1>4, NoneAssumption DEF Verdict, Outcomes
<1> QED BY <1>5, <1>6

\* Leaving without another page.
LEMMA PageExit ==
    ASSUME PageInv, NEW why \in Outcomes, Exit(why), UNCHANGED <<cmd, rows, page, fetched>>
    PROVE  PageInv'
BY NoneAssumption DEF PageInv, Exit

\* At the end of a page the report is over or goes on with the next one.
LEMMA Turned ==
    ASSUME PageInv, phase \in {"list", "detail"}, UNCHANGED <<cmd, rows>>,
           fetched' \in Seq(Nat), Len(fetched') = UpTo(page),
           \A i \in 1..Len(fetched') : fetched'[i] = i,
           NEW rest, rest = << >> => UpTo(page) = Len(rows),
           TurnedOrDone(rest)
    PROVE  PageInv' /\ ((Concluded /\ Len(fetched') = Len(rows)) \/ UNCHANGED outcome)
<1>1. /\ cmd.name # "demo" /\ rows \in Seq(Nat) /\ page \in Nat /\ 1 <= page
      /\ page <= Pages(Len(rows)) /\ Len(rows) \in Nat /\ PageSize \in Nat
      /\ Pages(Len(rows)) \in Nat
    <2>1. cmd.name # "demo" /\ rows \in Seq(Nat) /\ page \in Nat /\ 1 <= page
        BY DEF PageInv
    <2>2. page <= Pages(Len(rows))
        BY <2>1 DEF PageInv
    <2>3. Len(rows) \in Nat
        BY <2>1
    <2>4. Pages(Len(rows)) \in Nat
        BY <2>3, PagesFacts
    <2> QED BY <2>1, <2>2, <2>3, <2>4, RemoteAssumption
<1>2. UpTo(page) <= Len(rows)
    BY <1>1 DEF UpTo
<1>3. CASE IsLast \/ rest = << >>
    <2>1. Concluded /\ UNCHANGED page /\ UpTo(page) = Len(rows)
        BY <1>1, <1>3, PageEnds DEF TurnedOrDone, IsLast
    <2>2. phase' = "over" /\ outcome' \in Outcomes
        BY <2>1 DEF Concluded, Exit, Outcomes
    <2>3. PageInv'
        BY <1>1, <1>2, <2>1, <2>2, NoneAssumption DEF PageInv
    <2> QED BY <2>1, <2>3
<1>4. CASE ~(IsLast \/ rest = << >>)
    <2>1. /\ page' = page + 1 /\ phase' = "list" /\ UNCHANGED outcome
          /\ UpTo(page) = page * PageSize /\ page + 1 <= Pages(Len(rows))
        BY <1>1, <1>4, PageEnds DEF TurnedOrDone, IsLast
    <2>2. PageInv'
        BY <1>1, <1>2, <2>1 DEF PageInv
    <2> QED BY <2>1, <2>2
<1> QED BY <1>3, <1>4

\* A page of the list: the rows after those that were read.
LEMMA ListPage ==
    ASSUME PageInv, JobInv, List
    PROVE  PageInv' /\ (UNCHANGED outcome \/ Verdict')
<1> DEFINE first == (page - 1) * PageSize
           last == UpTo(page)
<1>1. /\ phase = "list" /\ fetched' = fetched /\ todo' = OnPage(page)
      /\ UNCHANGED <<cmd, rows, status, seen>>
    BY DEF List, job, waiting
<1>2. /\ rows \in Seq(Nat) /\ page \in Nat /\ 1 <= page /\ Len(fetched) = first
      /\ Len(rows) \in Nat /\ PageSize \in Nat /\ PageSize >= 1 /\ first <= Len(rows)
      /\ fetched \in Seq(Nat)
    BY <1>1, RemoteAssumption DEF PageInv
<1>3. first \in Nat /\ last \in Nat /\ first < page * PageSize
    BY <1>2 DEF UpTo
<1>4. OnPage(page) = IF last <= first THEN << >> ELSE [i \in 1..(last - first) |-> first + i]
    BY DEF OnPage, UpTo
<1> HIDE DEF first, last
<1>5. CASE last <= first
    <2>1. last = Len(rows) /\ last = first
        BY <1>2, <1>3, <1>5 DEF last, UpTo
    <2>2. TurnedOrDone(<< >>)
        BY <1>4, <1>5 DEF List
    <2>3. Len(fetched') = UpTo(page) /\ UpTo(page) = Len(rows)
        BY <1>1, <1>2, <2>1 DEF last
    <2>4. fetched' \in Seq(Nat) /\ \A i \in 1..Len(fetched') : fetched'[i] = i
        BY <1>1 DEF PageInv
    <2>5. PageInv' /\ ((Concluded /\ Len(fetched') = Len(rows)) \/ UNCHANGED outcome)
        BY <1>1, <2>2, <2>3, <2>4, Turned
    <2> QED BY <1>1, <2>4, <2>5, ConcludedVerdict DEF JobInv
<1>6. CASE ~(last <= first)
    <2>1. todo' = [i \in 1..(last - first) |-> first + i] /\ last - first \in Nat /\ last - first # 0
        BY <1>1, <1>3, <1>4, <1>6
    <2>2. /\ todo' \in Seq(Nat) /\ Len(todo') = last - first
          /\ \A i \in 1..Len(todo') : todo'[i] = first + i
        BY <1>3, <2>1
    <2>3. todo' # << >>
        BY <2>1, <2>2
    <2>4. phase' = "detail" /\ UNCHANGED <<page, outcome>>
        BY <1>1, <2>3 DEF List
    <2>5. Len(fetched) + Len(todo') = UpTo(page)
        BY <1>2, <1>3, <2>2 DEF last
    <2> QED BY <1>1, <1>2, <2>1, <2>2, <2>4, <2>5 DEF PageInv, UpTo
<1> QED BY <1>5, <1>6

\* One finding more.
LEMMA DetailRow ==
    ASSUME PageInv, JobInv, Detail
    PROVE  PageInv' /\ (UNCHANGED outcome \/ Verdict')
<1> DEFINE k == Len(fetched)
<1>1. /\ phase = "detail" /\ fetched' = Append(fetched, Head(todo)) /\ todo' = Tail(todo)
      /\ UNCHANGED <<cmd, rows, status, seen>>
    BY DEF Detail, job, waiting
<1>2. /\ todo \in Seq(Nat) /\ Len(todo) # 0 /\ fetched \in Seq(Nat)
      /\ k + Len(todo) = UpTo(page) /\ \A i \in 1..Len(todo) : todo[i] = k + i
      /\ k \in Nat /\ Len(todo) \in Nat
    BY <1>1 DEF PageInv
<1>3. Head(todo) = k + 1
    BY <1>2
<1>4. /\ fetched' \in Seq(Nat) /\ Len(fetched') = k + 1
      /\ \A i \in 1..Len(fetched') : fetched'[i] = i
    BY <1>1, <1>2, <1>3 DEF PageInv
<1>5. /\ todo' \in Seq(Nat) /\ Len(todo') = Len(todo) - 1
      /\ \A i \in 1..Len(todo') : todo'[i] = k + 1 + i
    BY <1>1, <1>2
<1>6. rows \in Seq(Nat) /\ page \in Nat /\ PageSize \in Nat
    BY RemoteAssumption DEF PageInv
<1>7. UpTo(page) <= Len(rows)
    BY <1>6 DEF UpTo
<1> HIDE DEF k
<1>8. CASE Len(todo) = 1
    <2>1. TurnedOrDone(todo) /\ todo # << >>
        <3>1. TurnedOrDone(todo)
            BY <1>8, Zenon DEF Detail
        <3>2. todo # << >>
            BY <1>2
        <3> QED BY <3>1, <3>2
    <2>2. Len(fetched') = UpTo(page)
        BY <1>2, <1>4, <1>8
    <2>3. PageInv' /\ ((Concluded /\ Len(fetched') = Len(rows)) \/ UNCHANGED outcome)
        BY <1>1, <1>4, <2>1, <2>2, Turned
    <2> QED BY <1>1, <1>4, <2>3, ConcludedVerdict DEF JobInv
<1>9. CASE Len(todo) # 1
    <2>1. UNCHANGED <<page, phase, outcome>>
        BY <1>9 DEF Detail
    <2>2. Len(todo') # 0 /\ Len(fetched') + Len(todo') = UpTo(page) /\ Len(fetched') <= Len(rows)
        BY <1>2, <1>4, <1>5, <1>6, <1>7, <1>9
    <2> QED BY <1>1, <1>4, <1>5, <2>1, <2>2 DEF PageInv, UpTo
<1> QED BY <1>8, <1>9

-----------------------------------------------------------------------------
(* The report *)

Telling == {"ok", "findings", "scan_failed"}

LEMMA QuietVerdict ==
    ASSUME UNCHANGED cmd, Waits => outcome' \notin Telling
    PROVE  Verdict'
BY DEF Verdict, Waits, Telling

\* Leaving tells something of a scan that was waited for only where it is checked.
LEMMA QuietExit ==
    ASSUME PageInv, NEW why \in Outcomes, Exit(why), UNCHANGED <<cmd, rows, page, fetched>>,
           Waits => why \notin Telling
    PROVE  PageInv' /\ Verdict'
<1>1. PageInv'
    BY PageExit
<1>2. outcome' = why
    BY DEF Exit
<1> QED BY <1>1, <1>2, QuietVerdict

\* Until the findings are read there is one page, and nothing on it.
LEMMA StillWaiting ==
    ASSUME PageInv, phase \in {"start", "check", "sleep", "get"},
           phase' \in {"start", "check", "sleep", "get"},
           UNCHANGED <<cmd, rows, page, fetched, outcome>>
    PROVE  PageInv' /\ Verdict'
<1>1. outcome = None
    BY DEF PageInv
<1>2. outcome' \notin Telling
    BY <1>1, NoneAssumption DEF Outcomes, Telling
<1>3. PageInv'
    BY <1>1 DEF PageInv
<1> QED BY <1>2, <1>3, QuietVerdict

LEMMA ReportStep == JobInv /\ PageInv /\ Verdict /\ [Next]_vars => PageInv' /\ Verdict'
<1> SUFFICES ASSUME JobInv, PageInv, Verdict, [Next]_vars PROVE PageInv' /\ Verdict'
    OBVIOUS
<1>1. CASE ServerWorks
    <2>1. /\ UNCHANGED <<cmd, rows, phase, paging, outcome>> /\ status[Scan] \in Active
        BY <1>1, WorkerJob
    <2>2. status[Scan] # "COMPLETED" /\ status[Scan] # "FAILED"
        BY <2>1 DEF Active
    <2>3. Waits => outcome' \notin Telling
        BY <2>1, <2>2 DEF Verdict, Telling
    <2>4. PageInv'
        BY <2>1 DEF PageInv, paging, UpTo
    <2> QED BY <2>1, <2>3, <2>4, QuietVerdict
<1>2. CASE OneShot \/ Local
    <2>1. /\ UNCHANGED <<cmd, rows, page, fetched>> /\ ~Waits
        BY <1>2 DEF OneShot, Local, OneShots, Fails, paging, Waits
    <2>2. PICK why \in Outcomes : Exit(why)
        BY <1>2 DEF OneShot, Local, Fails, Outcomes
    <2> QED BY <2>1, <2>2, QuietExit
<1>3. CASE NoCommit \/ CreateFails \/ GetFails \/ ReadFails \/ Interrupt
    <2>1. UNCHANGED <<cmd, rows, page, fetched>>
        BY <1>3 DEF NoCommit, CreateFails, GetFails, ReadFails, Interrupt, Fails, paging
    <2>2. PICK why \in {"usage", "failure", "not_found", "traceback", "interrupted"} : Exit(why)
        BY <1>3 DEF NoCommit, CreateFails, GetFails, ReadFails, Interrupt, Fails
    <2>3. why \in Outcomes /\ why \notin Telling
        BY <2>2 DEF Outcomes, Telling
    <2> QED BY <2>1, <2>2, <2>3, QuietExit
<1>4. CASE Create
    <2>1. UNCHANGED <<cmd, rows, page, fetched>> /\ phase = "start"
        BY <1>4 DEF Create, paging
    <2>2. CASE cmd.wait
        BY <1>4, <2>1, <2>2, StillWaiting DEF Create
    <2>3. CASE ~cmd.wait
        <3>1. Exit("ok") /\ ~Waits /\ "ok" \in Outcomes
            BY <1>4, <2>3 DEF Create, Waits, Outcomes
        <3> QED BY <2>1, <3>1, QuietExit
    <2> QED BY <2>2, <2>3
<1>5. CASE Check
    <2>1. UNCHANGED <<cmd, rows, page, fetched>> /\ phase = "check"
        BY <1>5 DEF Check, paging
    <2>2. CASE TimeUp
        <3>1. Exit("timeout") /\ "timeout" \in Outcomes /\ "timeout" \notin Telling
            BY <1>5, <2>2 DEF Check, Outcomes, Telling
        <3> QED BY <2>1, <3>1, QuietExit
    <2>3. CASE ~TimeUp
        BY <1>5, <2>1, <2>3, StillWaiting DEF Check
    <2> QED BY <2>2, <2>3
<1>6. CASE Wake \/ ServerReads \/ Answer \/ Tick
    <2>1. /\ UNCHANGED <<cmd, rows, page, fetched, outcome>>
          /\ phase \in {"sleep", "get"} /\ phase' \in {"sleep", "get", "check"}
        BY <1>6 DEF Wake, ServerReads, Answer, Tick, paging
    <2> QED BY <2>1, StillWaiting
<1>7. CASE Waited
    <2>1. /\ UNCHANGED <<cmd, rows, page, fetched, status>> /\ phase = "check" /\ seen \notin Active
        BY <1>7 DEF Waited, paging, job
    <2>2. CASE seen = "FAILED"
        <3>1. Exit("scan_failed") /\ status[Scan] = "FAILED" /\ "scan_failed" \in Outcomes
            BY <1>7, <2>2 DEF Waited, JobInv, Ended, Outcomes
        <3>2. PageInv'
            BY <2>1, <3>1, PageExit
        <3>3. Verdict'
            BY <2>1, <3>1 DEF Exit, Verdict
        <3> QED BY <3>2, <3>3
    <2>3. CASE seen # "FAILED"
        <3>1. phase' = (IF cmd.name = "demo" THEN "sample" ELSE "list") /\ outcome' = outcome
            BY <1>7, <2>3 DEF Waited
        <3>2. outcome = None /\ page = 1 /\ Len(fetched) = 0
            BY <2>1 DEF PageInv
        <3>3. (page - 1) * PageSize = 0
            BY <3>2, RemoteAssumption
        <3>4. PageInv'
            BY <2>1, <3>1, <3>2, <3>3 DEF PageInv
        <3>5. outcome' \notin Telling
            BY <3>1, <3>2, NoneAssumption DEF Outcomes, Telling
        <3> QED BY <2>1, <3>4, <3>5, QuietVerdict
    <2> QED BY <2>2, <2>3
<1>8. CASE List \/ Detail
    <2>1. UNCHANGED cmd /\ phase \in {"list", "detail"}
        BY <1>8 DEF List, Detail
    <2>2. PageInv' /\ (UNCHANGED outcome \/ Verdict')
        BY <1>8, ListPage, DetailRow
    <2>3. outcome = None
        BY <2>1 DEF PageInv
    <2>4. outcome \notin Telling
        BY <2>3, NoneAssumption DEF Outcomes, Telling
    <2> QED BY <2>1, <2>2, <2>4, QuietVerdict
<1>9. CASE Sample
    <2>1. /\ UNCHANGED <<cmd, rows, fetched>> /\ phase = "sample" /\ cmd.name = "demo" /\ ~Waits
        BY <1>9 DEF Sample, PageInv, Waits
    <2>2. CASE page = Samples
        <3>1. Exit("ok") /\ UNCHANGED page /\ "ok" \in Outcomes
            BY <1>9, <2>2 DEF Sample, Outcomes
        <3> QED BY <2>1, <3>1, QuietExit
    <2>3. CASE page # Samples
        <3>1. page' = page + 1 /\ UNCHANGED <<phase, outcome>>
            BY <1>9, <2>3 DEF Sample
        <3>2. page' \in Nat /\ 1 <= page' /\ page' <= Samples
            BY <2>1, <2>3, <3>1 DEF PageInv, Samples
        <3>3. PageInv'
            BY <2>1, <3>1, <3>2 DEF PageInv
        <3> QED BY <2>1, <3>3, QuietVerdict
    <2> QED BY <2>2, <2>3
<1>10. CASE UNCHANGED vars
    BY <1>10 DEF vars, PageInv, Verdict, Waits, Reaches, UpTo
<1> QED BY <1>1, <1>2, <1>3, <1>4, <1>5, <1>6, <1>7, <1>8, <1>9, <1>10 DEF Next, Step

-----------------------------------------------------------------------------
(* What the commands promise *)

IInv == JobInv /\ TimeInv /\ PageInv /\ Verdict

\* The invariant holds of every command, against any server.
THEOREM Inductive == Spec => []IInv
<1>1. Init => IInv
    BY JobInit, TimeInit, PageInit DEF IInv
<1>2. IInv /\ [Next]_vars => IInv'
    BY JobStep, TimeStep, ReportStep DEF IInv
<1> QED BY <1>1, <1>2, PTL DEF Spec

\* A client gives up within one poll of its deadline, and never on a scan that had
\* ended before it by as much as a request takes.
THEOREM DeadlinesAreKept == Spec => []DeadlineKept
<1>1. IInv => DeadlineKept
    <2> SUFFICES ASSUME IInv PROVE DeadlineKept
        OBVIOUS
    <2>1. GivesUpInTime /\ FinishedInTimeIsSeen
        BY TimeFacts DEF IInv, TimeInv, GivesUpInTime, FinishedInTimeIsSeen
    <2>2. left \in TooLate..Timeout /\ timer \in 0..(PollInterval + Latency)
        BY TimeFacts DEF IInv, TimeInv
    <2>3. page \in 1..(IF cmd.name = "demo" THEN Samples ELSE Pages(Len(rows)))
        <3>1. rows \in Seq(Nat)
            BY DEF IInv, PageInv
        <3>2. Len(rows) \in Nat
            BY <3>1
        <3>3. Pages(Len(rows)) \in Nat
            BY <3>2, PagesFacts
        <3> QED BY <3>3 DEF IInv, PageInv, Samples
    <2>4. /\ phase \in {"start", "check", "sleep", "get", "list", "detail", "sample", "over"}
          /\ seen \in Active \cup {"COMPLETED", "FAILED", None}
          /\ outcome \in Outcomes \cup {None} /\ (phase = "over") = (outcome # None)
        BY DEF IInv, JobInv, PageInv, Ended
    <2> QED BY <2>1, <2>2, <2>3, <2>4 DEF DeadlineKept, TypeOK
<1> QED BY <1>1, Inductive, PTL

\* The report of a scan that was waited for lists every finding once, and its exit
\* code is the verdict on all of them, or on the scan.
THEOREM ReportsAreComplete == Spec => []ReportTellsTheOutcome
<1>1. IInv => ReportTellsTheOutcome
    <2> SUFFICES ASSUME IInv, Waits, phase = "over"
                 PROVE  ReportTellsTheOutcome
        BY DEF ReportTellsTheOutcome, ExitTellsTheOutcome, EveryFindingOnce
    <2>1. /\ rows \in Seq(Nat) /\ fetched \in Seq(Nat) /\ \A i \in 1..Len(fetched) : fetched[i] = i
          /\ cmd \in Commands /\ outcome \in Outcomes
        BY DEF IInv, PageInv
    <2>2. /\ outcome \in {"ok", "findings"} =>
                 Len(fetched) = Len(rows) /\ status[Scan] = "COMPLETED"
          /\ outcome = "ok" => ~Reaches
          /\ outcome = "findings" => Reaches
          /\ outcome = "scan_failed" => status[Scan] = "FAILED"
        BY DEF IInv, Verdict
    <2>3. DOMAIN rows = 1..Len(rows) /\ DOMAIN fetched = 1..Len(fetched)
        BY <2>1
    <2>4. EveryFindingOnce
        <3> SUFFICES ASSUME outcome \in {"ok", "findings"}
                     PROVE  Len(fetched) = Len(rows) /\ ToSet(fetched) = DOMAIN rows
            BY DEF EveryFindingOnce
        <3>1. Len(fetched) = Len(rows)
            BY <2>2
        <3>2. ToSet(fetched) = 1..Len(rows)
            BY <2>1, <2>3, <3>1 DEF ToSet
        <3> QED BY <2>3, <3>1, <3>2
    <2>5. Code = 0 => outcome = "ok"
        BY DEF Code
    <2>6. Code = 3 /\ outcome # "timeout" => outcome = "scan_failed"
        BY DEF Code
    <2>7. ASSUME outcome = "ok" PROVE \A i \in DOMAIN rows : rows[i] < Rank[cmd.failOn]
        BY <2>1, <2>2, <2>3, <2>7, RankIsNumber DEF Reaches
    <2>8. ASSUME outcome = "findings" PROVE \E i \in DOMAIN rows : rows[i] >= Rank[cmd.failOn]
        BY <2>2, <2>3, <2>8 DEF Reaches
    <2>9. ExitTellsTheOutcome
        BY <2>2, <2>5, <2>6, <2>7, <2>8 DEF ExitTellsTheOutcome
    <2> QED BY <2>4, <2>9 DEF ReportTellsTheOutcome
<1> QED BY <1>1, Inductive, PTL

=============================================================================
