----------------------------- MODULE ReportPage -----------------------------
(***************************************************************************)
(* The inspection report page watching a scan: two resources, the          *)
(* inspection (the scan's status) and the page of findings the user asked  *)
(* for, both polled while the inspection shown is queued or running.  An   *)
(* answer is abstracted to the status the scan had when the server read    *)
(* it: the findings are all there with "completed", and none before.       *)
(***************************************************************************)
EXTENDS AsyncResource, Naturals

CONSTANTS
    Queries,      \* (page, filter) combinations of the findings list
    Inspection,   \* the key of the inspection
    MaxChanges,   \* bound on the changes of the query
    MaxFailures   \* bound on the requests that fail

ASSUME PageAssumption ==
    /\ Queries # {}
    /\ Inspection \notin Queries
    /\ "none" \notin Queries \cup {Inspection}
    /\ {MaxChanges, MaxFailures} \subseteq Nat

VARIABLES
    scan,         \* the status of the scan in the database
    asked,        \* asked[r]: the key of the current loader of r
    res,          \* res[r]: the hook's record of r
    changes,
    failures

vars == <<scan, asked, res, changes, failures>>

Resources == {"inspection", "findings"}
Statuses == {"running", "completed", "failed"}
Ended == {"completed", "failed"}

ShowsStatus(r, statuses) ==
    res[r].view.status = "success" /\ res[r].view.value \in statuses

\* Queued and running are one: the page treats them alike.
Running(s) == s.view.status = "success" /\ s.view.value = "running"
IsRunning == Running(res["inspection"])

-----------------------------------------------------------------------------

\* The page is opened while the scan is queued, runs or has ended.
Init ==
    /\ scan \in Statuses
    /\ \E q \in Queries : asked = [inspection |-> Inspection, findings |-> q]
    /\ res = [r \in Resources |-> Loaded(asked[r])]
    /\ changes = 0
    /\ failures = 0

\* The worker commits the outcome and, with it, the findings.
ScanEnds ==
    /\ scan = "running"
    /\ scan' \in Ended
    /\ UNCHANGED <<asked, res, changes, failures>>

Serve(r, kind) ==
    /\ InFlight(res[r], kind)
    /\ res[r][kind].value = Unread
    /\ res' = [res EXCEPT ![r] = Read(@, kind, scan)]
    /\ UNCHANGED <<scan, asked, changes, failures>>

\* Defect for FindingsCatchUp: the intervals stop, and nothing more is fetched.
AfterInspectionNoRefresh(now) ==
    [inspection |-> now, findings |-> res["findings"]]

\* The effects that follow a new state of the inspection: when it has just
\* stopped running, the findings are refreshed once more.
AfterInspection(now) ==
    [inspection |-> now,
     findings |-> IF IsRunning /\ ~Running(now)
                  THEN Refreshed(res["findings"], asked["findings"])
                  ELSE res["findings"]]

\* The resources once a request for r left it as `now`.
After(r, now) ==
    IF r = "inspection" THEN AfterInspection(now) ELSE [res EXCEPT ![r] = now]

Settle(r, kind) ==
    /\ InFlight(res[r], kind)
    /\ res[r][kind].value # Unread
    /\ res' = After(r, Answered(res[r], kind))
    /\ UNCHANGED <<scan, asked, changes, failures>>

\* An error response, a lost connection, or the timeout of the request.
Fail(r, kind) ==
    /\ InFlight(res[r], kind)
    /\ failures < MaxFailures
    /\ failures' = failures + 1
    /\ res' = After(r, Failed(res[r], kind))
    /\ UNCHANGED <<scan, asked, changes>>

\* One tick of the interval of a resource.
Poll(r) ==
    /\ IsRunning
    /\ res' = [res EXCEPT ![r] = Refreshed(@, asked[r])]
    /\ UNCHANGED <<scan, asked, changes, failures>>

\* Defect for ShownIsAsked: the dependencies leave out what has changed.
ChangeQueryUnnoticed(q) ==
    /\ res["inspection"].view.status = "success"
    /\ q # asked["findings"]
    /\ changes < MaxChanges
    /\ changes' = changes + 1
    /\ asked' = [asked EXCEPT !["findings"] = q]
    /\ UNCHANGED <<scan, res, failures>>

\* The pager, or the filter once its debounce has passed.
ChangeQuery(q) ==
    /\ res["inspection"].view.status = "success"
    /\ q # asked["findings"]
    /\ changes < MaxChanges
    /\ changes' = changes + 1
    /\ asked' = [asked EXCEPT !["findings"] = q]
    /\ res' = [res EXCEPT !["findings"] = Loaded(q)]
    /\ UNCHANGED <<scan, failures>>

\* The retry button, which only an error shows; that of the findings is part
\* of the report, drawn once the inspection is there.
Reload(r) ==
    /\ res[r].view.status = "error"
    /\ r = "findings" => res["inspection"].view.status = "success"
    /\ res' = [res EXCEPT ![r] = Loaded(asked[r])]
    /\ UNCHANGED <<scan, asked, changes, failures>>

Next ==
    \/ ScanEnds
    \/ \E r \in Resources, kind \in Kinds :
           Serve(r, kind) \/ Settle(r, kind) \/ Fail(r, kind)
    \/ \E r \in Resources : Poll(r) \/ Reload(r)
    \/ \E q \in Queries : ChangeQuery(q)

Spec == Init /\ [][Next]_vars

\* Scans end, the server reads, the intervals tick, and answers come: strong
\* fairness, since a tick may abort the refresh before it, but not each time
\* (the server's latency is not above the interval for ever).  Nobody has to
\* press retry or to change the query.
Fairness ==
    /\ WF_vars(ScanEnds)
    /\ \A r \in Resources : WF_vars(Poll(r))
    /\ \A r \in Resources, kind \in Kinds :
           /\ WF_vars(Serve(r, kind))
           /\ SF_vars(Settle(r, kind))

FairSpec == Spec /\ Fairness

-----------------------------------------------------------------------------

Values == Statuses
Views == [status : {"loading", "error"}, key : {"none"}, value : {"none"}]
             \cup [status : {"success"}, key : Queries \cup {Inspection}, value : Values]
Calls == {NoCall} \cup [key : Queries \cup {Inspection}, value : Values \cup {Unread}]
Records == [view : Views, load : Calls, poll : Calls, newest : Kinds]

\* The type invariant of the page (useAsyncResource.ts:30-33).
TypeOK ==
    /\ scan \in Statuses
    /\ asked \in [Resources -> Queries \cup {Inspection}]
    /\ res \in [Resources -> Records]
    /\ changes \in 0..MaxChanges
    /\ failures \in 0..MaxFailures

\* Data on screen answers the query the page asks now, whichever requests were
\* in flight when the query changed (useAsyncResource.ts:23-24: a change of the
\* dependencies discards any response in flight).
ShownIsAsked ==
    \A r \in Resources :
        res[r].view.status = "success" => res[r].view.key = asked[r]

\* v is what a server that moved on to w may have said before.
NotAfter(v, w) == v = "running" \/ v = w

\* While the query stays, what is shown of a resource is never replaced by an
\* older reading of it, in whatever order its load and its polls are answered
\* (the run id of useAsyncResource.ts:36-40).
NothingGoesBack ==
    [][\A r \in Resources :
          /\ res[r].view.status = "success"
          /\ res'[r].view.status = "success"
          /\ asked'[r] = asked[r]
          => NotAfter(res[r].view.value, res'[r].view.value)]_vars

\* Failed polls do not end the polling: a page that has shown a running scan
\* comes to show how it ended (InspectionReportPage.tsx:64-74).
StatusCatchesUp == ShowsStatus("inspection", {"running"}) ~> ShowsStatus("inspection", Ended)

\* When no request fails, a page that has shown a running scan comes to show
\* what the ended scan left, findings included, and without a manual reload
\* (InspectionReportPage.tsx:118-132).
FindingsCatchUp ==
    [](failures = 0) =>
        (ShowsStatus("inspection", {"running"}) ~> ShowsStatus("findings", Ended))

=============================================================================
