-------------------------- MODULE FindingRequests ---------------------------
(***************************************************************************)
(* The requests about a finding, in concurrent threads of the server:      *)
(* explanations and assessments that call a slow model inside an open      *)
(* transaction, and reviews; a database that may be locked or fail; a      *)
(* process that stops, and comes back with other settings.                 *)
(***************************************************************************)
EXTENDS Explanations, MigrationAssessments, Reviews

Busy(r) == req[r].at \in {"miss", "calling", "stored", "loaded"}

\* SQLite's busy_timeout (5 s) passes while another handler waits for the model
\* (up to 30 s): "database is locked".
LockTimeout(r) ==
    /\ req[r].at \in {"miss", "loaded"} /\ Locked
    /\ Reply(r, 500)
    /\ UNCHANGED <<config, answers, audit, items, born, stops>>

\* A statement or the commit fails and the transaction is rolled back; or, the
\* answer being stored, the caller is told of an error all the same.
DatabaseFails(r) ==
    /\ Busy(r)
    /\ Reply(r, 500)
    /\ UNCHANGED <<config, answers, audit, items, born, stops>>

\* A crash or a deployment: open transactions are gone, settings may change.
Restart ==
    /\ stops < MaxStops
    /\ stops' = stops + 1
    /\ config' \in Configs
    /\ req' = [r \in Requests |-> Idle]
    /\ UNCHANGED <<answers, audit, items, born>>

Start(r) ==
    \/ \E f \in Findings : Explain(r, f)
    \/ \E f \in Findings, p \in Profiles : Assess(r, f, p)
    \/ \E f \in Findings, change \in Changes : LoadForDisposition(r, f, change)
    \/ \E i \in DOMAIN items, change \in Changes : LoadForPatch(r, i, change)

\* What ends a wait for the model; its client has a hard timeout.
ModelEnds(r) ==
    \/ ModelExplains(r) \/ ModelFails(r)
    \/ \E by \in {"model", "heuristic"} : AdvisorAnswers(r, by)
    \/ AdvisorRaises(r)

Handle(r) ==
    \/ Insert(r) \/ ModelEnds(r) \/ Answer(r) \/ RefreshRaises(r)
    \/ WriteReview(r) \/ LockTimeout(r)

Next ==
    \/ \E r \in Requests : Start(r) \/ Handle(r) \/ DatabaseFails(r)
    \/ Restart

Spec == RecordsInit /\ [][Next]_vars

-----------------------------------------------------------------------------

Keys == [kind : Kinds, finding : Findings, profile : Profiles \cup {None},
         model : Models \cup {None}]
Rows == [id : 1..MaxRows, key : Keys, status : {"COMPLETED", "FAILED"},
         by : {"model", "heuristic"}]
Items == [finding : Findings, status : ReviewStatus, note : Notes, by : {"scan", "review"}]

\* The committed tables are of their types, and ids are given once.
TypeOK ==
    /\ config \in Configs
    /\ answers \subseteq Rows
    /\ DOMAIN items \subseteq 1..born
    /\ \A i \in DOMAIN items : items[i] \in Items
    /\ born \in 0..MaxRows
    /\ \A r \in Requests : req[r].at \in {"idle", "miss", "calling", "stored", "loaded", "answered"}
    /\ stops \in 0..MaxStops

\* Whatever stops a handler, the rows and the events are those of calls that
\* came to an end: no event without its row and no row without its events.  A
\* FAILED row has no event of completion - except that of an assessment whose
\* handler failed after it was stored (migration_assessments.py:210, 217): the
\* audit trail keeps the completion of a row that says FAILED.
EventsMatchRows ==
    /\ {e[2] : e \in audit} = {row.id : row \in answers}
    /\ \A row \in answers :
           /\ row.status = "COMPLETED" => <<"COMPLETED", row.id>> \in audit
           /\ <<"COMPLETED", row.id>> \in audit =>
                  row.status = "COMPLETED" \/ row.key.kind = "assessment"
    /\ \A row, other \in answers : row.id = other.id => row = other

\* However often it is asked for, an answer is generated at most once by each
\* of the callers that were there together before the first one was kept
\* (explanations.py:116, "generating and caching it once", is what a caller
\* alone sees).
GeneratedAtMostPerCaller ==
    \A key \in {row.key : row \in answers} :
        Cardinality({row \in answers : row.status = "COMPLETED" /\ row.key = key})
            <= Cardinality(Requests)

\* A row as a caller got it is kept, or has been marked FAILED since.
Recorded(row) ==
    \/ row \in answers
    \/ row.key.kind = "assessment" /\ MarkedFailed(row) \in answers

\* What is answered, generated or from the cache, is about the finding and the
\* profile asked for, and kept under the model configured now.
AnswersFit ==
    \A r \in Requests :
        At(r, "answered") /\ req[r].code = 200 /\ "key" \in DOMAIN req[r] =>
            LET row == req[r].row IN
            /\ Recorded(row)
            /\ row.status = "COMPLETED"
            /\ row.key = req[r].key
            /\ row.key.model \in {None, config.model}

\* A finding the scan queued for review keeps its one item; any other has at
\* most one for each of the reviewers that found none together.
ItemsBound ==
    \A f \in Findings :
        Cardinality(ItemsOf(f)) <=
            IF \E i \in ItemsOf(f) : items[i].by = "scan" THEN 1 ELSE Cardinality(Requests)

\* Two reviewers of one item: what a request does not send it does not change,
\* whatever it loaded before the other one wrote (reviews.py:130-145).
UnsentFieldsStay ==
    [][\A r \in Requests, i \in DOMAIN items :
          At(r, "loaded") /\ req[r].item = i /\ req'[r].at = "answered" =>
              /\ req[r].change.status = Unset => items'[i].status = items[i].status
              /\ req[r].change.note = Unset => items'[i].note = items[i].note]_vars

=============================================================================
