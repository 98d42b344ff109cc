------------------------ MODULE MigrationAssessments ------------------------
(* services/migration_assessments.py: the contextual assessment of a finding *)
(* under a domain profile.  Its content is the advisor's (MigrationAdvisor); *)
(* here it is only told who wrote it, the model or the heuristics.           *)
EXTENDS FindingRecords

AssessmentKey(f, p) ==
    [kind |-> "assessment", finding |-> f, profile |-> p,
     model |-> IF config.configured THEN config.model ELSE None]

\* POST and GET /findings/{id}/migration-assessment: the profile of the body,
\* of the domain parameter, or the default one.
Assess(r, f, p) ==
    /\ Ready(r)
    /\ LookUp(r, AssessmentKey(f, p))
    /\ UNCHANGED <<config, answers, audit, items, born, stops>>

IsAssessing(r) == At(r, "calling") /\ req[r].key.kind = "assessment"

\* A model that fails is replaced by the heuristics, and the row is COMPLETED
\* under the model's name all the same.
AdvisorAnswers(r, by) ==
    /\ IsAssessing(r)
    /\ by = "model" => req[r].key.model # None
    /\ CommitAnswer(r, by)
    /\ UNCHANGED <<config, items, born, stops>>

\* An exception before that commit: kept as FAILED, and raised again.
AdvisorRaises(r) ==
    /\ IsAssessing(r)
    /\ Commit(r, "FAILED", "heuristic")
    /\ Reply(r, 500)
    /\ UNCHANGED <<config, items, born, stops>>

MarkedFailed(row) == [id |-> row.id, key |-> row.key, status |-> "FAILED", by |-> row.by]

\* The refresh or the conversion is inside the same try: an exception there is
\* handled as if the advisor had raised, and the row that was committed as
\* COMPLETED is committed again as FAILED.  Its events stay.
RefreshRaises(r) ==
    /\ At(r, "stored") /\ req[r].key.kind = "assessment" /\ ~Locked
    /\ answers' = (answers \ {RowOf(r)}) \cup {MarkedFailed(RowOf(r))}
    /\ Reply(r, 500)
    /\ UNCHANGED <<config, audit, items, born, stops>>

=============================================================================
