---------------------------- MODULE Explanations ----------------------------
(* services/explanations.py over services/gemini.py: the explanation of a   *)
(* finding, generated by the model and cached under the model's name.       *)
EXTENDS FindingRecords

ExplanationKey(f) ==
    [kind |-> "explanation", finding |-> f, profile |-> None, model |-> config.model]

\* POST and GET /findings/{id}/explanation.  Without an API key nothing is read.
Explain(r, f) ==
    /\ Ready(r)
    /\ IF config.configured
       THEN LookUp(r, ExplanationKey(f))
       ELSE Reply(r, 503)
    /\ UNCHANGED <<config, answers, audit, items, born, stops>>

IsExplaining(r) == At(r, "calling") /\ req[r].key.kind = "explanation"

\* The reply of the model passes the schema.
ModelExplains(r) ==
    /\ IsExplaining(r)
    /\ CommitAnswer(r, "model")
    /\ UNCHANGED <<config, items, born, stops>>

\* Every way of failing is a GeminiError: an API error, a timeout, an empty or
\* truncated reply, one that does not validate.  The attempt is kept as FAILED.
ModelFails(r) ==
    /\ IsExplaining(r)
    /\ Commit(r, "FAILED", "model")
    /\ Reply(r, 503)
    /\ UNCHANGED <<config, items, born, stops>>

=============================================================================
