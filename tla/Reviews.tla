------------------------------ MODULE Reviews -------------------------------
(* services/reviews.py: the disposition of a finding, set by finding (POST   *)
(* /findings/{id}/review) or by item (PATCH /review-items/{id}).  A handler  *)
(* loads the item, and writes later, in a transaction of its own.            *)
EXTENDS FindingRecords

CONSTANTS
    Targets,   \* review statuses asked for
    Unset      \* a field the request does not send

ReviewStatus == {"OPEN", "IN_REVIEW", "REVIEWED", "RESOLVED", "ACCEPTED_RISK", "FALSE_POSITIVE"}

ASSUME ReviewsAssumption ==
    /\ Targets \subseteq ReviewStatus
    /\ Unset \notin Targets \cup {None}

Closed == {"RESOLVED", "ACCEPTED_RISK", "FALSE_POSITIVE"}
OpenStates == {"OPEN", "IN_REVIEW"}
LegalReviewTransitions == (OpenStates \cup Closed) \X (OpenStates \cup Closed)

\* REVIEWED is a legacy alias of RESOLVED.
Alias(status) == IF status = "REVIEWED" THEN "RESOLVED" ELSE status

Notes == {None, "text"}
Changes == [status : {Alias(t) : t \in Targets} \cup {Unset}, note : Notes \cup {Unset}]

ItemsOf(f) == {i \in DOMAIN items : items[i].finding = f}

\* Defect for ItemsBound: a disposition always opens an item.
AlwaysNew(f) == None

\* The newest item of the finding, or None: one is to be created.
CurrentOrNew(f) ==
    IF ItemsOf(f) = {} THEN None
    ELSE CHOOSE i \in ItemsOf(f) : \A j \in ItemsOf(f) : j <= i

\* A disposition always sends a status.  Its note: null is "not sent", and a
\* blank one clears the column.
LoadForDisposition(r, f, change) ==
    /\ Ready(r)
    /\ change.status # Unset
    /\ LET i == CurrentOrNew(f) IN
       /\ i = None => Room
       /\ Go(r, [at |-> "loaded", item |-> i, change |-> change,
                 seen |-> IF i = None THEN NewItem(f, "review") ELSE items[i]])
    /\ UNCHANGED <<config, answers, audit, items, born, stops>>

LoadForPatch(r, i, change) ==
    /\ Ready(r)
    /\ Go(r, [at |-> "loaded", item |-> i, change |-> change, seen |-> items[i]])
    /\ UNCHANGED <<config, answers, audit, items, born, stops>>

\* Defect for UnsentFieldsStay: every column is written, from the row as loaded.
WrittenWhole(now, seen, change) ==
    [now EXCEPT !.status = IF change.status = Unset THEN seen.status ELSE change.status,
                !.note = IF change.note = Unset THEN seen.note ELSE change.note]

\* Only the columns that differ from the row as loaded are in the UPDATE.
Written(now, seen, change) ==
    [now EXCEPT !.status = IF change.status \in {Unset, seen.status} THEN @ ELSE change.status,
                !.note = IF change.note \in {Unset, seen.note} THEN @ ELSE change.note]

\* No pair of statuses is illegal, so that the refusal (409) has no action.
Legal(seen, change) ==
    \/ change.status \in {Unset, Alias(seen.status)}
    \/ <<Alias(seen.status), change.status>> \in LegalReviewTransitions

\* The UPDATE, or INSERT and UPDATE, and the commit.  The reply is the row as it
\* is read back; if that fails the change stands and its caller sees an error.
WriteReview(r) ==
    LET q == req[r]
        id == IF q.item = None THEN born + 1 ELSE q.item
        old == IF q.item = None THEN q.seen ELSE items[q.item]
        row == Written(old, q.seen, q.change)
    IN
    /\ At(r, "loaded") /\ ~Locked
    /\ Legal(q.seen, q.change)
    /\ born' = IF q.item = None THEN id ELSE born
    /\ items' = [i \in DOMAIN items \cup {id} |-> IF i = id THEN row ELSE items[i]]
    /\ Reply(r, 200) \/ Reply(r, 500)
    /\ UNCHANGED <<config, answers, audit, stops>>

=============================================================================
