--------------------------- MODULE FindingRecords ---------------------------
(***************************************************************************)
(* What the requests about one finding share: the settings of the process, *)
(* the rows of migration_assessments and explanations ("answers"), the     *)
(* audit events, the review items, and the handlers in progress.  A row is *)
(* visible once its transaction commits; `born` orders rows by created_at. *)
(***************************************************************************)
EXTENDS Naturals, FiniteSets, Functions

CONSTANTS
    Requests,      \* concurrent callers
    Findings,
    Profiles,      \* domain profiles (their hashes)
    Models,        \* values of GEMINI_MODEL
    None,
    SingleWriter,  \* TRUE: SQLite, one write transaction at a time
    MaxRows,       \* bound on the rows inserted
    MaxStops       \* bound on the restarts of the process

ASSUME RecordsAssumption ==
    /\ IsFiniteSet(Requests) /\ IsFiniteSet(Findings)
    /\ Findings # {} /\ Profiles # {} /\ Models # {}
    /\ None \notin Models \cup Profiles \cup Nat
    /\ SingleWriter \in BOOLEAN
    /\ MaxRows \in Nat /\ MaxStops \in Nat

VARIABLES
    config,   \* the model, and whether an API key is set
    answers,  \* committed explanations and assessments
    audit,    \* <<event, row>> of audit_events
    items,    \* items[i]: the review item i
    born,     \* rows inserted so far
    req,      \* req[r]: what the handler of request r is at
    stops

recordVars == <<answers, audit>>
vars == <<config, answers, audit, items, born, req, stops>>

Configs == [model : Models, configured : BOOLEAN]
Kinds == {"explanation", "assessment"}
Idle == [at |-> "idle"]

At(r, step) == req[r].at = step

\* A caller with nothing in progress: it has never asked, or has its answer.
Ready(r) == req[r].at \in {"idle", "answered"}

Go(r, state) == req' = [req EXCEPT ![r] = state]
Reply(r, code) == Go(r, [at |-> "answered", code |-> code])
ReplyRow(r, row, key) == Go(r, [at |-> "answered", code |-> 200, row |-> row, key |-> key])

\* A handler that has flushed an insert keeps its transaction open while the
\* model answers: on SQLite nobody else can write.
Locked == SingleWriter /\ \E s \in Requests : At(s, "calling")

\* The bound: a request that is to insert a row is begun only with room for it.
Inserting(r) == At(r, "miss") \/ (At(r, "loaded") /\ req[r].item = None)
Room == born + Cardinality({r \in Requests : Inserting(r)}) < MaxRows

NewItem(f, by) == [finding |-> f, status |-> "OPEN", note |-> None, by |-> by]

\* The scan has written its findings, with an open item for each of those that
\* are candidates for a migration.
RecordsInit ==
    /\ config \in Configs
    /\ answers = {} /\ audit = {}
    /\ \E candidates \in SUBSET Findings :
           /\ born = Cardinality(candidates)
           /\ \E at \in Bijection(1..born, candidates) :
                  items = [i \in 1..born |-> NewItem(at[i], "scan")]
    /\ req = [r \in Requests |-> Idle]
    /\ stops = 0

-----------------------------------------------------------------------------
\* Answers that are generated once and cached

\* Defect for AnswersFit: the model is left out of the key.
MatchesAnyModel(row, key) == [row.key EXCEPT !.model = None] = [key EXCEPT !.model = None]

Matches(row, key) == row.key = key

\* Defect for GeneratedAtMostPerCaller: what was generated is not found again.
CachedNever(key) == {}

Cached(key) == {row \in answers : row.status = "COMPLETED" /\ Matches(row, key)}

Newest(rows) == CHOOSE row \in rows : \A other \in rows : other.id <= row.id

\* A hit is answered at once; a miss goes on to insert a row.
LookUp(r, key) ==
    IF Cached(key) # {}
    THEN ReplyRow(r, Newest(Cached(key)), key)
    ELSE Room /\ Go(r, [at |-> "miss", key |-> key])

\* Defect for EventsMatchRows: committed before the model is called.
InsertCommitted(r) ==
    /\ At(r, "miss") /\ ~Locked
    /\ born' = born + 1
    /\ audit' = audit \cup {<<"REQUESTED", born'>>}
    /\ Go(r, [at |-> "calling", key |-> req[r].key, id |-> born'])
    /\ UNCHANGED <<config, answers, items, stops>>

\* The audit event and the PENDING row are flushed, not committed.
Insert(r) ==
    /\ At(r, "miss") /\ ~Locked
    /\ born' = born + 1
    /\ Go(r, [at |-> "calling", key |-> req[r].key, id |-> born'])
    /\ UNCHANGED <<config, answers, audit, items, stops>>

\* The commit that ends the call: the row with its outcome, and its events.
Commit(r, status, by) ==
    LET row == [id |-> req[r].id, key |-> req[r].key, status |-> status, by |-> by]
        ended == IF status = "COMPLETED" THEN {"COMPLETED"} ELSE {}
    IN /\ answers' = answers \cup {row}
       /\ audit' = audit \cup ({"REQUESTED"} \cup ended) \X {row.id}

\* A completed answer is committed before its handler goes on: the row is read
\* back (session.refresh), and the reply made of it.
CommitAnswer(r, by) ==
    /\ Commit(r, "COMPLETED", by)
    /\ Go(r, [at |-> "stored", key |-> req[r].key, id |-> req[r].id])

RowOf(r) == CHOOSE row \in answers : row.id = req[r].id

Answer(r) ==
    /\ At(r, "stored")
    /\ ReplyRow(r, RowOf(r), req[r].key)
    /\ UNCHANGED <<config, answers, audit, items, born, stops>>

=============================================================================
