----------------------- MODULE FindingRequests_proofs -----------------------
(***************************************************************************)
(* The requests about a finding, for any number of callers, findings,      *)
(* profiles and restarts: rows and audit events match, an answer is the    *)
(* one that was asked for, a review changes what it sends and nothing      *)
(* else, and callers together do no more than one each.                    *)
(***************************************************************************)
EXTENDS FindingRequests, FiniteSetTheorems, WellFoundedInduction, TLAPS

\* What the rows and the handlers in progress look like.
Shapes ==
    /\ born \in Nat /\ config \in Configs /\ DOMAIN req = Requests
    /\ DOMAIN items \subseteq 1..born
    /\ \A i \in DOMAIN items : items[i] \in Items
    /\ \A r \in Requests : At(r, "loaded") => /\ req[r].change \in Changes
                                              /\ req[r].seen \in Items
                                              /\ req[r].item \in DOMAIN items \cup {None}

\* A handler that has an id: its row is open, or stored and still to be answered.
Open(r) == req[r].at \in {"calling", "stored"}

\* An id that was given is the id of one committed row or of one open call.
Ids ==
    /\ \A r \in Requests : Open(r) => req[r].id \in 1..born
    /\ \A r, s \in Requests : Open(r) /\ Open(s) /\ r # s => req[r].id # req[s].id
    /\ \A row \in answers : /\ row.id \in 1..born
                            /\ \A r \in Requests : At(r, "calling") => req[r].id # row.id

\* Until its handler goes on nobody else touches the row it has stored.
StoredRows ==
    \A r \in Requests : At(r, "stored") =>
        \E row \in answers : /\ row.id = req[r].id /\ row.key = req[r].key
                             /\ row.status = "COMPLETED"

\* A handler on its way to a row has the key of the settings of its process.
KeysFit ==
    \A r \in Requests : req[r].at \in {"miss", "calling", "stored"} =>
                            req[r].key.model \in {None, config.model}

IInv == Shapes /\ Ids /\ StoredRows /\ KeysFit /\ EventsMatchRows /\ AnswersFit

\* A reply with a row that is kept and that was asked for.
Fits(st) ==
    /\ Recorded(st.row) /\ st.row.status = "COMPLETED" /\ st.row.key = st.key
    /\ st.row.key.model \in {None, config.model}

ReplyFits(s) ==
    At(s, "answered") /\ req[s].code = 200 /\ "key" \in DOMAIN req[s] => Fits(req[s])

LEMMA AnswersFitEach == AnswersFit <=> \A s \in Requests : ReplyFits(s)
BY DEF AnswersFit, ReplyFits, Fits

-----------------------------------------------------------------------------
(* Choices *)

\* A non-empty set of ids that were given has a largest member.
LEMMA LargestExists ==
    ASSUME NEW n \in Nat, NEW S \in SUBSET (1..n), S # {}
    PROVE  \E x \in S : \A y \in S : y <= x
<1> DEFINE Suffixes == {x..n : x \in S}
<1>1. Suffixes # {} /\ Suffixes \subseteq FiniteSubsetsOf(Nat)
    <2>1. \A x \in S : x..n \in SUBSET Nat
        OBVIOUS
    <2>2. \A x \in S : IsFiniteSet(x..n)
        <3>1. TAKE x \in S
        <3>2. x \in Int /\ n \in Int
            OBVIOUS
        <3> QED BY <3>2, FS_Interval
    <2> QED BY <2>1, <2>2 DEF FiniteSubsetsOf
<1>2. PICK P \in Suffixes : \A Q \in Suffixes : ~(<<Q, P>> \in StrictSubsetOrdering(Nat))
    <2> HIDE DEF Suffixes
    <2> QED BY <1>1, FS_StrictSubsetOrderingWellFounded, WFMin
<1>3. PICK x \in S : P = x..n
    BY <1>2
<1>4. ASSUME NEW y \in S PROVE y <= x
    <2>1. x \in 1..n /\ y \in 1..n
        OBVIOUS
    <2>2. SUFFICES ASSUME x < y PROVE FALSE
        BY <2>1
    <2>3. y..n \in Suffixes /\ y..n \in SUBSET Nat /\ x..n \in SUBSET Nat
        BY <2>1
    <2>4. <<y..n, x..n>> \notin StrictSubsetOrdering(Nat)
        BY <1>2, <1>3, <2>3
    <2>5. y..n \subseteq x..n /\ x \in x..n /\ x \notin y..n
        BY <2>1, <2>2
    <2> QED BY <2>3, <2>4, <2>5 DEF StrictSubsetOrdering
<1> QED BY <1>4

\* Newest returns one of the rows, whenever there is one.
LEMMA NewestIsMember ==
    ASSUME NEW n \in Nat, NEW S, S # {}, \A row \in S : row.id \in 1..n
    PROVE  Newest(S) \in S
<1> DEFINE T == {row.id : row \in S}
<1>1. T \in SUBSET (1..n) /\ T # {}
    OBVIOUS
<1>2. PICK x \in T : \A y \in T : y <= x
    <2> HIDE DEF T
    <2> QED BY <1>1, LargestExists
<1>3. \E row \in S : \A other \in S : other.id <= row.id
    BY <1>2
<1> QED BY <1>3 DEF Newest

\* CurrentOrNew returns an item or None.
LEMMA CurrentIsItem ==
    ASSUME NEW f, NEW n \in Nat, DOMAIN items \subseteq 1..n
    PROVE  CurrentOrNew(f) \in DOMAIN items \cup {None}
<1>1. CASE ItemsOf(f) = {}
    BY <1>1 DEF CurrentOrNew
<1>2. CASE ItemsOf(f) # {}
    <2>1. ItemsOf(f) \in SUBSET (1..n)
        BY DEF ItemsOf
    <2>2. \E i \in ItemsOf(f) : \A j \in ItemsOf(f) : j <= i
        BY <1>2, <2>1, LargestExists
    <2>3. CurrentOrNew(f) \in ItemsOf(f)
        BY <1>2, <2>2 DEF CurrentOrNew
    <2> QED BY <2>3 DEF ItemsOf
<1> QED BY <1>1, <1>2

-----------------------------------------------------------------------------
(* Initial states *)

LEMMA InitInv == RecordsInit => IInv
<1> SUFFICES ASSUME RecordsInit PROVE IInv
    OBVIOUS
<1>1. PICK candidates \in SUBSET Findings :
          /\ born = Cardinality(candidates)
          /\ \E at \in Bijection(1..born, candidates) :
                 items = [i \in 1..born |-> NewItem(at[i], "scan")]
    BY DEF RecordsInit
<1>2. born \in Nat
    BY <1>1, RecordsAssumption, FS_Subset, FS_CardinalityType
<1>3. PICK at \in [1..born -> candidates] : items = [i \in 1..born |-> NewItem(at[i], "scan")]
    BY <1>1 DEF Bijection, Injection
<1>4. \A i \in 1..born : NewItem(at[i], "scan") \in Items
    BY <1>3 DEF NewItem, Items, ReviewStatus, Notes
<1>5. /\ answers = {} /\ audit = {} /\ config \in Configs
      /\ req = [r \in Requests |-> [at |-> "idle"]]
    BY DEF RecordsInit, Idle
<1>6. Shapes
    BY <1>2, <1>3, <1>4, <1>5 DEF Shapes, At
<1>7. Ids /\ StoredRows /\ KeysFit /\ AnswersFit
    BY <1>5 DEF Ids, Open, StoredRows, KeysFit, AnswersFit, At
<1>8. EventsMatchRows
    BY <1>5 DEF EventsMatchRows
<1> QED BY <1>6, <1>7, <1>8 DEF IInv

-----------------------------------------------------------------------------
(* The steps of a handler *)

\* One handler goes on, the others stay where they are.
LEMMA OneGoes ==
    ASSUME DOMAIN req = Requests, NEW r \in Requests, NEW st, Go(r, st)
    PROVE  /\ DOMAIN req' = Requests /\ req'[r] = st
           /\ \A s \in Requests : s # r => req'[s] = req[s]
BY DEF Go

\* A handler that touches no table: it looks something up, or it is over.
LEMMA QuietInv ==
    ASSUME IInv, NEW r \in Requests, NEW st, Go(r, st), st.at \notin {"calling", "stored"},
           UNCHANGED <<config, answers, audit, items, born>>,
           st.at = "miss" => st.key.model \in {None, config.model},
           st.at = "loaded" => /\ st.change \in Changes /\ st.seen \in Items
                               /\ st.item \in DOMAIN items \cup {None},
           st.at = "answered" /\ st.code = 200 /\ "key" \in DOMAIN st => Fits(st)
    PROVE  IInv'
<1>1. /\ DOMAIN req' = Requests /\ req'[r] = st
      /\ \A s \in Requests : s # r => req'[s] = req[s]
    BY OneGoes DEF IInv, Shapes
<1>2. Shapes'
    BY <1>1 DEF IInv, Shapes, At
<1>3. Ids' /\ StoredRows'
    BY <1>1 DEF IInv, Ids, StoredRows, Open, At
<1>4. KeysFit'
    BY <1>1 DEF IInv, KeysFit
<1>5. EventsMatchRows'
    BY DEF IInv, EventsMatchRows
<1>6. AnswersFit'
    BY <1>1 DEF IInv, AnswersFit, At, Fits, Recorded
<1> QED BY <1>2, <1>3, <1>4, <1>5, <1>6 DEF IInv

\* A plain status code says nothing of a row.
LEMMA ReplyInv ==
    ASSUME IInv, NEW r \in Requests, NEW code, Reply(r, code),
           UNCHANGED <<config, answers, audit, items, born>>
    PROVE  IInv'
<1> DEFINE st == [at |-> "answered", code |-> code]
<1>1. Go(r, st) /\ st.at = "answered" /\ "key" \notin DOMAIN st
    BY DEF Reply
<1> QED BY <1>1, QuietInv

\* A hit replies with a row of the key, a miss has a key that fits.
LEMMA LookUpInv ==
    ASSUME IInv, NEW r \in Requests, NEW key, key.model \in {None, config.model},
           LookUp(r, key), UNCHANGED <<config, answers, audit, items, born>>
    PROVE  IInv'
<1>1. CASE Cached(key) # {}
    <2> DEFINE row == Newest(Cached(key))
               st == [at |-> "answered", code |-> 200, row |-> row, key |-> key]
    <2>1. \A x \in Cached(key) : x.id \in 1..born
        BY DEF Cached, IInv, Ids
    <2>2. row \in Cached(key)
        BY <1>1, <2>1, NewestIsMember DEF IInv, Shapes
    <2>3. row \in answers /\ row.status = "COMPLETED" /\ row.key = key
        BY <2>2 DEF Cached, Matches
    <2> HIDE DEF row
    <2>4. Go(r, st) /\ st.at = "answered" /\ Fits(st)
        BY <1>1, <2>3 DEF LookUp, ReplyRow, Fits, Recorded, row
    <2> QED BY <2>4, QuietInv
<1>2. CASE Cached(key) = {}
    <2> DEFINE st == [at |-> "miss", key |-> key]
    <2>1. Go(r, st) /\ st.at = "miss" /\ st.key = key
        BY <1>2 DEF LookUp
    <2> QED BY <2>1, QuietInv
<1> QED BY <1>1, <1>2

\* The insert takes the next id, which no row and no other call has.
LEMMA InsertInv ==
    ASSUME IInv, NEW r \in Requests, Insert(r)
    PROVE  IInv'
<1> DEFINE st == [at |-> "calling", key |-> req[r].key, id |-> born']
<1>1. /\ Go(r, st) /\ req[r].at = "miss" /\ born' = born + 1
      /\ UNCHANGED <<config, answers, audit, items>>
    BY DEF Insert, At
<1>2. /\ DOMAIN req' = Requests /\ req'[r] = st
      /\ \A s \in Requests : s # r => req'[s] = req[s]
    BY <1>1, OneGoes DEF IInv, Shapes
<1>3. /\ st.at = "calling" /\ st.key = req[r].key /\ st.id = born + 1 /\ born \in Nat
    BY <1>1 DEF IInv, Shapes
<1> HIDE DEF st
<1>4. Shapes'
    BY <1>1, <1>2, <1>3 DEF IInv, Shapes, At
<1>5. Ids' /\ StoredRows'
    BY <1>1, <1>2, <1>3 DEF IInv, Ids, StoredRows, Open, At
<1>6. KeysFit'
    BY <1>1, <1>2, <1>3 DEF IInv, KeysFit
<1>7. EventsMatchRows'
    BY <1>1 DEF IInv, EventsMatchRows
<1>8. AnswersFit'
    BY <1>1, <1>2, <1>3 DEF IInv, AnswersFit, At, Recorded
<1> QED BY <1>4, <1>5, <1>6, <1>7, <1>8 DEF IInv

\* The commit that ends a call adds a row under an id of its own, and its events.
LEMMA CommitInv ==
    ASSUME IInv, NEW r \in Requests, At(r, "calling"),
           NEW status \in {"COMPLETED", "FAILED"}, NEW by, Commit(r, status, by),
           UNCHANGED <<config, items, born>>,
           NEW st, Go(r, st),
           \/ st.at = "answered" /\ "key" \notin DOMAIN st
           \/ /\ st.at = "stored" /\ status = "COMPLETED"
              /\ st.key = req[r].key /\ st.id = req[r].id
    PROVE  IInv'
<1> DEFINE id == req[r].id
           new == [id |-> id, key |-> req[r].key, status |-> status, by |-> by]
           events == {"REQUESTED"} \cup IF status = "COMPLETED" THEN {"COMPLETED"} ELSE {}
<1>1. /\ DOMAIN req' = Requests /\ req'[r] = st
      /\ \A s \in Requests : s # r => req'[s] = req[s]
    BY OneGoes DEF IInv, Shapes
<1>2. /\ answers' = answers \cup {new}
      /\ audit' = audit \cup (events \X {id})
    BY DEF Commit
<1>3. /\ new.id = id /\ new.key = req[r].key /\ new.status = status
      /\ id \in 1..born
      /\ \A row \in answers : row.id # id
      /\ req[r].key.model \in {None, config.model}
    BY DEF IInv, Ids, Open, KeysFit, At
<1>4. "REQUESTED" \in events /\ ("COMPLETED" \in events <=> status = "COMPLETED")
    OBVIOUS
<1> HIDE DEF new, events
<1>5. Shapes'
    BY <1>1 DEF IInv, Shapes, At
<1>6. Ids'
    BY <1>1, <1>2, <1>3 DEF IInv, Ids, Open, At
<1>7. KeysFit'
    BY <1>1, <1>3 DEF IInv, KeysFit
<1>8. StoredRows'
    <2>1. SUFFICES ASSUME NEW s \in Requests, At(s, "stored")'
                   PROVE  \E row \in answers' : /\ row.id = req'[s].id
                                                /\ row.key = req'[s].key
                                                /\ row.status = "COMPLETED"
        BY DEF StoredRows
    <2>2. CASE s = r
        BY <1>1, <1>2, <1>3, <2>1, <2>2 DEF At
    <2>3. CASE s # r
        BY <1>1, <1>2, <2>1, <2>3 DEF IInv, StoredRows, At
    <2> QED BY <2>2, <2>3
<1>9. EventsMatchRows'
    <2>1. {e[2] : e \in audit'} = {e[2] : e \in audit} \cup {id}
        <3>1. \A e \in events \X {id} : e[2] = id
            OBVIOUS
        <3>2. <<"REQUESTED", id>> \in events \X {id}
            BY <1>4
        <3> QED BY <1>2, <3>1, <3>2
    <2>2. {row.id : row \in answers'} = {row.id : row \in answers} \cup {id}
        BY <1>2, <1>3
    <2>3. {e[2] : e \in audit} = {row.id : row \in answers}
        BY DEF IInv, EventsMatchRows
    <2>4. <<"COMPLETED", id>> \notin audit
        <3>1. SUFFICES ASSUME <<"COMPLETED", id>> \in audit PROVE FALSE
            OBVIOUS
        <3>2. id \in {e[2] : e \in audit}
            BY <3>1
        <3> QED BY <1>3, <2>3, <3>2
    <2>5. ASSUME NEW row \in answers'
          PROVE  /\ row.status = "COMPLETED" => <<"COMPLETED", row.id>> \in audit'
                 /\ <<"COMPLETED", row.id>> \in audit' =>
                        row.status = "COMPLETED" \/ row.key.kind = "assessment"
        <3>1. CASE row \in answers
            <4>1. <<"COMPLETED", row.id>> \notin events \X {id}
                BY <1>3, <3>1
            <4> QED BY <1>2, <3>1, <4>1 DEF IInv, EventsMatchRows
        <3>2. CASE row = new
            <4>1. <<"COMPLETED", row.id>> \in audit' <=> row.status = "COMPLETED"
                BY <1>2, <1>3, <1>4, <2>4, <3>2
            <4> QED BY <4>1
        <3> QED BY <1>2, <3>1, <3>2
    <2>6. \A row, other \in answers' : row.id = other.id => row = other
        BY <1>2, <1>3 DEF IInv, EventsMatchRows
    <2> QED BY <2>1, <2>2, <2>3, <2>5, <2>6 DEF EventsMatchRows
<1>10. AnswersFit'
    <2>1. SUFFICES ASSUME NEW s \in Requests, At(s, "answered")', req'[s].code = 200,
                          "key" \in DOMAIN req'[s]
                   PROVE  Fits(req[s])'
        <3>1. AnswersFit' <=> \A s \in Requests : ReplyFits(s)'
            BY DEF AnswersFit, ReplyFits, Fits
        <3> QED BY <3>1 DEF ReplyFits, At
    <2>2. s # r
        BY <1>1, <2>1 DEF At
    <2>3. req'[s] = req[s] /\ Fits(req[s])
        BY <1>1, <2>1, <2>2, AnswersFitEach DEF IInv, ReplyFits, At
    <2> QED BY <1>2, <2>3 DEF Fits, Recorded
<1> QED BY <1>5, <1>6, <1>7, <1>8, <1>9, <1>10 DEF IInv

LEMMA ModelEndsInv ==
    ASSUME IInv, NEW r \in Requests, ModelEnds(r)
    PROVE  IInv'
<1>1. CASE ModelExplains(r) \/ \E by \in {"model", "heuristic"} : AdvisorAnswers(r, by)
    <2> DEFINE st == [at |-> "stored", key |-> req[r].key, id |-> req[r].id]
    <2>1. PICK by : CommitAnswer(r, by)
        BY <1>1 DEF ModelExplains, AdvisorAnswers
    <2>2. /\ At(r, "calling") /\ UNCHANGED <<config, items, born>>
          /\ Commit(r, "COMPLETED", by) /\ Go(r, st)
          /\ st.at = "stored" /\ st.key = req[r].key /\ st.id = req[r].id
        BY <1>1, <2>1
        DEF ModelExplains, AdvisorAnswers, IsExplaining, IsAssessing, CommitAnswer
    <2> HIDE DEF st
    <2> QED BY <2>2, CommitInv
<1>2. CASE ModelFails(r) \/ AdvisorRaises(r)
    <2>1. PICK by, code : /\ Commit(r, "FAILED", by) /\ Reply(r, code)
                          /\ At(r, "calling") /\ UNCHANGED <<config, items, born>>
        BY <1>2 DEF ModelFails, AdvisorRaises, IsExplaining, IsAssessing
    <2> DEFINE st == [at |-> "answered", code |-> code]
    <2>2. Go(r, st) /\ st.at = "answered" /\ "key" \notin DOMAIN st
        BY <2>1 DEF Reply
    <2> HIDE DEF st
    <2> QED BY <2>1, <2>2, CommitInv
<1> QED BY <1>1, <1>2 DEF ModelEnds

\* The row a handler has stored is the only one of its id, and COMPLETED.
LEMMA StoredRow ==
    ASSUME IInv, NEW r \in Requests, At(r, "stored")
    PROVE  /\ RowOf(r) \in answers /\ RowOf(r).id = req[r].id
           /\ RowOf(r).key = req[r].key /\ RowOf(r).status = "COMPLETED"
           /\ \A row \in answers : row.id = req[r].id => row = RowOf(r)
<1>1. PICK row \in answers : /\ row.id = req[r].id /\ row.key = req[r].key
                             /\ row.status = "COMPLETED"
    BY DEF IInv, StoredRows
<1>2. \A other \in answers : other.id = req[r].id <=> other = row
    BY <1>1 DEF IInv, EventsMatchRows
<1>3. RowOf(r) = row
    BY <1>2 DEF RowOf
<1> QED BY <1>1, <1>2, <1>3

\* The answer is the row that was stored.
LEMMA AnswerInv ==
    ASSUME IInv, NEW r \in Requests, Answer(r)
    PROVE  IInv'
<1> DEFINE st == [at |-> "answered", code |-> 200, row |-> RowOf(r), key |-> req[r].key]
<1>1. /\ Go(r, st) /\ st.at = "answered" /\ st.row = RowOf(r) /\ st.key = req[r].key
      /\ At(r, "stored") /\ UNCHANGED <<config, answers, audit, items, born>>
    BY DEF Answer, ReplyRow
<1>2. req[r].key.model \in {None, config.model}
    BY <1>1 DEF IInv, KeysFit, At
<1> HIDE DEF st
<1>3. Fits(st)
    BY <1>1, <1>2, StoredRow DEF Fits, Recorded
<1> QED BY <1>1, <1>3, QuietInv

\* A row that is marked FAILED keeps its id, its key and its events.
LEMMA RefreshRaisesInv ==
    ASSUME IInv, NEW r \in Requests, RefreshRaises(r)
    PROVE  IInv'
<1> DEFINE old == RowOf(r)
           new == MarkedFailed(old)
           st == [at |-> "answered", code |-> 500]
<1>1. /\ At(r, "stored") /\ req[r].key.kind = "assessment"
      /\ answers' = (answers \ {old}) \cup {new}
      /\ UNCHANGED <<config, audit, items, born>>
      /\ Go(r, st) /\ st.at = "answered" /\ "key" \notin DOMAIN st
    BY DEF RefreshRaises, Reply
<1>2. /\ old \in answers /\ old.id = req[r].id /\ old.key = req[r].key
      /\ \A row \in answers : row.id = old.id => row = old
    BY <1>1, StoredRow
<1>3. new.id = old.id /\ new.key = old.key /\ new.status = "FAILED"
    BY DEF MarkedFailed
<1> HIDE DEF st
<1>4. /\ DOMAIN req' = Requests /\ req'[r] = st
      /\ \A s \in Requests : s # r => req'[s] = req[s]
    BY <1>1, OneGoes DEF IInv, Shapes
<1>5. \A row : MarkedFailed(row) = new => row.id = old.id
    BY DEF MarkedFailed
<1> HIDE DEF old, new
<1>6. \A row \in answers' : \E was \in answers : was.id = row.id /\ was.key = row.key
    BY <1>1, <1>2, <1>3
<1>7. \A row \in answers : row.id # old.id => row \in answers'
    BY <1>1
<1>8. Shapes'
    BY <1>1, <1>4 DEF IInv, Shapes, At
<1>9. Ids'
    BY <1>1, <1>4, <1>6 DEF IInv, Ids, Open, At
<1>10. KeysFit'
    BY <1>1, <1>4 DEF IInv, KeysFit
<1>11. StoredRows'
    <2>1. SUFFICES ASSUME NEW s \in Requests, At(s, "stored")'
                   PROVE  \E row \in answers' : /\ row.id = req'[s].id
                                                /\ row.key = req'[s].key
                                                /\ row.status = "COMPLETED"
        BY DEF StoredRows
    <2>2. s # r /\ req'[s] = req[s] /\ At(s, "stored")
        BY <1>1, <1>4, <2>1 DEF At
    <2>3. req[s].id # old.id
        BY <1>1, <1>2, <2>2 DEF IInv, Ids, Open, At
    <2>4. PICK row \in answers : /\ row.id = req[s].id /\ row.key = req[s].key
                                 /\ row.status = "COMPLETED"
        BY <2>2 DEF IInv, StoredRows
    <2> QED BY <1>7, <2>2, <2>3, <2>4
<1>12. EventsMatchRows'
    <2>1. {row.id : row \in answers'} = {row.id : row \in answers}
        BY <1>1, <1>2, <1>3
    <2>2. \A row \in answers' :
              /\ row.status = "COMPLETED" => <<"COMPLETED", row.id>> \in audit
              /\ <<"COMPLETED", row.id>> \in audit =>
                     row.status = "COMPLETED" \/ row.key.kind = "assessment"
        BY <1>1, <1>2, <1>3 DEF IInv, EventsMatchRows
    <2>3. \A row, other \in answers' : row.id = other.id => row = other
        BY <1>1, <1>2, <1>3 DEF IInv, EventsMatchRows
    <2> QED BY <1>1, <2>1, <2>2, <2>3 DEF IInv, EventsMatchRows
<1>13. AnswersFit'
    <2>1. SUFFICES ASSUME NEW s \in Requests, At(s, "answered")', req'[s].code = 200,
                          "key" \in DOMAIN req'[s]
                   PROVE  Fits(req[s])'
        <3>1. AnswersFit' <=> \A s \in Requests : ReplyFits(s)'
            BY DEF AnswersFit, ReplyFits, Fits
        <3> QED BY <3>1 DEF ReplyFits, At
    <2>2. s # r
        BY <1>1, <1>4, <2>1 DEF At
    <2>3. req'[s] = req[s] /\ Fits(req[s])
        BY <1>4, <2>1, <2>2, AnswersFitEach DEF IInv, ReplyFits, At
    <2>5. PICK row : row = req[s].row
        OBVIOUS
    <2>4. Recorded(row)'
        <3>1. CASE row \in answers
            <4>1. CASE row = old
                <5>1. MarkedFailed(row) = new /\ row.key.kind = "assessment"
                    BY <1>1, <1>2, <4>1 DEF new
                <5> QED BY <1>1, <5>1 DEF Recorded
            <4>2. CASE row # old
                BY <1>1, <3>1, <4>2 DEF Recorded
            <4> QED BY <4>1, <4>2
        <3>2. CASE row.key.kind = "assessment" /\ MarkedFailed(row) \in answers
            <4>1. CASE MarkedFailed(row) = old
                <5>1. old.status = "FAILED"
                    BY <4>1 DEF MarkedFailed
                <5>2. old.status = "COMPLETED"
                    BY <1>1, StoredRow DEF old
                <5> QED BY <5>1, <5>2
            <4>2. CASE MarkedFailed(row) # old
                BY <1>1, <3>2, <4>2 DEF Recorded
            <4> QED BY <4>1, <4>2
        <3> QED BY <2>3, <2>5, <3>1, <3>2 DEF Fits, Recorded
    <2> QED BY <1>1, <2>3, <2>4, <2>5 DEF Fits, Recorded
<1> QED BY <1>8, <1>9, <1>10, <1>11, <1>12, <1>13 DEF IInv

-----------------------------------------------------------------------------
(* Reviews *)

\* What a disposition writes is an item, with what it does not send as it is now.
LEMMA WrittenIsItem ==
    ASSUME NEW now \in Items, NEW seen \in Items, NEW change \in Changes
    PROVE  /\ Written(now, seen, change) \in Items
           /\ change.status = Unset => Written(now, seen, change).status = now.status
           /\ change.note = Unset => Written(now, seen, change).note = now.note
<1> DEFINE status == IF change.status \in {Unset, seen.status} THEN now.status ELSE change.status
           note == IF change.note \in {Unset, seen.note} THEN now.note ELSE change.note
<1>1. change.status \in ReviewStatus \cup {Unset} /\ change.note \in Notes \cup {Unset}
    BY ReviewsAssumption DEF Changes, Alias, ReviewStatus
<1>2. status \in ReviewStatus /\ note \in Notes
    BY <1>1 DEF Items
<1>3. Written(now, seen, change) = [now EXCEPT !.status = status, !.note = note]
    BY DEF Written
<1> HIDE DEF status, note
<1>4. /\ Written(now, seen, change) \in Items
      /\ Written(now, seen, change).status = status
      /\ Written(now, seen, change).note = note
    BY <1>2, <1>3 DEF Items
<1> QED BY <1>4 DEF status, note

LEMMA LoadForDispositionInv ==
    ASSUME IInv, NEW r \in Requests, NEW f \in Findings, NEW change \in Changes,
           LoadForDisposition(r, f, change)
    PROVE  IInv'
<1> DEFINE i == CurrentOrNew(f)
           st == [at |-> "loaded", item |-> i, change |-> change,
                  seen |-> IF i = None THEN NewItem(f, "review") ELSE items[i]]
<1>1. i \in DOMAIN items \cup {None}
    BY CurrentIsItem DEF IInv, Shapes
<1>2. NewItem(f, "review") \in Items
    BY DEF NewItem, Items, ReviewStatus, Notes
<1>3. /\ Go(r, st) /\ st.at = "loaded" /\ st.item = i /\ st.change = change
      /\ st.seen = IF i = None THEN NewItem(f, "review") ELSE items[i]
      /\ UNCHANGED <<config, answers, audit, items, born>>
    BY DEF LoadForDisposition
<1> HIDE DEF st, i
<1>4. st.seen \in Items
    BY <1>1, <1>2, <1>3 DEF IInv, Shapes
<1> QED BY <1>1, <1>3, <1>4, QuietInv

LEMMA LoadForPatchInv ==
    ASSUME IInv, NEW r \in Requests, NEW i \in DOMAIN items, NEW change \in Changes,
           LoadForPatch(r, i, change)
    PROVE  IInv'
<1> DEFINE st == [at |-> "loaded", item |-> i, change |-> change, seen |-> items[i]]
<1>1. /\ Go(r, st) /\ st.at = "loaded" /\ st.item = i /\ st.change = change
      /\ st.seen = items[i] /\ items[i] \in Items
      /\ UNCHANGED <<config, answers, audit, items, born>>
    BY DEF LoadForPatch, IInv, Shapes
<1> HIDE DEF st
<1> QED BY <1>1, QuietInv

\* A write changes one item, to what Written says of it.
LEMMA WriteReviewInv ==
    ASSUME IInv, NEW r \in Requests, WriteReview(r)
    PROVE  /\ IInv'
           /\ \A i \in DOMAIN items : req[r].item = i =>
                  items'[i] = Written(items[i], req[r].seen, req[r].change)
<1> DEFINE q == req[r]
           id == IF q.item = None THEN born + 1 ELSE q.item
           old == IF q.item = None THEN q.seen ELSE items[q.item]
           row == Written(old, q.seen, q.change)
<1>1. /\ q.change \in Changes /\ q.seen \in Items /\ q.item \in DOMAIN items \cup {None}
      /\ born \in Nat /\ DOMAIN items \subseteq 1..born
    BY DEF WriteReview, IInv, Shapes
<1>2. /\ born' = IF q.item = None THEN id ELSE born
      /\ items' = [i \in DOMAIN items \cup {id} |-> IF i = id THEN row ELSE items[i]]
      /\ UNCHANGED <<config, answers, audit>>
    BY DEF WriteReview
<1> DEFINE ok == [at |-> "answered", code |-> 200]
           error == [at |-> "answered", code |-> 500]
<1>13. PICK st : Go(r, st) /\ st.at = "answered" /\ "key" \notin DOMAIN st
    <2>1. Go(r, ok) \/ Go(r, error)
        BY DEF WriteReview, Reply
    <2>2. /\ ok.at = "answered" /\ "key" \notin DOMAIN ok
          /\ error.at = "answered" /\ "key" \notin DOMAIN error
        OBVIOUS
    <2> HIDE DEF ok, error
    <2> QED BY <2>1, <2>2
<1>3. old \in Items
    BY <1>1 DEF IInv, Shapes
<1>4. row \in Items
    BY <1>1, <1>3, WrittenIsItem
<1>5. /\ DOMAIN req' = Requests /\ req'[r] = st
      /\ \A s \in Requests : s # r => req'[s] = req[s]
    BY <1>13, OneGoes DEF IInv, Shapes
<1>6. born' \in Nat /\ born <= born' /\ id \in 1..born' /\ 1..born \subseteq 1..born'
    BY <1>1, <1>2
<1>7. DOMAIN items' = DOMAIN items \cup {id}
    BY <1>2
<1>8. \A i \in DOMAIN items : q.item = i => items'[i] = Written(items[i], q.seen, q.change)
    BY <1>1, <1>2, RecordsAssumption
<1> HIDE DEF row, old, id
<1>9. Shapes'
    <2>1. \A i \in DOMAIN items' : items'[i] \in Items
        BY <1>2, <1>4, <1>7 DEF IInv, Shapes
    <2>2. \A s \in Requests : At(s, "loaded")' =>
              /\ req'[s].change \in Changes /\ req'[s].seen \in Items
              /\ req'[s].item \in DOMAIN items' \cup {None}
        BY <1>2, <1>5, <1>7, <1>13 DEF IInv, Shapes, At
    <2> QED BY <1>1, <1>2, <1>5, <1>6, <1>7, <2>1, <2>2 DEF IInv, Shapes, At
<1>10. Ids'
    BY <1>2, <1>5, <1>6, <1>13 DEF IInv, Ids, Open, At
<1>11. KeysFit' /\ EventsMatchRows' /\ StoredRows'
    <2>1. KeysFit'
        BY <1>2, <1>5, <1>13 DEF IInv, KeysFit
    <2>2. EventsMatchRows'
        BY <1>2 DEF IInv, EventsMatchRows
    <2>3. StoredRows'
        BY <1>2, <1>5, <1>13 DEF IInv, StoredRows, At
    <2> QED BY <2>1, <2>2, <2>3
<1>12. AnswersFit'
    BY <1>2, <1>5, <1>13 DEF IInv, AnswersFit, Recorded, At
<1> QED BY <1>8, <1>9, <1>10, <1>11, <1>12 DEF IInv

-----------------------------------------------------------------------------
(* All steps *)

LEMMA StartInv ==
    ASSUME IInv, NEW r \in Requests, Start(r)
    PROVE  IInv'
<1>1. ASSUME NEW f \in Findings, Explain(r, f) PROVE IInv'
    <2>1. UNCHANGED <<config, answers, audit, items, born>>
        BY <1>1 DEF Explain
    <2>2. ExplanationKey(f).model = config.model
        BY DEF ExplanationKey
    <2> QED BY <1>1, <2>1, <2>2, LookUpInv, ReplyInv DEF Explain
<1>2. ASSUME NEW f \in Findings, NEW p \in Profiles, Assess(r, f, p) PROVE IInv'
    <2>1. UNCHANGED <<config, answers, audit, items, born>>
        BY <1>2 DEF Assess
    <2>2. AssessmentKey(f, p).model \in {None, config.model}
        BY DEF AssessmentKey
    <2> QED BY <1>2, <2>1, <2>2, LookUpInv DEF Assess
<1>3. ASSUME NEW f \in Findings, NEW change \in Changes, LoadForDisposition(r, f, change)
      PROVE  IInv'
    BY <1>3, LoadForDispositionInv
<1>4. ASSUME NEW i \in DOMAIN items, NEW change \in Changes, LoadForPatch(r, i, change)
      PROVE  IInv'
    BY <1>4, LoadForPatchInv
<1> QED BY <1>1, <1>2, <1>3, <1>4 DEF Start

LEMMA StepInv == IInv /\ [Next]_vars => IInv'
<1> SUFFICES ASSUME IInv, [Next]_vars PROVE IInv'
    OBVIOUS
<1>1. ASSUME NEW r \in Requests, Start(r) \/ Handle(r) \/ DatabaseFails(r) PROVE IInv'
    <2>1. CASE DatabaseFails(r) \/ LockTimeout(r)
        BY <2>1, ReplyInv DEF DatabaseFails, LockTimeout
    <2> QED BY <1>1, <2>1, StartInv, InsertInv, ModelEndsInv, AnswerInv, RefreshRaisesInv,
               WriteReviewInv
            DEF Handle
<1>2. CASE Restart
    <2>1. /\ config' \in Configs /\ UNCHANGED <<answers, audit, items, born>>
          /\ req' = [r \in Requests |-> [at |-> "idle"]]
        BY <1>2 DEF Restart, Idle
    <2>2. Shapes' /\ Ids' /\ StoredRows'
        BY <2>1 DEF IInv, Shapes, Ids, StoredRows, Open, At
    <2>3. KeysFit' /\ EventsMatchRows' /\ AnswersFit'
        BY <2>1 DEF IInv, KeysFit, EventsMatchRows, AnswersFit, At
    <2> QED BY <2>2, <2>3 DEF IInv
<1>3. CASE UNCHANGED vars
    <2> USE <1>3 DEF vars
    <2>1. Shapes' /\ Ids' /\ KeysFit' /\ StoredRows'
        BY DEF IInv, Shapes, Ids, KeysFit, StoredRows, Open, At
    <2>2. EventsMatchRows' /\ AnswersFit'
        BY DEF IInv, EventsMatchRows, AnswersFit, Recorded, At
    <2> QED BY <2>1, <2>2 DEF IInv
<1> QED BY <1>1, <1>2, <1>3 DEF Next

\* The inductive invariant holds for any number of callers.
THEOREM Inductive == Spec => []IInv
BY InitInv, StepInv, PTL DEF Spec

\* Whatever stops a handler or its process, each row has its events and each
\* event its row; a FAILED row with an event of completion is an assessment whose
\* handler failed after the commit (explanations.py, migration_assessments.py).
THEOREM EventsAlwaysMatchRows == Spec => []EventsMatchRows
<1>1. IInv => EventsMatchRows
    BY DEF IInv
<1> QED BY <1>1, Inductive, PTL

\* An answer, cached or new, is for the finding, the profile and the model that
\* were asked for (explanations.py, migration_assessments.py).
THEOREM AnswersAreForTheQuestion == Spec => []AnswersFit
<1>1. IInv => AnswersFit
    BY DEF IInv
<1> QED BY <1>1, Inductive, PTL

\* However the requests of reviewers interleave, none overwrites a field it does
\* not send (update_review_item, record_disposition).
THEOREM UnsentFieldsAreKept == Spec => UnsentFieldsStay
<1>1. IInv /\ [Next]_vars =>
        [\A r \in Requests, i \in DOMAIN items :
            At(r, "loaded") /\ req[r].item = i /\ req'[r].at = "answered" =>
              /\ req[r].change.status = Unset => items'[i].status = items[i].status
              /\ req[r].change.note = Unset => items'[i].note = items[i].note]_vars
    <2> SUFFICES ASSUME IInv, Next, NEW r \in Requests, NEW i \in DOMAIN items,
                        At(r, "loaded"), req[r].item = i, req'[r].at = "answered"
                 PROVE  /\ req[r].change.status = Unset => items'[i].status = items[i].status
                        /\ req[r].change.note = Unset => items'[i].note = items[i].note
        BY DEF vars
    <2>1. CASE WriteReview(r)
        <3>1. items'[i] = Written(items[i], req[r].seen, req[r].change)
            BY <2>1, WriteReviewInv
        <3>2. items[i] \in Items /\ req[r].seen \in Items /\ req[r].change \in Changes
            BY DEF IInv, Shapes
        <3> DEFINE row == Written(items[i], req[r].seen, req[r].change)
        <3>3. /\ req[r].change.status = Unset => row.status = items[i].status
              /\ req[r].change.note = Unset => row.note = items[i].note
            BY <3>2, WrittenIsItem
        <3> HIDE DEF row
        <3>4. items'[i] = row
            BY <3>1 DEF row
        <3> QED BY <3>3, <3>4
    <2>2. ASSUME NEW s \in Requests, s # r, WriteReview(s) PROVE FALSE
        <3>1. req'[r] = req[r]
            <4>1. Reply(s, 200) \/ Reply(s, 500)
                BY <2>2, Zenon DEF WriteReview
            <4>2. \/ Go(s, [at |-> "answered", code |-> 200])
                  \/ Go(s, [at |-> "answered", code |-> 500])
                BY <4>1 DEF Reply
            <4>3. DOMAIN req = Requests
                BY DEF IInv, Shapes
            <4> QED BY <2>2, <4>2, <4>3, OneGoes
        <3> QED BY <3>1 DEF At
    <2>3. CASE UNCHANGED items
        BY <2>3
    <2>4. UNCHANGED items \/ \E s \in Requests : WriteReview(s)
        BY DEF Next, Start, Explain, Assess, LoadForDisposition, LoadForPatch, Handle, Insert,
               ModelEnds, ModelExplains, ModelFails, AdvisorAnswers, AdvisorRaises, Answer,
               RefreshRaises, LockTimeout, DatabaseFails, Restart
    <2> QED BY <2>1, <2>2, <2>3, <2>4
<1> QED BY <1>1, Inductive, PTL DEF Spec, UnsentFieldsStay

-----------------------------------------------------------------------------
(***************************************************************************)
(* How often concurrent callers can do what one of them would have done    *)
(* once.  What is committed is counted together with the handlers that     *)
(* have already found that it is not there: together they are never more   *)
(* than the callers.                                                       *)
(***************************************************************************)

\* The completed answers of a key, and the handlers that are to add one.
Kept(key) == {row \in answers : row.status = "COMPLETED" /\ row.key = key}
Generating(key) == {r \in Requests : req[r].at \in {"miss", "calling"} /\ req[r].key = key}

KeyInv(key) ==
    /\ IsFiniteSet(Kept(key))
    /\ Cardinality(Kept(key)) + Cardinality(Generating(key)) <= Cardinality(Requests)

\* The handlers that found no item for a finding, and are to create one.
Creating(f) ==
    {r \in Requests : At(r, "loaded") /\ req[r].item = None /\ req[r].seen.finding = f}

FromScan(f) == \E i \in ItemsOf(f) : items[i].by = "scan"

ItemInv(f) ==
    /\ IsFiniteSet(ItemsOf(f))
    /\ IF FromScan(f)
       THEN Cardinality(ItemsOf(f)) = 1 /\ Creating(f) = {}
       ELSE Cardinality(ItemsOf(f)) + Cardinality(Creating(f)) <= Cardinality(Requests)

\* An item that is to be created is the reviewer's.
CreatedByReview ==
    \A r \in Requests : At(r, "loaded") /\ req[r].item = None => req[r].seen.by = "review"

CInv == CreatedByReview /\ (\A key : KeyInv(key)) /\ (\A f : ItemInv(f))

-----------------------------------------------------------------------------
(* Counting *)

LEMMA CallersAreFinite ==
    ASSUME NEW S \in SUBSET Requests
    PROVE  /\ IsFiniteSet(S) /\ Cardinality(S) \in Nat
           /\ Cardinality(Requests) \in Nat /\ Cardinality(S) <= Cardinality(Requests)
BY RecordsAssumption, FS_Subset, FS_CardinalityType

\* Neither side grows.
LEMMA SumShrinks ==
    ASSUME NEW A, NEW B, IsFiniteSet(A), B \subseteq A,
           NEW P \in SUBSET Requests, NEW Q \in SUBSET P,
           Cardinality(A) + Cardinality(P) <= Cardinality(Requests)
    PROVE  IsFiniteSet(B) /\ Cardinality(B) + Cardinality(Q) <= Cardinality(Requests)
<1>1. /\ IsFiniteSet(B) /\ Cardinality(B) <= Cardinality(A)
      /\ Cardinality(B) \in Nat /\ Cardinality(A) \in Nat
    BY FS_Subset, FS_CardinalityType
<1>2. /\ Cardinality(Q) <= Cardinality(P)
      /\ Cardinality(Q) \in Nat /\ Cardinality(P) \in Nat /\ Cardinality(Requests) \in Nat
    BY CallersAreFinite, FS_Subset
<1> QED BY <1>1, <1>2

\* A caller leaves for the element it adds.
LEMMA SumMoves ==
    ASSUME NEW A, NEW x, IsFiniteSet(A),
           NEW P \in SUBSET Requests, NEW r \in P, NEW Q \in SUBSET (P \ {r}),
           Cardinality(A) + Cardinality(P) <= Cardinality(Requests)
    PROVE  /\ IsFiniteSet(A \cup {x})
           /\ Cardinality(A \cup {x}) + Cardinality(Q) <= Cardinality(Requests)
<1>1. /\ IsFiniteSet(A \cup {x}) /\ Cardinality(A \cup {x}) <= Cardinality(A) + 1
      /\ Cardinality(A \cup {x}) \in Nat /\ Cardinality(A) \in Nat
    <2>1. Cardinality(A) \in Nat
        BY FS_CardinalityType
    <2>2. /\ IsFiniteSet(A \cup {x})
          /\ Cardinality(A \cup {x}) = IF x \in A THEN Cardinality(A) ELSE Cardinality(A) + 1
        BY FS_AddElement
    <2> QED BY <2>1, <2>2
<1>2. IsFiniteSet(P) /\ Cardinality(P) \in Nat /\ Cardinality(Requests) \in Nat
    BY CallersAreFinite
<1>3. Cardinality(P \ {r}) = Cardinality(P) - 1 /\ IsFiniteSet(P \ {r})
    BY <1>2, FS_RemoveElement
<1>4. Cardinality(Q) <= Cardinality(P \ {r}) /\ Cardinality(Q) \in Nat
    BY <1>3, FS_Subset, FS_CardinalityType
<1> QED BY <1>1, <1>2, <1>3, <1>4

\* Nothing is there yet, whoever is about to add.
LEMMA SumStarts ==
    ASSUME NEW P \in SUBSET Requests
    PROVE  IsFiniteSet({}) /\ Cardinality({}) + Cardinality(P) <= Cardinality(Requests)
BY CallersAreFinite, FS_EmptySet

-----------------------------------------------------------------------------
(* Initial states *)

LEMMA InitCounts == RecordsInit => CInv
<1> SUFFICES ASSUME RecordsInit PROVE CInv
    OBVIOUS
<1>1. /\ answers = {} /\ req = [r \in Requests |-> [at |-> "idle"]]
    BY DEF RecordsInit, Idle
<1>2. \A r \in Requests : req[r].at = "idle"
    BY <1>1
<1>3. CreatedByReview
    BY <1>2 DEF CreatedByReview, At
<1>4. ASSUME NEW key PROVE KeyInv(key)
    <2>1. Kept(key) = {} /\ Generating(key) \in SUBSET Requests
        BY <1>1 DEF Kept, Generating
    <2> QED BY <2>1, SumStarts DEF KeyInv
<1>5. ASSUME NEW f PROVE ItemInv(f)
    <2>1. Creating(f) = {}
        BY <1>2 DEF Creating, At
    <2>2. PICK candidates \in SUBSET Findings :
              \E at \in Bijection(1..born, candidates) :
                  items = [i \in 1..born |-> NewItem(at[i], "scan")]
        BY DEF RecordsInit
    <2>3. PICK at \in Injection(1..born, candidates) :
              items = [i \in 1..born |-> NewItem(at[i], "scan")]
        BY <2>2 DEF Bijection
    <2>4. \A i, j \in 1..born : at[i] = at[j] => i = j
        BY <2>3 DEF Injection, IsInjective
    <2>5. \A i \in 1..born : items[i].finding = at[i] /\ items[i].by = "scan"
        BY <2>3 DEF NewItem
    <2>6. DOMAIN items = 1..born
        BY <2>3
    <2>7. CASE ItemsOf(f) = {}
        <3>1. ~FromScan(f)
            BY <2>7 DEF FromScan
        <3> QED BY <2>1, <2>7, <3>1, SumStarts DEF ItemInv
    <2>8. CASE ItemsOf(f) # {}
        <3>1. PICK i : i \in ItemsOf(f)
            BY <2>8
        <3>2. ItemsOf(f) = {i} /\ FromScan(f)
            BY <2>4, <2>5, <2>6, <3>1 DEF ItemsOf, FromScan
        <3>3. IsFiniteSet({i}) /\ Cardinality({i}) = 1
            BY FS_Singleton
        <3> QED BY <2>1, <3>2, <3>3 DEF ItemInv
    <2> QED BY <2>7, <2>8
<1> QED BY <1>3, <1>4, <1>5 DEF CInv

-----------------------------------------------------------------------------
(* Steps that add nothing *)

LEMMA SameAnswers ==
    ASSUME NEW key, KeyInv(key), UNCHANGED answers, Generating(key)' \subseteq Generating(key)
    PROVE  KeyInv(key)'
<1>1. Kept(key)' = Kept(key) /\ Generating(key) \in SUBSET Requests
    BY DEF Kept, Generating
<1> HIDE DEF Kept, Generating
<1> QED BY <1>1, SumShrinks DEF KeyInv

LEMMA SameItems ==
    ASSUME NEW f, ItemInv(f), UNCHANGED items, Creating(f)' \subseteq Creating(f)
    PROVE  ItemInv(f)'
<1>1. /\ ItemsOf(f)' = ItemsOf(f) /\ (FromScan(f)' <=> FromScan(f))
      /\ Creating(f) \in SUBSET Requests
    BY DEF ItemsOf, FromScan, Creating
<1>2. CASE FromScan(f)
    BY <1>1, <1>2 DEF ItemInv
<1>3. CASE ~FromScan(f)
    BY <1>1, <1>3, SumShrinks DEF ItemInv
<1> QED BY <1>2, <1>3

\* A handler that is over, or was never going to add anything, adds nothing.
LEMMA QuietCounts ==
    ASSUME IInv, CInv, NEW r \in Requests, NEW st, Go(r, st),
           st.at = "answered" \/ (st.at = "loaded" /\ st.item # None),
           UNCHANGED <<answers, items>>
    PROVE  CInv'
<1>1. /\ DOMAIN req' = Requests /\ req'[r] = st
      /\ \A s \in Requests : s # r => req'[s] = req[s]
    BY OneGoes DEF IInv, Shapes
<1>2. CreatedByReview'
    BY <1>1 DEF CInv, CreatedByReview, At
<1>3. ASSUME NEW key PROVE KeyInv(key)'
    <2>1. Generating(key)' \subseteq Generating(key)
        BY <1>1 DEF Generating
    <2> QED BY <2>1, SameAnswers DEF CInv
<1>4. ASSUME NEW f PROVE ItemInv(f)'
    <2>1. Creating(f)' \subseteq Creating(f)
        BY <1>1 DEF Creating, At
    <2> QED BY <2>1, SameItems DEF CInv
<1> QED BY <1>2, <1>3, <1>4 DEF CInv

LEMMA ReplyCounts ==
    ASSUME IInv, CInv, NEW r \in Requests, NEW code, Reply(r, code), UNCHANGED <<answers, items>>
    PROVE  CInv'
<1> DEFINE st == [at |-> "answered", code |-> code]
<1>1. Go(r, st) /\ st.at = "answered"
    BY DEF Reply
<1> HIDE DEF st
<1> QED BY <1>1, QuietCounts

-----------------------------------------------------------------------------
(* Answers *)

\* A handler misses only when there is nothing to hit.
LEMMA LookUpCounts ==
    ASSUME IInv, CInv, NEW r \in Requests, Ready(r), NEW key, LookUp(r, key),
           UNCHANGED <<answers, items>>
    PROVE  CInv'
<1>1. CASE Cached(key) # {}
    <2> DEFINE st == [at |-> "answered", code |-> 200, row |-> Newest(Cached(key)), key |-> key]
    <2>1. Go(r, st) /\ st.at = "answered"
        BY <1>1 DEF LookUp, ReplyRow
    <2> HIDE DEF st
    <2> QED BY <2>1, QuietCounts
<1>2. CASE Cached(key) = {}
    <2> DEFINE st == [at |-> "miss", key |-> key]
    <2>1. Go(r, st) /\ st.at = "miss" /\ st.key = key
        BY <1>2 DEF LookUp
    <2> HIDE DEF st
    <2>2. /\ DOMAIN req' = Requests /\ req'[r] = st
          /\ \A s \in Requests : s # r => req'[s] = req[s]
        BY <2>1, OneGoes DEF IInv, Shapes
    <2>3. CreatedByReview'
        BY <2>1, <2>2 DEF CInv, CreatedByReview, At
    <2>4. ASSUME NEW k PROVE KeyInv(k)'
        <3>1. CASE k = key
            <4>1. Kept(k)' = {} /\ Generating(k)' \in SUBSET Requests
                BY <1>2, <3>1 DEF Cached, Matches, Kept, Generating
            <4> QED BY <4>1, SumStarts DEF KeyInv
        <3>2. CASE k # key
            <4>1. Generating(k)' \subseteq Generating(k)
                BY <2>1, <2>2, <3>2 DEF Generating
            <4> QED BY <4>1, SameAnswers DEF CInv
        <3> QED BY <3>1, <3>2
    <2>5. ASSUME NEW f PROVE ItemInv(f)'
        <3>1. Creating(f)' \subseteq Creating(f)
            BY <2>1, <2>2 DEF Creating, At
        <3> QED BY <3>1, SameItems DEF CInv
    <2> QED BY <2>3, <2>4, <2>5 DEF CInv
<1> QED BY <1>1, <1>2

\* From the miss to the call a handler is counted as one that generates.
LEMMA InsertCounts ==
    ASSUME IInv, CInv, NEW r \in Requests, Insert(r)
    PROVE  CInv'
<1> DEFINE st == [at |-> "calling", key |-> req[r].key, id |-> born']
<1>1. /\ Go(r, st) /\ req[r].at = "miss" /\ UNCHANGED <<answers, items>>
      /\ st.at = "calling" /\ st.key = req[r].key
    BY DEF Insert, At
<1> HIDE DEF st
<1>2. /\ DOMAIN req' = Requests /\ req'[r] = st
      /\ \A s \in Requests : s # r => req'[s] = req[s]
    BY <1>1, OneGoes DEF IInv, Shapes
<1>3. CreatedByReview'
    BY <1>1, <1>2 DEF CInv, CreatedByReview, At
<1>4. ASSUME NEW key PROVE KeyInv(key)'
    <2>1. Generating(key)' \subseteq Generating(key)
        BY <1>1, <1>2 DEF Generating
    <2> QED BY <1>1, <2>1, SameAnswers DEF CInv
<1>5. ASSUME NEW f PROVE ItemInv(f)'
    <2>1. Creating(f)' \subseteq Creating(f)
        BY <1>1, <1>2 DEF Creating, At
    <2> QED BY <1>1, <2>1, SameItems DEF CInv
<1> QED BY <1>3, <1>4, <1>5 DEF CInv

\* The end of a call takes the handler out and may put a row in.
LEMMA CommitCounts ==
    ASSUME IInv, CInv, NEW r \in Requests, At(r, "calling"), NEW status, NEW by,
           Commit(r, status, by), UNCHANGED items, NEW st, Go(r, st),
           st.at \in {"answered", "stored"}
    PROVE  CInv'
<1> DEFINE new == [id |-> req[r].id, key |-> req[r].key, status |-> status, by |-> by]
<1>1. answers' = answers \cup {new} /\ new.key = req[r].key
    BY DEF Commit
<1> HIDE DEF new
<1>2. /\ DOMAIN req' = Requests /\ req'[r] = st
      /\ \A s \in Requests : s # r => req'[s] = req[s]
    BY OneGoes DEF IInv, Shapes
<1>3. CreatedByReview'
    BY <1>2 DEF CInv, CreatedByReview, At
<1>4. ASSUME NEW key PROVE KeyInv(key)'
    <2>1. Generating(key)' \subseteq Generating(key) /\ Generating(key) \in SUBSET Requests
        BY <1>2 DEF Generating
    <2>2. CASE Kept(key)' = Kept(key)
        BY <2>1, <2>2, SumShrinks DEF CInv, KeyInv
    <2>3. CASE Kept(key)' # Kept(key)
        <3>1. key = req[r].key /\ Kept(key)' = Kept(key) \cup {new}
            BY <1>1, <2>3 DEF Kept
        <3>2. r \in Generating(key) /\ Generating(key)' \subseteq Generating(key) \ {r}
            BY <1>2, <3>1 DEF Generating, At
        <3>3. /\ IsFiniteSet(Kept(key))
              /\ Cardinality(Kept(key)) + Cardinality(Generating(key)) <= Cardinality(Requests)
            BY DEF CInv, KeyInv
        <3>4. /\ IsFiniteSet(Kept(key) \cup {new})
              /\ Cardinality(Kept(key) \cup {new}) + Cardinality(Generating(key)')
                     <= Cardinality(Requests)
            BY <2>1, <3>2, <3>3, SumMoves
        <3> QED BY <3>1, <3>4 DEF KeyInv
    <2> QED BY <2>2, <2>3
<1>5. ASSUME NEW f PROVE ItemInv(f)'
    <2>1. Creating(f)' \subseteq Creating(f)
        BY <1>2 DEF Creating, At
    <2> QED BY <2>1, SameItems DEF CInv
<1> QED BY <1>3, <1>4, <1>5 DEF CInv

LEMMA ModelEndsCounts ==
    ASSUME IInv, CInv, NEW r \in Requests, ModelEnds(r)
    PROVE  CInv'
<1> DEFINE kept == [at |-> "stored", key |-> req[r].key, id |-> req[r].id]
           plain(code) == [at |-> "answered", code |-> code]
<1>1. At(r, "calling") /\ UNCHANGED items
    BY DEF ModelEnds, ModelExplains, ModelFails, AdvisorAnswers, AdvisorRaises,
           IsExplaining, IsAssessing
<1>2. PICK status, by : /\ Commit(r, status, by)
                        /\ Go(r, kept) \/ Go(r, plain(503)) \/ Go(r, plain(500))
    BY DEF ModelEnds, ModelExplains, ModelFails, AdvisorAnswers, AdvisorRaises,
           CommitAnswer, Reply
<1>3. kept.at = "stored" /\ plain(503).at = "answered" /\ plain(500).at = "answered"
    OBVIOUS
<1> HIDE DEF kept, plain
<1> QED BY <1>1, <1>2, <1>3, CommitCounts

\* A row that is marked FAILED is one less.
LEMMA RefreshRaisesCounts ==
    ASSUME IInv, CInv, NEW r \in Requests, RefreshRaises(r)
    PROVE  CInv'
<1> DEFINE st == [at |-> "answered", code |-> 500]
           new == MarkedFailed(RowOf(r))
<1>1. /\ answers' = (answers \ {RowOf(r)}) \cup {new} /\ UNCHANGED items
      /\ Go(r, st) /\ st.at = "answered"
    BY DEF RefreshRaises, Reply
<1>2. new.status = "FAILED"
    BY DEF MarkedFailed
<1> HIDE DEF st, new
<1>3. /\ DOMAIN req' = Requests /\ req'[r] = st
      /\ \A s \in Requests : s # r => req'[s] = req[s]
    BY <1>1, OneGoes DEF IInv, Shapes
<1>4. CreatedByReview'
    BY <1>1, <1>3 DEF CInv, CreatedByReview, At
<1>5. ASSUME NEW key PROVE KeyInv(key)'
    <2>1. Generating(key)' \subseteq Generating(key) /\ Generating(key) \in SUBSET Requests
        BY <1>1, <1>3 DEF Generating
    <2>2. Kept(key)' \subseteq Kept(key)
        BY <1>1, <1>2 DEF Kept
    <2> QED BY <2>1, <2>2, SumShrinks DEF CInv, KeyInv
<1>6. ASSUME NEW f PROVE ItemInv(f)'
    <2>1. Creating(f)' \subseteq Creating(f)
        BY <1>1, <1>3 DEF Creating, At
    <2> QED BY <1>1, <2>1, SameItems DEF CInv
<1> QED BY <1>4, <1>5, <1>6 DEF CInv

\* Reading back what was stored changes nothing.
LEMMA AnswerCounts ==
    ASSUME IInv, CInv, NEW r \in Requests, Answer(r)
    PROVE  CInv'
<1> DEFINE st == [at |-> "answered", code |-> 200, row |-> RowOf(r), key |-> req[r].key]
<1>1. Go(r, st) /\ st.at = "answered" /\ UNCHANGED <<answers, items>>
    BY DEF Answer, ReplyRow
<1> HIDE DEF st
<1> QED BY <1>1, QuietCounts

-----------------------------------------------------------------------------
(* Reviews *)

\* A reviewer is to create an item only when the finding has none.
LEMMA LoadCounts ==
    ASSUME IInv, CInv, NEW r \in Requests, NEW f \in Findings, NEW change \in Changes,
           LoadForDisposition(r, f, change)
    PROVE  CInv'
<1> DEFINE i == CurrentOrNew(f)
           st == [at |-> "loaded", item |-> i, change |-> change,
                  seen |-> IF i = None THEN NewItem(f, "review") ELSE items[i]]
<1>1. /\ Go(r, st) /\ st.at = "loaded" /\ st.item = i /\ UNCHANGED <<answers, items>>
      /\ st.seen = IF i = None THEN NewItem(f, "review") ELSE items[i]
    BY DEF LoadForDisposition
<1> HIDE DEF st
<1>2. CASE i # None
    BY <1>1, <1>2, QuietCounts
<1>3. CASE i = None
    <2>1. ItemsOf(f) = {}
        <3>1. SUFFICES ASSUME ItemsOf(f) # {} PROVE FALSE
            OBVIOUS
        <3>2. ItemsOf(f) \in SUBSET (1..born) /\ born \in Nat
            BY DEF ItemsOf, IInv, Shapes
        <3>3. \E j \in ItemsOf(f) : \A k \in ItemsOf(f) : k <= j
            BY <3>1, <3>2, LargestExists
        <3>4. i \in ItemsOf(f)
            BY <3>1, <3>3 DEF CurrentOrNew
        <3>5. None \in Nat
            BY <1>3, <3>2, <3>4
        <3> QED BY <3>5, RecordsAssumption
    <2>2. st.seen.finding = f /\ st.seen.by = "review" /\ st.item = None
        BY <1>1, <1>3 DEF NewItem
    <2>3. /\ DOMAIN req' = Requests /\ req'[r] = st
          /\ \A s \in Requests : s # r => req'[s] = req[s]
        BY <1>1, OneGoes DEF IInv, Shapes
    <2>4. CreatedByReview'
        BY <2>2, <2>3 DEF CInv, CreatedByReview, At
    <2>5. ASSUME NEW key PROVE KeyInv(key)'
        <3>1. Generating(key)' \subseteq Generating(key)
            BY <1>1, <2>3 DEF Generating
        <3> QED BY <1>1, <3>1, SameAnswers DEF CInv
    <2>6. ASSUME NEW g PROVE ItemInv(g)'
        <3>1. CASE g = f
            <4>1. ItemsOf(g)' = {} /\ ~FromScan(g)' /\ Creating(g)' \in SUBSET Requests
                BY <1>1, <2>1, <3>1 DEF ItemsOf, FromScan, Creating
            <4> QED BY <4>1, SumStarts DEF ItemInv
        <3>2. CASE g # f
            <4>1. Creating(g)' \subseteq Creating(g)
                BY <2>2, <2>3, <3>2 DEF Creating, At
            <4> QED BY <1>1, <4>1, SameItems DEF CInv
        <3> QED BY <3>1, <3>2
    <2> QED BY <2>4, <2>5, <2>6 DEF CInv
<1> QED BY <1>2, <1>3

LEMMA LoadForPatchCounts ==
    ASSUME IInv, CInv, NEW r \in Requests, NEW i \in DOMAIN items, NEW change \in Changes,
           LoadForPatch(r, i, change)
    PROVE  CInv'
<1> DEFINE st == [at |-> "loaded", item |-> i, change |-> change, seen |-> items[i]]
<1>1. Go(r, st) /\ st.at = "loaded" /\ st.item = i /\ UNCHANGED <<answers, items>>
    BY DEF LoadForPatch
<1>2. i # None
    BY RecordsAssumption DEF IInv, Shapes
<1> HIDE DEF st
<1> QED BY <1>1, <1>2, QuietCounts

\* A write keeps the finding and the origin of the row.
LEMMA WriteReviewCounts ==
    ASSUME IInv, CInv, NEW r \in Requests, WriteReview(r)
    PROVE  CInv'
<1> DEFINE q == req[r]
           id == IF q.item = None THEN born + 1 ELSE q.item
           old == IF q.item = None THEN q.seen ELSE items[q.item]
           row == Written(old, q.seen, q.change)
           ok == [at |-> "answered", code |-> 200]
           error == [at |-> "answered", code |-> 500]
<1>1. /\ q.at = "loaded" /\ q.seen \in Items /\ q.item \in DOMAIN items \cup {None}
      /\ born \in Nat /\ DOMAIN items \subseteq 1..born /\ \A i \in DOMAIN items : items[i] \in Items
    BY DEF WriteReview, IInv, Shapes, At
<1>2. /\ items' = [i \in DOMAIN items \cup {id} |-> IF i = id THEN row ELSE items[i]]
      /\ UNCHANGED answers
    BY DEF WriteReview
<1>9. PICK st : Go(r, st) /\ st.at = "answered"
    <2>1. Go(r, ok) \/ Go(r, error)
        BY DEF WriteReview, Reply
    <2>2. ok.at = "answered" /\ error.at = "answered"
        OBVIOUS
    <2> HIDE DEF ok, error
    <2> QED BY <2>1, <2>2
<1>3. row.finding = old.finding /\ row.by = old.by
    BY <1>1 DEF Written, Items
<1>4. /\ q.item = None => id = born + 1 /\ old = q.seen
      /\ q.item # None => id = q.item /\ old = items[id]
    BY <1>1
<1> HIDE DEF row, id, old
<1>5. /\ DOMAIN req' = Requests /\ req'[r] = st
      /\ \A s \in Requests : s # r => req'[s] = req[s]
    BY <1>9, OneGoes DEF IInv, Shapes
<1>6. CreatedByReview'
    BY <1>2, <1>5, <1>9 DEF CInv, CreatedByReview, At
<1>7. ASSUME NEW key PROVE KeyInv(key)'
    <2>1. Generating(key)' \subseteq Generating(key)
        BY <1>2, <1>5, <1>9 DEF Generating
    <2> QED BY <1>2, <2>1, SameAnswers DEF CInv
<1>8. ASSUME NEW f PROVE ItemInv(f)'
    <2>1. Creating(f)' \subseteq Creating(f) /\ Creating(f) \in SUBSET Requests
        BY <1>2, <1>5, <1>9 DEF Creating, At
    <2>2. ItemInv(f)
        BY DEF CInv
    <2>3. CASE q.item = None /\ q.seen.finding = f
        <3>1. r \in Creating(f) /\ Creating(f)' \subseteq Creating(f) \ {r}
            BY <1>1, <1>2, <1>5, <1>9, <2>3 DEF Creating, At
        <3>2. ~FromScan(f)
            BY <2>2, <3>1 DEF ItemInv
        <3>3. id \notin DOMAIN items /\ row.finding = f /\ row.by = "review"
            BY <1>1, <1>3, <1>4, <2>3 DEF CInv, CreatedByReview, At
        <3>4. ItemsOf(f)' = ItemsOf(f) \cup {id} /\ ~FromScan(f)'
            BY <1>2, <3>2, <3>3 DEF ItemsOf, FromScan
        <3> QED BY <2>1, <2>2, <3>1, <3>2, <3>4, SumMoves DEF ItemInv
    <2>4. CASE ~(q.item = None /\ q.seen.finding = f)
        <3>1. ItemsOf(f)' = ItemsOf(f) /\ (FromScan(f)' <=> FromScan(f))
            <4>1. CASE q.item = None
                <5>1. id \notin DOMAIN items /\ row.finding # f
                    BY <1>1, <1>3, <1>4, <2>4, <4>1
                <5> QED BY <1>2, <5>1 DEF ItemsOf, FromScan
            <4>2. CASE q.item # None
                <5>1. id \in DOMAIN items /\ row.finding = items[id].finding /\ row.by = items[id].by
                    BY <1>1, <1>3, <1>4, <4>2
                <5> QED BY <1>2, <5>1 DEF ItemsOf, FromScan
            <4> QED BY <4>1, <4>2
        <3>2. CASE FromScan(f)
            BY <2>1, <2>2, <3>1, <3>2 DEF ItemInv
        <3>3. CASE ~FromScan(f)
            BY <2>1, <2>2, <3>1, <3>3, SumShrinks DEF ItemInv
        <3> QED BY <3>2, <3>3
    <2> QED BY <2>3, <2>4
<1> QED BY <1>6, <1>7, <1>8 DEF CInv

-----------------------------------------------------------------------------
(* All steps *)

LEMMA StartCounts ==
    ASSUME IInv, CInv, NEW r \in Requests, Start(r)
    PROVE  CInv'
<1>1. ASSUME NEW f \in Findings, Explain(r, f) PROVE CInv'
    <2>1. UNCHANGED <<answers, items>> /\ Ready(r)
        BY <1>1 DEF Explain
    <2> QED BY <1>1, <2>1, LookUpCounts, ReplyCounts DEF Explain
<1>2. ASSUME NEW f \in Findings, NEW p \in Profiles, Assess(r, f, p) PROVE CInv'
    <2>1. UNCHANGED <<answers, items>> /\ Ready(r)
        BY <1>2 DEF Assess
    <2> QED BY <1>2, <2>1, LookUpCounts DEF Assess
<1> QED BY <1>1, <1>2, LoadCounts, LoadForPatchCounts DEF Start

LEMMA StepCounts == IInv /\ CInv /\ [Next]_vars => CInv'
<1> SUFFICES ASSUME IInv, CInv, [Next]_vars PROVE CInv'
    OBVIOUS
<1>1. ASSUME NEW r \in Requests, Start(r) \/ Handle(r) \/ DatabaseFails(r) PROVE CInv'
    <2>1. CASE DatabaseFails(r) \/ LockTimeout(r)
        BY <2>1, ReplyCounts DEF DatabaseFails, LockTimeout
    <2> QED BY <1>1, <2>1, StartCounts, InsertCounts, ModelEndsCounts, AnswerCounts,
               RefreshRaisesCounts, WriteReviewCounts
            DEF Handle
<1>2. CASE Restart \/ UNCHANGED vars
    <2>1. /\ UNCHANGED <<answers, items>>
          /\ \A r \in Requests : req'[r].at = "idle" \/ req'[r] = req[r]
        BY <1>2 DEF Restart, Idle, vars
    <2>2. CreatedByReview'
        BY <2>1 DEF CInv, CreatedByReview, At
    <2>3. ASSUME NEW key PROVE KeyInv(key)'
        <3>1. Generating(key)' \subseteq Generating(key)
            BY <2>1 DEF Generating
        <3> QED BY <2>1, <3>1, SameAnswers DEF CInv
    <2>4. ASSUME NEW f PROVE ItemInv(f)'
        <3>1. Creating(f)' \subseteq Creating(f)
            BY <2>1 DEF Creating, At
        <3> QED BY <2>1, <3>1, SameItems DEF CInv
    <2> QED BY <2>2, <2>3, <2>4 DEF CInv
<1> QED BY <1>1, <1>2 DEF Next

LEMMA CountsHold == Spec => []CInv
BY InitCounts, StepCounts, Inductive, PTL DEF Spec

\* However many callers ask for an answer at once, and however often the process
\* is restarted among them, it is generated and kept at most once for each of
\* them (explanations.py, migration_assessments.py: look up, call, commit).
THEOREM AnswersAreGeneratedBoundedly == Spec => []GeneratedAtMostPerCaller
<1>1. CInv => GeneratedAtMostPerCaller
    <2> SUFFICES ASSUME CInv, NEW key
                 PROVE  Cardinality({row \in answers : row.status = "COMPLETED" /\ row.key = key})
                            <= Cardinality(Requests)
        BY DEF GeneratedAtMostPerCaller
    <2>1. KeyInv(key) /\ Generating(key) \in SUBSET Requests
        BY DEF CInv, Generating
    <2>2. Cardinality(Generating(key)) \in Nat /\ Cardinality(Requests) \in Nat
        BY <2>1, CallersAreFinite
    <2>3. Cardinality(Kept(key)) \in Nat
        BY <2>1, FS_CardinalityType DEF KeyInv
    <2>4. Cardinality(Kept(key)) <= Cardinality(Requests)
        BY <2>1, <2>2, <2>3 DEF KeyInv
    <2> QED BY <2>4 DEF Kept
<1> QED BY <1>1, CountsHold, PTL

\* A finding keeps the item of its scan; without one it gets at most one from
\* each reviewer (record_disposition: look for an item, or create it).
THEOREM ReviewersDoNotMultiplyItems == Spec => []ItemsBound
<1>1. CInv => ItemsBound
    <2> SUFFICES ASSUME CInv, NEW f \in Findings
                 PROVE  Cardinality(ItemsOf(f)) <= IF FromScan(f) THEN 1 ELSE Cardinality(Requests)
        BY DEF ItemsBound, FromScan
    <2>1. ItemInv(f) /\ Creating(f) \in SUBSET Requests
        BY DEF CInv, Creating
    <2>2. Cardinality(Creating(f)) \in Nat /\ Cardinality(Requests) \in Nat
        BY <2>1, CallersAreFinite
    <2>3. Cardinality(ItemsOf(f)) \in Nat
        BY <2>1, FS_CardinalityType DEF ItemInv
    <2> QED BY <2>1, <2>2, <2>3 DEF ItemInv
<1> QED BY <1>1, CountsHold, PTL

=============================================================================
