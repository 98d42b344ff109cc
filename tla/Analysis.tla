------------------------------ MODULE Analysis ------------------------------
(***************************************************************************)
(* Two commits of a file, from the matches of the rules to what a user     *)
(* sees: the findings stored for the first commit, the diff of the second  *)
(* one against it, and the contextual assessment of a finding.             *)
(***************************************************************************)
EXTENDS CryptoFindings, MigrationAdvisor

CONSTANTS
    Places,       \* where a call may be: its function, class and module
    MaxLines,     \* bound: length of the file
    Files,        \* sets of matches that a file may have
    MaxCalls      \* AddBound: a call is added only to a file with fewer

Lines == 1..MaxLines
Sites == {At(what, place, line) : what \in Rules, place \in Places, line \in Lines}

\* A line stands for a place in the order of sort_key (engine/rules/base.py), which
\* tells the matches of a file by line, column, rule, call and operation.
OneCallPerLine(matches) == \A m, n \in matches : m.line = n.line => m = n

ASSUME AnalysisAssumption ==
    /\ MaxLines \in Nat \ {0}
    /\ \A p, q \in Places : p.module = q.module   \* it is one file
    /\ None \notin Sites
    /\ \A file \in Files : file \subseteq Sites /\ OneCallPerLine(file)

\* Which names of the rules' algorithms hold which words: what Named comes to.
ASSUME NamesAssumption ==
    \A algorithm \in {what.algorithm : what \in Rules} :
        /\ Named(algorithm, {"SHA", "MD5", "BLAKE"}) => algorithm \in HashAlgorithms
        /\ Named(algorithm, {"ECDSA", "ED25519", "RSA"}) => algorithm \in {"ECDSA", "ED25519", "RSA"}
        /\ Named(algorithm, {"ECDSA"}) => algorithm = "ECDSA"
        /\ Named(algorithm, {"ECDH", "X25519"}) => algorithm \in {"ECDH", "X25519"}

VARIABLES
    base, head,   \* the matches in the two commits, no two on one line
    edit,         \* what was done between them: kind and the match concerned
    rows,         \* the findings stored for the base, in order, with their review item
    diff,         \* new, fixed and unchanged of cryptiq diff, and its exit code
    advice        \* an assessment before and after the guardrails

vars == <<base, head, edit, rows, diff, advice>>

NoEdit == [kind |-> "none", match |-> None]

Init ==
    /\ base \in Files
    /\ head = base
    /\ edit = NoEdit
    /\ rows = << >>
    /\ diff = None
    /\ advice = None

\* persist_analysis: a row for each fingerprint, with an open review item when a
\* post-quantum replacement exists.
Row(finding) ==
    [finding |-> finding,
     review |-> IF IsMigrationCandidate(finding.path) THEN "OPEN" ELSE "NONE"]

Persist ==
    /\ rows = << >>
    /\ LET kept == Dedupe(Analyze(base)) IN rows' = [k \in DOMAIN kept |-> Row(kept[k])]
    /\ UNCHANGED <<base, head, edit, diff, advice>>

-----------------------------------------------------------------------------

Edited(kind, m) ==
    /\ edit = NoEdit
    /\ rows # << >>
    /\ advice = None   \* EditBound: only a file without an assessment is edited
    /\ edit' = [kind |-> kind, match |-> m]
    /\ UNCHANGED <<base, rows, diff, advice>>

\* A line is inserted at the top of the file.
Move ==
    /\ Edited("moved", None)
    /\ head' = {[m EXCEPT !.line = @ + 1] : m \in base}

Delete(m) ==
    /\ Edited("removed", m)
    /\ head' = base \ {m}

Add(m) ==
    /\ Cardinality(base) < MaxCalls
    /\ m.line \notin {n.line : n \in base}
    /\ Edited("added", m)
    /\ head' = base \cup {m}

\* run_diff and cmd_diff: by fingerprint, never by line.
Diff ==
    /\ edit # NoEdit
    /\ diff = None
    /\ LET before == Dedupe(Analyze(base))
           after == Dedupe(Analyze(head))
           new == Identities(after) \ Identities(before)
       IN diff' = [new |-> new,
                   fixed |-> Identities(before) \ Identities(after),
                   unchanged |-> Identities(after) \cap Identities(before),
                   exit |-> IF new # {} THEN "findings" ELSE "ok"]
    /\ UNCHANGED <<base, head, edit, rows, advice>>

-----------------------------------------------------------------------------

\* AdviceBound: the file has one finding, in the first line and in no function.
MayAssess ==
    /\ rows # << >>
    /\ \A m \in base : m.line = 1 /\ m.function = NoName
    /\ edit = NoEdit
    /\ advice = None

Advise(row, raw) ==
    /\ advice' = [algorithm |-> row.finding.match.algorithm, role |-> row.finding.role,
                  raw |-> raw, final |-> EnforceGuardrails(raw, row.finding.role)]
    /\ UNCHANGED <<base, head, edit, rows, diff>>

\* No model is configured, or its call or its reply failed.
AssessOffline ==
    /\ MayAssess
    /\ \E i \in DOMAIN rows, clues \in SUBSET Clues, bandwidth \in {"LOW", "HIGH"} :
           Advise(rows[i], Heuristics(rows[i].finding.match.algorithm, rows[i].finding.role,
                                      clues, bandwidth))

\* The model answers what it likes, in the vocabulary of the schema.
AssessByModel ==
    /\ MayAssess
    /\ \E i \in DOMAIN rows, reply \in Replies : Advise(rows[i], reply)

Next ==
    \/ Persist
    \/ Move
    \/ \E m \in base : Delete(m)
    \/ \E m \in Sites : Add(m)
    \/ Diff
    \/ AssessOffline
    \/ AssessByModel

Spec == Init /\ [][Next]_vars

-----------------------------------------------------------------------------
(***************************************************************************)
(* Properties.                                                             *)
(***************************************************************************)

\* Type invariant.
TypeOK ==
    /\ base \subseteq Sites
    /\ \A m \in head : [m EXCEPT !.line = 1] \in Sites
    /\ \A i \in DOMAIN rows :
           /\ rows[i].finding.match \in base
           /\ Band(rows[i].finding.score) \in {"HIGH", "MEDIUM"}
    /\ diff = None \/ diff.exit \in {"ok", "findings"}
    /\ advice = None \/ {advice.raw, advice.final} \subseteq Assessments

\* The review queue, sorted by the score that priority/scorer.py adds up from
\* four tables, starts with what needs a post-quantum replacement: no hash and
\* no symmetric cipher scores as high as any migration candidate, whatever their
\* confidence, operation and impact.
CandidatesLead ==
    \A i, j \in DOMAIN rows :
        (rows[i].review = "OPEN" /\ rows[j].finding.role \in {"HASH", "SYMMETRIC_ENCRYPTION"})
            => rows[i].finding.score > rows[j].finding.score

\* The same finding: the same call to the same API, whatever its line and however
\* firmly it is established.
Same(m, n) == [m EXCEPT !.line = n.line, !.confidence = n.confidence] = n

\* persist_analysis stores one row for each finding, that of its first place in
\* the file: the unique constraint on (scan, fingerprint) never refuses a scan.
OneRowPerFinding ==
    \A i \in DOMAIN rows :
        /\ \A j \in DOMAIN rows : i # j =>
               rows[i].finding.fingerprint # rows[j].finding.fingerprint
        /\ \A m \in base :
               Same(m, rows[i].finding.match) => rows[i].finding.match.line <= m.line

\* What folding the match m into the row keeps: the row has the role, the review
\* item and the priority of m.  Its confidence and its score are those of the first
\* place, which may be less firmly established, by up to 15 points.
StandsFor(row, m) ==
    LET own == Score(m, ImpactNodes(m), Classify(m)) IN
    /\ Same(m, row.finding.match)
    /\ row.finding.role = Classify(m)
    /\ row.review = IF IsMigrationCandidate(ReviewPath(m.algorithm, Classify(m)))
                    THEN "OPEN" ELSE "NONE"
    /\ Band(row.finding.score) = Band(own)
    /\ row.finding.score + ConfidencePoints[m.confidence] =
           own + ConfidencePoints[row.finding.match.confidence]
    /\ own <= row.finding.score + 15

\* What a scan stores is right: one row for each finding of the file, never one for
\* two that differ in more than line and confidence, and each match has its row.
RowsAreRight ==
    /\ TypeOK
    /\ OneRowPerFinding
    /\ rows # << >> => \A m \in base : \E i \in DOMAIN rows : StandsFor(rows[i], m)

\* cryptiq diff tells the edit: code that moves is unchanged; a call that is
\* removed is fixed when the file has no other that is the same finding; one that
\* is added is new, and fails the build, when the file had none.
DiffTellsTheEdit ==
    diff # None =>
        LET m == edit.match
            First == edit.kind = "added" /\ \A n \in base : ~Same(n, m)
            Last == edit.kind = "removed" /\ \A n \in head : ~Same(n, m)
        IN /\ diff.new = IF First THEN {Fingerprint(m)} ELSE {}
           /\ diff.fixed = IF Last THEN {Fingerprint(m)} ELSE {}
           /\ diff.unchanged = {Fingerprint(n) : n \in base} \ diff.fixed
           /\ diff.exit = "findings" <=> First

\* Four kinds of use, by the role the assessment gives and by that of the classifier.
\* The two may be of different kinds.
ContextualKinds ==
    [hash |-> HashRoles, establishment |-> {"KEY_ESTABLISHMENT"},
     signature |-> SignatureRoles, cipher |-> {"ENCRYPTION"}]
DetectedKinds ==
    [hash |-> "HASH", establishment |-> "KEY_ESTABLISHMENT",
     signature |-> "DIGITAL_SIGNATURE", cipher |-> "SYMMETRIC_ENCRYPTION"]

IsOfKind(kind, a, role) == a.role \in ContextualKinds[kind] \/ role = DetectedKinds[kind]

\* What guardrails.py:60, 90, 109 and 128 say must never be recommended.
MustNever(kind, candidate) ==
    CASE kind \in {"hash", "cipher"} -> IsPublicKey(candidate)
      [] kind = "establishment" -> IsSignature(candidate)
      [] kind = "signature" -> IsKem(candidate)

\* What passes in spite of it, and only when the two roles are of different kinds: a
\* scheme that is right for the other one, which the code looks at first.
RightForTheOther(kind, a, role) ==
    \/ /\ kind \in {"signature", "cipher"}
       /\ IsOfKind("establishment", a, role) /\ a.candidate = "kem"
    \/ kind = "cipher" /\ IsOfKind("signature", a, role) /\ a.candidate = "signature"

\* Whatever the model answers, an assessment never recommends a public-key scheme
\* for a hash, a signature for key establishment, a KEM for a signature or a
\* public-key scheme for a cipher, with the one exception above; nor is such a
\* scheme among the alternatives to what is a hash, or to the rules a cipher.
NoCategoryError ==
    advice # None =>
        LET a == advice.final IN
        /\ \A kind \in DOMAIN DetectedKinds :
               (IsOfKind(kind, a, advice.role) /\ MustNever(kind, a.candidate))
                   => RightForTheOther(kind, a, advice.role)
        /\ (IsOfKind("hash", a, advice.role) \/ advice.role = "SYMMETRIC_ENCRYPTION")
               => \A x \in a.alternatives : ~IsPublicKey(x)

\* An assessment that says keep names no candidate and requires no migration,
\* also when it was a correction that made it say so.
KeepMeansKeep ==
    (advice # None /\ advice.final.decision = "KEEP") =>
        advice.final.candidate = None /\ ~advice.final.required

\* What the guardrails make of every assessment: no category error but the one where
\* the roles differ, and keep means keep (guardrails.py:46-174).  The code promises
\* the four without exception; it looks at one branch only.
GuardrailsHold == NoCategoryError /\ KeepMeansKeep

\* What the heuristics recommend without a model is right in itself: there is
\* nothing in it for the guardrails to correct.
OfflineAdviceStands ==
    (advice # None /\ advice.raw.by = "heuristic") => advice.final = advice.raw

=============================================================================
