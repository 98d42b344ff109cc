-------------------------- MODULE MigrationAdvisor --------------------------
(***************************************************************************)
(* The contextual assessment of a finding: the context read off the source *)
(* (context/extractor.py), the heuristics and the reply of the model       *)
(* (services/context_advisor.py), and the guardrails both go through       *)
(* (context/guardrails.py).  A candidate is told by the family its name    *)
(* matches; identifiers near the call by the set of clues they hit.        *)
(***************************************************************************)
EXTENDS Naturals, Sequences

CONSTANT None

ASSUME AdvisorAssumption == None \notin {"signature", "kem", "both", "other"}

Decisions == {"KEEP", "REVIEW", "MIGRATE", "INSUFFICIENT_CONTEXT"}
ContextualRoles ==
    {"CONTENT_ADDRESSING", "DATA_INTEGRITY", "HASHING", "PASSWORD_DERIVATION", "MAC",
     "DIGITAL_SIGNATURE", "SIGNATURE_VERIFICATION", "KEY_ESTABLISHMENT", "KEY_DERIVATION",
     "ENCRYPTION", "RANDOMNESS", "PROTOCOL", "UNKNOWN"}
Clues == {"content", "integrity", "password"}
Levels == {"HIGH", "MEDIUM", "LOW", "UNKNOWN"}

\* "ML-DSA + ML-KEM" names both families; "Falcon" and "Kyber" name none that
\* the guardrails know.
Candidates == {None, "signature", "kem", "both", "other"}
IsSignature(candidate) == candidate \in {"signature", "both"}
IsKem(candidate) == candidate \in {"kem", "both"}
IsPublicKey(candidate) == IsSignature(candidate) \/ IsKem(candidate)

\* Substring tests on the names of the algorithms.
Named(algorithm, words) ==
    \E w \in words : \E i \in 1..Len(algorithm) : 
        /\ i + Len(w) - 1 <= Len(algorithm)
        /\ SubSeq(algorithm, i, i + Len(w) - 1) = w

HashRoles ==
    {"CONTENT_ADDRESSING", "DATA_INTEGRITY", "HASHING", "PASSWORD_DERIVATION", "MAC"}
SignatureRoles == {"DIGITAL_SIGNATURE", "SIGNATURE_VERIFICATION"}

-----------------------------------------------------------------------------

\* Defect for OfflineAdviceStands: signing is looked for before agreement.
InferredSigningFirst(algorithm, role, clues) ==
    CASE role = "HASH" -> "HASHING"
      [] role = "DIGITAL_SIGNATURE" \/ Named(algorithm, {"ECDSA", "ED25519", "RSA"}) ->
             "DIGITAL_SIGNATURE"
      [] role = "KEY_ESTABLISHMENT" -> "KEY_ESTABLISHMENT"
      [] OTHER -> "UNKNOWN"

\* extract_context: the first kind of clue that is there decides for a hash.
InferredRole(algorithm, role, clues) ==
    CASE role = "HASH" \/ Named(algorithm, {"SHA", "MD5", "BLAKE"}) ->
             IF "content" \in clues THEN "CONTENT_ADDRESSING"
             ELSE IF "integrity" \in clues THEN "DATA_INTEGRITY"
             ELSE IF "password" \in clues THEN "PASSWORD_DERIVATION"
             ELSE "HASHING"
      [] OTHER ->
             IF role = "KEY_ESTABLISHMENT" \/ Named(algorithm, {"ECDH", "X25519"})
             THEN "KEY_ESTABLISHMENT"
             ELSE IF role = "DIGITAL_SIGNATURE" \/ Named(algorithm, {"ECDSA", "ED25519", "RSA"})
             THEN "DIGITAL_SIGNATURE"
             ELSE "UNKNOWN"

Assessment(role, decision, confidence, candidate, required, alternatives, by) ==
    [role |-> role, decision |-> decision, confidence |-> confidence,
     candidate |-> candidate, required |-> required,
     alternatives |-> alternatives, by |-> by]

\* What a reply of the model may be; an unknown word in it becomes REVIEW, MEDIUM
\* or the inferred role.
Replies ==
    [role : ContextualRoles, decision : Decisions, confidence : {"MEDIUM"},
     candidate : Candidates, required : BOOLEAN,
     alternatives : {{}, {"kem", "other"}, {"signature"}}, by : {"model"}]

Assessments ==
    [role : ContextualRoles, decision : Decisions, confidence : Levels,
     candidate : Candidates, required : BOOLEAN, alternatives : SUBSET Candidates,
     by : {"model", "heuristic"}]

\* The role heuristics start from: the inferred one, or that of the classifier.
HeuristicRole(algorithm, role, clues) ==
    LET inferred == InferredRole(algorithm, role, clues) IN
    IF inferred # "UNKNOWN" THEN inferred
    ELSE CASE role = "HASH" -> "HASHING"
           [] role = "SYMMETRIC_ENCRYPTION" -> "ENCRYPTION"
           [] role \in {"DIGITAL_SIGNATURE", "KEY_ESTABLISHMENT"} -> role
           [] OTHER -> "UNKNOWN"

\* _assess_with_heuristics: four scenarios, in this order.
Heuristics(algorithm, role, clues, bandwidth) ==
    LET r == HeuristicRole(algorithm, role, clues)
        Advise(decision, confidence, candidate, required, alternatives) ==
            Assessment(r, decision, confidence, candidate, required, alternatives, "heuristic")
    IN
    IF r \in {"CONTENT_ADDRESSING", "DATA_INTEGRITY"} \/ (r = "HASHING" /\ Named(algorithm, {"SHA"}))
    THEN Advise("KEEP", "HIGH", None, FALSE, {"other"})
    ELSE IF r \in SignatureRoles \/ Named(algorithm, {"ECDSA"})
    THEN Advise(IF bandwidth = "HIGH" THEN "REVIEW" ELSE "MIGRATE", "HIGH", "signature", TRUE,
                {"signature", "other"})
    ELSE IF r = "KEY_ESTABLISHMENT" \/ Named(algorithm, {"ECDH", "X25519"})
    THEN Advise("MIGRATE", "HIGH", "kem", TRUE, {"kem", "other"})
    ELSE IF r = "ENCRYPTION" \/ Named(algorithm, {"AES"})
    THEN Advise("KEEP", "HIGH", None, FALSE, {"other"})
    ELSE Advise("INSUFFICIENT_CONTEXT", "LOW", None, FALSE, {})

-----------------------------------------------------------------------------

HashLike(a, role) == a.role \in HashRoles \/ role = "HASH"

\* Defect for GuardrailsHold: the role the model gives is not looked at.
CorrectedByClassifier(a, role) ==
    IF role = "HASH" /\ IsPublicKey(a.candidate)
    THEN [a EXCEPT !.candidate = None, !.required = FALSE, !.decision = "REVIEW"]
    ELSE IF role = "KEY_ESTABLISHMENT" /\ IsSignature(a.candidate)
    THEN [a EXCEPT !.candidate = "kem", !.decision = "MIGRATE"]
    ELSE a

\* The four invariants: the first branch whose role fits decides, even when its
\* candidate has nothing to correct.
Corrected(a, role) ==
    IF HashLike(a, role)
    THEN IF IsPublicKey(a.candidate)
         THEN [a EXCEPT !.candidate = None, !.required = FALSE,
                        !.decision = IF a.role \in {"CONTENT_ADDRESSING", "DATA_INTEGRITY"}
                                     THEN "KEEP" ELSE "REVIEW"]
         ELSE a
    ELSE IF "KEY_ESTABLISHMENT" \in {a.role, role}
    THEN IF IsSignature(a.candidate)
         THEN [a EXCEPT !.candidate = "kem", !.decision = "MIGRATE"]
         ELSE a
    ELSE IF a.role \in SignatureRoles \/ role = "DIGITAL_SIGNATURE"
    THEN IF IsKem(a.candidate)
         THEN [a EXCEPT !.candidate = "signature", !.decision = "MIGRATE"]
         ELSE a
    ELSE IF (a.role = "ENCRYPTION" \/ role = "SYMMETRIC_ENCRYPTION") /\ IsPublicKey(a.candidate)
    THEN [a EXCEPT !.candidate = None, !.required = FALSE, !.decision = "KEEP"]
    ELSE a

\* Public-key schemes are no alternatives to a hash or to a symmetric cipher.
Filtered(a, role) ==
    IF HashLike(a, role) \/ role = "SYMMETRIC_ENCRYPTION"
    THEN [a EXCEPT !.alternatives = {x \in @ : ~IsPublicKey(x)}]
    ELSE a

Settled(a, role) ==
    LET c == Corrected(a, role) IN
    IF c.decision = "KEEP" THEN [c EXCEPT !.candidate = None, !.required = FALSE] ELSE c

EnforceGuardrails(a, role) == Filtered(Settled(a, role), role)

=============================================================================
