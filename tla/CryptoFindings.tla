--------------------------- MODULE CryptoFindings ---------------------------
(***************************************************************************)
(* The stages between the match of a rule and a stored finding: role, PQC  *)
(* review path, impact, priority, fingerprint, order and deduplication.    *)
(* Pure functions of a match; a match is what a rule establishes of a call *)
(* (algorithm, operation, API and confidence), and the place of the call.  *)
(***************************************************************************)
EXTENDS Naturals, Sequences, FiniteSets

CONSTANT NoName   \* the enclosing function of a call that is in none

Confidences == {"HIGH", "MEDIUM"}   \* no rule emits LOW or UNKNOWN

SignatureOps == {"SIGN", "VERIFY"}
TransportOps == {"ENCRYPT", "DECRYPT"}

HashAlgorithms ==
    {"MD5", "SHA-1", "SHA-224", "SHA-256", "SHA-384", "SHA-512", "SHA-512/224",
     "SHA-512/256", "SHA3-224", "SHA3-256", "SHA3-384", "SHA3-512", "SHAKE128",
     "SHAKE256", "BLAKE2B", "BLAKE2S", "SM3"}

\* Where the algorithm and the operation determine the API, its name is left out.
OnlyApi == {"only"}

Emits(rule, algorithms, operations, apis, confidences) ==
    [rule : {rule}, algorithm : algorithms, primitive : {rule},
     operation : operations, api : apis, confidence : confidences]

\* What each registered rule can say of a call.  An operation on a key, a context
\* or a marker that a local name holds is of the confidence of the name's binding.
\* A method named through its class is named through either of two classes, one
\* that is called on a local name always through the first.
RsaMatches ==
    Emits("RSA", {"RSA"}, {"KEY_GENERATION"}, OnlyApi, {"HIGH"})
        \cup Emits("RSA", {"RSA"}, SignatureOps \cup TransportOps, {"key"}, Confidences)
        \cup Emits("RSA", {"RSA"}, SignatureOps \cup TransportOps,
                   {"key with serialization"}, {"HIGH"})

KeyPairMatches(algorithm, operations) ==
    Emits(algorithm, {algorithm}, {"KEY_GENERATION"}, OnlyApi, {"HIGH"})
        \cup Emits(algorithm, {algorithm}, operations, OnlyApi, Confidences)

MarkerMatches(algorithm, operations) ==
    Emits(algorithm, {algorithm}, operations, OnlyApi, Confidences)

BlockAlgorithms == {"AES", "AES128", "AES256"}
AeadAlgorithms == {"AESGCM", "AESGCMSIV", "AESCCM", "AESSIV", "AESOCB3"}

\* A context is called through what kind it is, not through its class.
AesMatches ==
    Emits("AES", {"AES"}, {"CONSTRUCTION"}, BlockAlgorithms \cup AeadAlgorithms, {"HIGH"})
        \cup Emits("AES", {"AES"}, TransportOps, {"Cipher", "AESAEAD"}, {"MEDIUM"})

HashMatches == Emits("HASH", HashAlgorithms, {"HASH"}, OnlyApi, {"HIGH"})

Rules ==
    RsaMatches \cup AesMatches \cup HashMatches
        \cup MarkerMatches("ECDSA", SignatureOps)
        \cup MarkerMatches("ECDH", {"KEY_ESTABLISHMENT"})
        \cup KeyPairMatches("ED25519", SignatureOps)
        \cup KeyPairMatches("X25519", {"KEY_ESTABLISHMENT"})

\* A match: what the rule says, and where the call is.  Class and module are
\* there or not; the path always is.
At(what, place, line) ==
    [rule |-> what.rule, algorithm |-> what.algorithm, primitive |-> what.primitive,
     operation |-> what.operation, api |-> what.api, confidence |-> what.confidence,
     function |-> place.function, class |-> place.class, module |-> place.module,
     line |-> line]

-----------------------------------------------------------------------------
\* engine/roles/classifier.py

SignatureAlgorithms == {"ECDSA", "ED25519", "ED448"}
KeyAgreementAlgorithms == {"ECDH", "X25519", "X448", "DH", "DIFFIE-HELLMAN"}
DualUseAlgorithms == {"RSA"}
SymmetricAlgorithms == {"AES", "CHACHA20", "3DES", "DES", "CAMELLIA"}

ClassifyKeyGeneration(algorithm) ==
    CASE algorithm \in SignatureAlgorithms -> "DIGITAL_SIGNATURE"
      [] algorithm \in KeyAgreementAlgorithms -> "KEY_ESTABLISHMENT"
      [] OTHER -> "UNKNOWN"

\* Defect for CandidatesLead: RSA encryption is not seen as key transport.
ClassifyBySpelling(m) ==
    CASE m.primitive = "HASH" -> "HASH"
      [] m.algorithm \in SymmetricAlgorithms -> "SYMMETRIC_ENCRYPTION"
      [] m.operation \in SignatureOps -> "DIGITAL_SIGNATURE"
      [] m.operation = "KEY_ESTABLISHMENT" -> "KEY_ESTABLISHMENT"
      [] m.operation \in TransportOps -> "SYMMETRIC_ENCRYPTION"
      [] OTHER -> ClassifyKeyGeneration(m.algorithm)

\* The order matters: the primitive, then the family, then the operation.
Classify(m) ==
    IF m.primitive = "HASH" THEN "HASH"
    ELSE IF m.algorithm \in SymmetricAlgorithms THEN "SYMMETRIC_ENCRYPTION"
    ELSE CASE m.operation \in SignatureOps -> "DIGITAL_SIGNATURE"
           [] m.operation = "KEY_ESTABLISHMENT" -> "KEY_ESTABLISHMENT"
           [] m.operation \in TransportOps /\ m.algorithm \in DualUseAlgorithms ->
                  "KEY_ESTABLISHMENT"
           [] m.operation = "KEY_GENERATION" -> ClassifyKeyGeneration(m.algorithm)
           [] OTHER -> "UNKNOWN"

-----------------------------------------------------------------------------
\* engine/pqc/mapper.py

ReviewPath(algorithm, role) ==
    CASE /\ role = "DIGITAL_SIGNATURE"
         /\ algorithm \in {"RSA", "ECDSA", "ED25519", "ED448", "DSA"} -> "ML-DSA / SLH-DSA"
      [] /\ role = "KEY_ESTABLISHMENT"
         /\ algorithm \in {"RSA"} \cup KeyAgreementAlgorithms -> "ML-KEM"
      [] role = "SYMMETRIC_ENCRYPTION" /\ algorithm \in SymmetricAlgorithms ->
             "KEY / IMPLEMENTATION REVIEW"
      [] role = "HASH" -> "HASH / POLICY REVIEW"
      [] OTHER -> "MANUAL REVIEW"

IsMigrationCandidate(path) == path \in {"ML-DSA / SLH-DSA", "ML-KEM"}

-----------------------------------------------------------------------------
\* engine/impact: the chain algorithm, API, function, class, module, file.  A
\* part that is not established is left out, and the chain goes on without it.

ImpactNodes(m) ==
    {"ALGORITHM", "API", "FILE"}
        \cup {"FUNCTION" : x \in {m.function} \ {NoName}}
        \cup {"CLASS" : x \in {m.class} \ {FALSE}}
        \cup {"MODULE" : x \in {m.module} \ {FALSE}}

-----------------------------------------------------------------------------
\* engine/priority

ConfidencePoints == [HIGH |-> 30, MEDIUM |-> 15, LOW |-> 5, UNKNOWN |-> 0]

AsymmetricFamily ==
    {"RSA", "DSA", "ECDSA", "ECDH", "ED25519", "ED448", "EDDSA", "X25519", "X448", "DH",
     "DIFFIE-HELLMAN", "ECC", "ELGAMAL"}
LegacyHashFamily == {"SHA-1", "MD5", "MD4"}
HashFamily == (HashAlgorithms \ {"SHA-512/224", "SHA-512/256"}) \cup {"SHA-3"}
SymmetricFamily == {"AES", "CHACHA20", "3DES", "DES", "BLOWFISH", "RC4", "ARC4"}

AlgorithmPoints(algorithm) ==
    CASE algorithm \in AsymmetricFamily -> 40
      [] algorithm \in LegacyHashFamily -> 25
      [] algorithm \in (HashFamily \ LegacyHashFamily) \cup SymmetricFamily -> 15
      [] OTHER -> 10

OperationPoints(operation) ==
    CASE operation \in SignatureOps \cup {"KEY_GENERATION", "KEY_ESTABLISHMENT"} -> 30
      [] operation \in TransportOps -> 25
      [] OTHER -> 10

LongLivedRoles == {"DIGITAL_SIGNATURE", "KEY_ESTABLISHMENT"}

\* No rule emits a post-quantum algorithm, which would score by confidence only.
Score(m, nodes, role) ==
    ConfidencePoints[m.confidence]
        + AlgorithmPoints(m.algorithm)
        + (IF role \in LongLivedRoles THEN 30 ELSE OperationPoints(m.operation))
        + (IF Cardinality(nodes) >= 5 THEN 10 ELSE 0)

Band(points) == IF points >= 80 THEN "HIGH" ELSE IF points >= 40 THEN "MEDIUM" ELSE "LOW"

-----------------------------------------------------------------------------
\* engine/fingerprints and engine/pipeline.py

\* Defect for DiffTellsTheEdit: the place in the file is part of the identity.
FingerprintOfPlace(m) ==
    <<m.rule, m.algorithm, m.api, m.operation, m.function, m.class, m.line>>

\* Defect for RowsAreRight: what is called is not.
FingerprintWithoutApi(m) == <<m.rule, m.algorithm, m.operation, m.function, m.class>>

\* Which rule saw which call where in the program's structure.
Fingerprint(m) == <<m.rule, m.algorithm, m.api, m.operation, m.function, m.class>>

Build(m) ==
    LET role == Classify(m) IN
    [match |-> m,
     role |-> role,
     path |-> ReviewPath(m.algorithm, role),
     score |-> Score(m, ImpactNodes(m), role),
     fingerprint |-> Fingerprint(m)]

\* The members of S by rising keys.
InOrder(S, key) ==
    CHOOSE s \in [1..Cardinality(S) -> S] :
        \A i, j \in 1..Cardinality(S) : i < j => key[s[i]] < key[s[j]]

\* The findings of a snapshot, in the order of their places.
Analyze(matches) ==
    LET sorted == InOrder(matches, [m \in matches |-> m.line])
    IN [i \in 1..Cardinality(matches) |-> Build(sorted[i])]

\* services/persistence.py and cli/diff.py keep the first of a fingerprint.
Dedupe(findings) ==
    LET First(i) == \A j \in 1..(i - 1) : findings[j].fingerprint # findings[i].fingerprint
        firsts == {i \in DOMAIN findings : First(i)}
        kept == InOrder(firsts, [i \in firsts |-> i])
    IN [k \in 1..Cardinality(firsts) |-> findings[kept[k]]]

Identities(findings) == {findings[i].fingerprint : i \in DOMAIN findings}

=============================================================================
