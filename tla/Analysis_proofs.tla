-------------------------- MODULE Analysis_proofs ---------------------------
(***************************************************************************)
(* What is stored of a commit, what the diff of two commits tells and what *)
(* the advisor says of a finding, for any file: the order of the findings  *)
(* and the fold over their fingerprints, the tables of roles and points,   *)
(* the guardrails and the heuristics, and the steps of Analysis.           *)
(***************************************************************************)
EXTENDS Analysis, FiniteSetTheorems, FunctionTheorems, WellFoundedInduction, TLAPS

-----------------------------------------------------------------------------
(* Order, and the fold over the fingerprints *)

\* A set of numbers that is not empty has a least one: the intervals up to its
\* members are well-founded.
LEMMA LeastExists ==
    ASSUME NEW X \in SUBSET Nat, X # {}
    PROVE  \E x \in X : \A y \in X : x <= y
<1> DEFINE Prefixes == {0..x : x \in X}
<1>1. Prefixes # {} /\ Prefixes \subseteq FiniteSubsetsOf(Nat)
    <2>1. \A x \in X : 0..x \in SUBSET Nat
        OBVIOUS
    <2>2. \A x \in X : IsFiniteSet(0..x)
        <3>1. TAKE x \in X
        <3>2. x \in Int /\ 0 \in Int
            OBVIOUS
        <3> QED BY <3>2, FS_Interval
    <2> QED BY <2>1, <2>2 DEF FiniteSubsetsOf
<1>2. PICK P \in Prefixes : \A Q \in Prefixes : ~(<<Q, P>> \in StrictSubsetOrdering(Nat))
    <2> HIDE DEF Prefixes
    <2> QED BY <1>1, FS_StrictSubsetOrderingWellFounded, WFMin
<1>3. PICK x \in X : P = 0..x
    BY <1>2
<1>4. ASSUME NEW y \in X PROVE x <= y
    <2>1. SUFFICES ASSUME y < x PROVE FALSE
        OBVIOUS
    <2>2. 0..y \in Prefixes /\ 0..y \in SUBSET Nat /\ 0..x \in SUBSET Nat
        OBVIOUS
    <2>3. <<0..y, 0..x>> \notin StrictSubsetOrdering(Nat)
        BY <1>2, <1>3, <2>2
    <2>4. 0..y \subseteq 0..x /\ x \in 0..x /\ x \notin 0..y
        BY <2>1
    <2> QED BY <2>2, <2>3, <2>4 DEF StrictSubsetOrdering
<1> QED BY <1>4

Sorted(s, n, S, key) ==
    /\ s \in [1..n -> S]
    /\ \A i, j \in 1..n : i < j => key[s[i]] < key[s[j]]

\* The members of a set whose keys differ and are bounded can be put in order: those
\* of keys below k, for k from 0 on.
LEMMA OrderExists ==
    ASSUME NEW S, NEW N \in Nat, NEW key \in [S -> 0..N],
           \A x, y \in S : key[x] = key[y] => x = y
    PROVE  IsFiniteSet(S) /\ \E s : Sorted(s, Cardinality(S), S, key)
<1> DEFINE Below(k) == {x \in S : key[x] < k}
           Good(k) == IsFiniteSet(Below(k)) /\ \E s : Sorted(s, Cardinality(Below(k)), Below(k), key)
           Bad == {k \in Nat : ~Good(k)}
<1>1. Good(0)
    <2>1. Below(0) = {}
        OBVIOUS
    <2>2. IsFiniteSet({}) /\ Cardinality({}) = 0
        BY FS_EmptySet
    <2>3. Sorted([i \in 1..0 |-> i], 0, {}, key)
        BY DEF Sorted
    <2> HIDE DEF Below
    <2> QED BY <2>1, <2>2, <2>3
<1>2. ASSUME NEW k \in Nat, Good(k) PROVE Good(k + 1)
    <2> DEFINE B == Below(k)
               n == Cardinality(B)
    <2>1. CASE \A x \in S : key[x] # k
        <3>1. Below(k + 1) = B
            BY <2>1
        <3> QED BY <1>2, <3>1
    <2>2. CASE \E x \in S : key[x] = k
        <3>1. PICK x \in S : key[x] = k
            BY <2>2
        <3>2. Below(k + 1) = B \cup {x} /\ x \notin B
            BY <3>1
        <3>3. IsFiniteSet(B) /\ n \in Nat
            BY <1>2, FS_CardinalityType
        <3>4. IsFiniteSet(B \cup {x}) /\ Cardinality(B \cup {x}) = n + 1
            BY <3>2, <3>3, FS_AddElement
        <3>5. PICK s : Sorted(s, n, B, key)
            BY <1>2
        <3> DEFINE t == [i \in 1..(n + 1) |-> IF i = n + 1 THEN x ELSE s[i]]
        <3>6. \A y \in B : key[y] < k /\ y \in S
            OBVIOUS
        <3> HIDE DEF Below, B, n
        <3>7. t \in [1..(n + 1) -> B \cup {x}]
            BY <3>3, <3>5 DEF Sorted
        <3>8. ASSUME NEW i \in 1..(n + 1), NEW j \in 1..(n + 1), i < j
              PROVE  key[t[i]] < key[t[j]]
            <4>1. i \in 1..n /\ t[i] = s[i] /\ s[i] \in B
                BY <3>3, <3>5, <3>8 DEF Sorted
            <4>2. CASE j = n + 1
                BY <3>1, <3>6, <4>1, <4>2
            <4>3. CASE j # n + 1
                <5>1. j \in 1..n /\ t[j] = s[j]
                    BY <3>3, <4>3
                <5> QED BY <3>5, <3>8, <4>1, <5>1 DEF Sorted
            <4> QED BY <4>2, <4>3
        <3>9. Sorted(t, n + 1, B \cup {x}, key)
            BY <3>7, <3>8 DEF Sorted
        <3> QED BY <3>2, <3>4, <3>9
    <2> QED BY <2>1, <2>2
<1>3. Bad = {}
    <2>1. SUFFICES ASSUME Bad # {} PROVE FALSE
        OBVIOUS
    <2>2. PICK k \in Bad : \A j \in Bad : k <= j
        <3>1. Bad \in SUBSET Nat
            OBVIOUS
        <3> HIDE DEF Bad
        <3> QED BY <2>1, <3>1, LeastExists
    <2> HIDE DEF Good
    <2>3. k # 0 /\ k \in Nat
        BY <1>1
    <2>4. k - 1 \in Nat /\ k - 1 \notin Bad
        BY <2>2, <2>3
    <2>5. Good((k - 1) + 1)
        BY <1>2, <2>4
    <2>6. (k - 1) + 1 = k
        BY <2>3
    <2> QED BY <2>2, <2>5, <2>6
<1>4. Good(N + 1)
    <2>1. N + 1 \in Nat
        OBVIOUS
    <2> HIDE DEF Good
    <2> QED BY <1>3, <2>1
<1>5. Below(N + 1) = S
    OBVIOUS
<1> QED BY <1>4, <1>5

\* InOrder names every member once, by rising keys.
LEMMA InOrderSorts ==
    ASSUME NEW S, NEW N \in Nat, NEW key \in [S -> 0..N],
           \A x, y \in S : key[x] = key[y] => x = y
    PROVE  LET s == InOrder(S, key)
               n == Cardinality(S)
           IN /\ n \in Nat
              /\ s \in [1..n -> S]
              /\ \A i, j \in 1..n : i < j => key[s[i]] < key[s[j]]
              /\ \A x \in S : \E i \in 1..n : s[i] = x
<1> DEFINE s == InOrder(S, key)
           n == Cardinality(S)
<1>1. IsFiniteSet(S) /\ \E t : Sorted(t, n, S, key)
    BY OrderExists
<1>2. n \in Nat
    BY <1>1, FS_CardinalityType
<1>3. /\ s \in [1..n -> S]
      /\ \A i, j \in 1..n : i < j => key[s[i]] < key[s[j]]
    BY <1>1 DEF InOrder, Sorted
<1> HIDE DEF s
<1>4. \A i, j \in 1..n : s[i] = s[j] => i = j
    <2> SUFFICES ASSUME NEW i \in 1..n, NEW j \in 1..n, s[i] = s[j], i # j PROVE FALSE
        OBVIOUS
    <2>1. i < j \/ j < i
        BY <1>2
    <2>2. key[s[i]] \in 0..N /\ key[s[j]] \in 0..N
        BY <1>3
    <2> QED BY <1>3, <2>1, <2>2
<1>5. s \in Injection(1..n, S)
    BY <1>3, <1>4, Fun_IsInj
<1>6. Cardinality(1..n) = n
    BY <1>2, FS_Interval
<1>7. s \in Surjection(1..n, S)
    BY <1>1, <1>5, <1>6, FS_Injection
<1>8. \A x \in S : \E i \in 1..n : s[i] = x
    BY <1>7 DEF Surjection
<1> QED BY <1>2, <1>3, <1>8 DEF s

\* A snapshot: matches of distinct lines.
Snapshot(matches, N) ==
    /\ \A m \in matches : m.line \in 0..N
    /\ \A m, n \in matches : m.line = n.line => m = n

\* What a scan keeps of a snapshot.
Kept(matches) == Dedupe(Analyze(matches))

\* The findings of a snapshot: of every match, in the order of the lines.
LEMMA AnalyzeOrders ==
    ASSUME NEW M, NEW N \in Nat, Snapshot(M, N)
    PROVE  \E n \in Nat : \E s \in [1..n -> M] :
               /\ Analyze(M) = [i \in 1..n |-> Build(s[i])]
               /\ \A i, j \in 1..n : i < j => s[i].line < s[j].line
               /\ \A m \in M : \E i \in 1..n : s[i] = m
<1> DEFINE key == [m \in M |-> m.line]
           s == InOrder(M, key)
           n == Cardinality(M)
<1>1. key \in [M -> 0..N] /\ \A x, y \in M : key[x] = key[y] => x = y
    BY DEF Snapshot
<1>2. /\ n \in Nat /\ s \in [1..n -> M]
      /\ \A i, j \in 1..n : i < j => key[s[i]] < key[s[j]]
      /\ \A x \in M : \E i \in 1..n : s[i] = x
    <2> HIDE DEF key
    <2> QED BY <1>1, InOrderSorts
<1>3. Analyze(M) = [i \in 1..n |-> Build(s[i])]
    BY DEF Analyze
<1> HIDE DEF s, n
<1>4. \A i \in 1..n : key[s[i]] = s[i].line
    BY <1>2
<1> QED BY <1>2, <1>3, <1>4

\* Folding keeps, of each fingerprint, the finding of the first match.
LEMMA DedupeKeepsFirsts ==
    ASSUME NEW M, NEW N \in Nat, Snapshot(M, N)
    PROVE  \E n \in Nat :
               /\ DOMAIN Kept(M) = 1..n
               /\ \A k \in 1..n : \E m \in M :
                      /\ Kept(M)[k] = Build(m)
                      /\ \A x \in M : Fingerprint(x) = Fingerprint(m) => m.line <= x.line
               /\ \A k, l \in 1..n :
                      Kept(M)[k].fingerprint = Kept(M)[l].fingerprint => k = l
               /\ \A m \in M : \E k \in 1..n : Kept(M)[k].fingerprint = Fingerprint(m)
<1>0. PICK n \in Nat : \E s \in [1..n -> M] :
          /\ Analyze(M) = [i \in 1..n |-> Build(s[i])]
          /\ \A i, j \in 1..n : i < j => s[i].line < s[j].line
          /\ \A m \in M : \E i \in 1..n : s[i] = m
    BY AnalyzeOrders
<1>1. PICK s \in [1..n -> M] :
          /\ Analyze(M) = [i \in 1..n |-> Build(s[i])]
          /\ \A i, j \in 1..n : i < j => s[i].line < s[j].line
          /\ \A m \in M : \E i \in 1..n : s[i] = m
    BY <1>0
<1> DEFINE F == [i \in 1..n |-> Build(s[i])]
           Mark(i) == Fingerprint(s[i])
           firsts == {i \in DOMAIN F : \A j \in 1..(i - 1) : F[j].fingerprint # F[i].fingerprint}
           key == [i \in firsts |-> i]
           t == InOrder(firsts, key)
           c == Cardinality(firsts)
<1>2. \A i \in 1..n : F[i] = Build(s[i]) /\ F[i].fingerprint = Mark(i)
    BY DEF Build
<1>3. Kept(M) = [k \in 1..c |-> F[t[k]]]
    BY <1>1 DEF Kept, Dedupe
<1>4. firsts = {i \in 1..n : \A j \in 1..(i - 1) : Mark(j) # Mark(i)}
    <2>1. DOMAIN F = 1..n
        OBVIOUS
    <2>2. \A i \in 1..n : \A j \in 1..(i - 1) : j \in 1..n
        OBVIOUS
    <2> HIDE DEF F, Mark
    <2> QED BY <1>2, <2>1, <2>2
<1> HIDE DEF firsts, F
<1>5. key \in [firsts -> 0..n] /\ \A x, y \in firsts : key[x] = key[y] => x = y
    BY <1>4
<1>6. /\ c \in Nat /\ t \in [1..c -> firsts]
      /\ \A i, j \in 1..c : i < j => key[t[i]] < key[t[j]]
      /\ \A x \in firsts : \E i \in 1..c : t[i] = x
    <2> HIDE DEF key
    <2> QED BY <1>5, InOrderSorts
<1>7. \A i, j \in 1..c : i < j => t[i] < t[j]
    <2> HIDE DEF t, c
    <2> QED BY <1>6
<1> HIDE DEF t, c, key, Mark
<1>8. \A k \in 1..c : t[k] \in 1..n /\ Kept(M)[k] = Build(s[t[k]]) /\ Kept(M)[k].fingerprint = Mark(t[k])
    BY <1>2, <1>3, <1>4, <1>6
<1>9. \A k \in 1..c : \A x \in M : Fingerprint(x) = Mark(t[k]) => s[t[k]].line <= x.line
    <2> SUFFICES ASSUME NEW k \in 1..c, NEW x \in M, Fingerprint(x) = Mark(t[k])
                 PROVE  s[t[k]].line <= x.line
        OBVIOUS
    <2>1. PICK i \in 1..n : s[i] = x
        BY <1>1
    <2>2. Mark(i) = Mark(t[k])
        BY <2>1 DEF Mark
    <2>3. t[k] \in firsts /\ t[k] \in 1..n
        BY <1>6, <1>8
    <2>4. ~(i < t[k])
        <3>1. SUFFICES ASSUME i < t[k] PROVE FALSE
            OBVIOUS
        <3>2. i \in 1..(t[k] - 1)
            BY <2>3, <3>1
        <3> QED BY <1>4, <2>2, <2>3, <3>2
    <2>5. CASE i = t[k]
        <3>1. s[t[k]].line = x.line /\ x.line \in 0..N
            BY <2>1, <2>5 DEF Snapshot
        <3> QED BY <3>1
    <2>6. CASE t[k] < i
        <3>1. s[t[k]].line < s[i].line /\ s[t[k]].line \in 0..N /\ s[i].line \in 0..N
            BY <1>1, <2>3, <2>6 DEF Snapshot
        <3> QED BY <2>1, <3>1
    <2> QED BY <2>3, <2>4, <2>5, <2>6
<1>10. \A k, l \in 1..c : Mark(t[k]) = Mark(t[l]) => k = l
    <2>1. ASSUME NEW k \in 1..c, NEW l \in 1..c, k < l PROVE Mark(t[k]) # Mark(t[l])
        <3>1. t[k] < t[l] /\ t[l] \in firsts /\ t[k] \in 1..n /\ t[l] \in 1..n
            BY <1>6, <1>7, <1>8, <2>1
        <3>2. t[k] \in 1..(t[l] - 1)
            BY <3>1
        <3> QED BY <1>4, <3>1, <3>2
    <2> QED BY <1>6, <2>1
<1>11. ASSUME NEW m \in M PROVE \E k \in 1..c : Mark(t[k]) = Fingerprint(m)
    <2> DEFINE Alike == {i \in 1..n : Mark(i) = Fingerprint(m)}
    <2>1. Alike # {}
        BY <1>1 DEF Mark
    <2>2. PICK i \in Alike : \A j \in Alike : i <= j
        <3>1. Alike \in SUBSET Nat
            OBVIOUS
        <3> HIDE DEF Alike
        <3> QED BY <2>1, <3>1, LeastExists
    <2>3. i \in 1..n /\ Mark(i) = Fingerprint(m)
        OBVIOUS
    <2>4. \A j \in 1..(i - 1) : Mark(j) # Mark(i)
        <3> SUFFICES ASSUME NEW j \in 1..(i - 1), Mark(j) = Mark(i) PROVE FALSE
            OBVIOUS
        <3>1. j \in 1..n /\ j < i
            BY <2>3
        <3>2. j \in Alike
            BY <2>3, <3>1
        <3>3. i <= j
            BY <2>2, <3>2
        <3> QED BY <2>3, <3>1, <3>3
    <2>5. i \in firsts
        BY <1>4, <2>3, <2>4
    <2> QED BY <1>6, <2>3, <2>5
<1>12. DOMAIN Kept(M) = 1..c
    BY <1>3
<1>13. \A k \in 1..c : s[t[k]] \in M /\ Mark(t[k]) = Fingerprint(s[t[k]])
    BY <1>8 DEF Mark
<1>14. \A k \in 1..c : \E m \in M :
          /\ Kept(M)[k] = Build(m)
          /\ \A x \in M : Fingerprint(x) = Fingerprint(m) => m.line <= x.line
    BY <1>8, <1>9, <1>13
<1>15. \A k, l \in 1..c : Kept(M)[k].fingerprint = Kept(M)[l].fingerprint => k = l
    BY <1>8, <1>10
<1>16. \A m \in M : \E k \in 1..c : Kept(M)[k].fingerprint = Fingerprint(m)
    BY <1>8, <1>11
<1> QED BY <1>6, <1>12, <1>14, <1>15, <1>16

\* What identifies the findings that are kept are the fingerprints of the matches.
LEMMA IdentitiesKept ==
    ASSUME NEW M, NEW N \in Nat, Snapshot(M, N)
    PROVE  Identities(Kept(M)) = {Fingerprint(m) : m \in M}
<1>1. PICK n \in Nat :
          /\ DOMAIN Kept(M) = 1..n
          /\ \A k \in 1..n : \E m \in M : Kept(M)[k] = Build(m)
          /\ \A m \in M : \E k \in 1..n : Kept(M)[k].fingerprint = Fingerprint(m)
    BY DedupeKeepsFirsts
<1>2. \A m \in M : Build(m).fingerprint = Fingerprint(m)
    BY DEF Build
<1> DEFINE I == Identities(Kept(M))
<1>3. \A k \in 1..n : Kept(M)[k].fingerprint \in I
    BY <1>1 DEF Identities
<1>4. \A x \in I : \E k \in 1..n : x = Kept(M)[k].fingerprint
    BY <1>1 DEF Identities
<1> HIDE DEF I
<1>5. \A x \in I : \E m \in M : x = Fingerprint(m)
    BY <1>1, <1>2, <1>4
<1>6. \A m \in M : Fingerprint(m) \in I
    BY <1>1, <1>3
<1>7. I = {Fingerprint(m) : m \in M}
    BY <1>5, <1>6
<1> QED BY <1>7 DEF I

-----------------------------------------------------------------------------
(* The tables of roles, review paths and points *)

\* What a match can be, rule by rule.
LEMMA MatchCases ==
    ASSUME NEW m \in Sites
    PROVE  /\ m.confidence \in {"HIGH", "MEDIUM"}
           /\ m.primitive = m.rule
           /\ m.line \in Lines
           /\ m.operation = "KEY_GENERATION" => m.confidence = "HIGH"
           /\ \/ /\ m.rule = "HASH" /\ m.algorithm \in HashAlgorithms
                 /\ m.operation = "HASH" /\ m.confidence = "HIGH"
              \/ /\ m.rule = "AES" /\ m.algorithm = "AES"
                 /\ \/ m.operation = "CONSTRUCTION" /\ m.confidence = "HIGH"
                    \/ m.operation \in TransportOps /\ m.confidence = "MEDIUM"
              \/ /\ m.rule = "RSA" /\ m.algorithm = "RSA"
                 /\ m.operation \in {"KEY_GENERATION"} \cup SignatureOps \cup TransportOps
              \/ /\ m.rule = "ECDSA" /\ m.algorithm = "ECDSA" /\ m.operation \in SignatureOps
              \/ /\ m.rule = "ED25519" /\ m.algorithm = "ED25519"
                 /\ m.operation \in {"KEY_GENERATION"} \cup SignatureOps
              \/ /\ m.rule = "ECDH" /\ m.algorithm = "ECDH" /\ m.operation = "KEY_ESTABLISHMENT"
              \/ /\ m.rule = "X25519" /\ m.algorithm = "X25519"
                 /\ m.operation \in {"KEY_GENERATION", "KEY_ESTABLISHMENT"}
<1>1. PICK what \in Rules, place \in Places, line \in Lines : m = At(what, place, line)
    BY DEF Sites
<1>2. /\ m.rule = what.rule /\ m.algorithm = what.algorithm /\ m.primitive = what.primitive
      /\ m.operation = what.operation /\ m.confidence = what.confidence /\ m.line = line
    BY <1>1 DEF At
<1>3. CASE what \in RsaMatches
    BY <1>2, <1>3 DEF RsaMatches, Emits, Confidences, SignatureOps, TransportOps
<1>4. CASE what \in AesMatches
    BY <1>2, <1>4 DEF AesMatches, Emits, TransportOps
<1>5. CASE what \in HashMatches
    BY <1>2, <1>5 DEF HashMatches, Emits
<1>6. CASE what \in MarkerMatches("ECDSA", SignatureOps)
    BY <1>2, <1>6 DEF MarkerMatches, Emits, Confidences, SignatureOps
<1>7. CASE what \in MarkerMatches("ECDH", {"KEY_ESTABLISHMENT"})
    BY <1>2, <1>7 DEF MarkerMatches, Emits, Confidences
<1>8. CASE what \in KeyPairMatches("ED25519", SignatureOps)
    BY <1>2, <1>8 DEF KeyPairMatches, Emits, Confidences, SignatureOps
<1>9. CASE what \in KeyPairMatches("X25519", {"KEY_ESTABLISHMENT"})
    BY <1>2, <1>9 DEF KeyPairMatches, Emits, Confidences
<1> QED BY <1>3, <1>4, <1>5, <1>6, <1>7, <1>8, <1>9 DEF Rules

\* The role of a match and the path of its review.
LEMMA RoleCases ==
    ASSUME NEW m \in Sites
    PROVE  LET role == Classify(m)
               path == ReviewPath(m.algorithm, role)
           IN \/ m.rule = "HASH" /\ role = "HASH" /\ ~IsMigrationCandidate(path)
              \/ m.rule = "AES" /\ role = "SYMMETRIC_ENCRYPTION" /\ ~IsMigrationCandidate(path)
              \/ /\ m.rule \in {"RSA", "ECDSA", "ED25519"} /\ role = "DIGITAL_SIGNATURE"
              \/ /\ m.rule \in {"RSA", "ECDH", "X25519"} /\ role = "KEY_ESTABLISHMENT"
              \/ /\ m.rule = "RSA" /\ role = "UNKNOWN" /\ ~IsMigrationCandidate(path)
<1> USE DEF ReviewPath, IsMigrationCandidate, KeyAgreementAlgorithms, SymmetricAlgorithms
<1>1. CASE m.rule = "HASH"
    <2>1. Classify(m) = "HASH"
        BY <1>1, MatchCases DEF Classify
    <2> QED BY <1>1, <2>1
<1>2. CASE m.rule = "AES"
    <2>1. Classify(m) = "SYMMETRIC_ENCRYPTION"
        BY <1>2, MatchCases DEF Classify
    <2> QED BY <1>2, <2>1
<1>3. CASE m.rule = "RSA"
    <2>1. /\ m.primitive = "RSA" /\ m.algorithm = "RSA" 
          /\ m.operation \in {"KEY_GENERATION"} \cup SignatureOps \cup TransportOps
        BY <1>3, MatchCases
    <2>2. Classify(m) \in {"DIGITAL_SIGNATURE", "KEY_ESTABLISHMENT", "UNKNOWN"}
        BY <2>1 DEF Classify, ClassifyKeyGeneration, DualUseAlgorithms, SignatureAlgorithms,
                    SignatureOps, TransportOps
    <2> QED BY <1>3, <2>1, <2>2
<1>4. CASE m.rule \in {"ECDSA", "ED25519"}
    <2>1. /\ m.primitive = m.rule /\ m.algorithm = m.rule
          /\ m.operation \in {"KEY_GENERATION"} \cup SignatureOps
        BY <1>4, MatchCases
    <2>2. Classify(m) = "DIGITAL_SIGNATURE"
        BY <1>4, <2>1 DEF Classify, ClassifyKeyGeneration, DualUseAlgorithms, SignatureAlgorithms,
                    SignatureOps, TransportOps
    <2> QED BY <1>4, <2>1, <2>2
<1>5. CASE m.rule \in {"ECDH", "X25519"}
    <2>1. /\ m.primitive = m.rule /\ m.algorithm = m.rule
          /\ m.operation \in {"KEY_GENERATION", "KEY_ESTABLISHMENT"}
        BY <1>5, MatchCases
    <2>2. Classify(m) = "KEY_ESTABLISHMENT"
        BY <1>5, <2>1 DEF Classify, ClassifyKeyGeneration, DualUseAlgorithms, SignatureAlgorithms,
                    SignatureOps, TransportOps
    <2> QED BY <1>5, <2>1, <2>2
<1> QED BY <1>1, <1>2, <1>3, <1>4, <1>5, MatchCases

\* What needs a post-quantum replacement scores 85 at least, a hash and a symmetric
\* cipher 75 at most, and no finding is in the low band.
LEMMA ScoreBounds ==
    ASSUME NEW m \in Sites
    PROVE  LET f == Build(m)
           IN /\ f.score \in Nat
              /\ f.score >= 40
              /\ IsMigrationCandidate(f.path) => f.score >= 85
              /\ f.role \in {"HASH", "SYMMETRIC_ENCRYPTION"} => f.score <= 75
<1> DEFINE confidence == ConfidencePoints[m.confidence]
           algorithm == AlgorithmPoints(m.algorithm)
           operation == IF Classify(m) \in LongLivedRoles THEN 30 ELSE OperationPoints(m.operation)
           chain == IF Cardinality(ImpactNodes(m)) >= 5 THEN 10 ELSE 0
<1>1. /\ Build(m).score = confidence + algorithm + operation + chain
      /\ Build(m).role = Classify(m)
      /\ Build(m).path = ReviewPath(m.algorithm, Classify(m))
    BY DEF Build, Score
<1>2. chain \in {0, 10}
    OBVIOUS
<1>3. confidence = IF m.confidence = "HIGH" THEN 30 ELSE 15
    BY MatchCases DEF ConfidencePoints
<1>4. operation \in {10, 25, 30}
    BY DEF OperationPoints
<1>5. algorithm \in {10, 15, 25, 40}
    BY DEF AlgorithmPoints
<1>6. CASE m.rule = "HASH"
    <2>1. /\ m.algorithm \in HashAlgorithms /\ m.operation = "HASH" /\ m.confidence = "HIGH"
          /\ Classify(m) = "HASH" /\ ~IsMigrationCandidate(Build(m).path)
        BY <1>1, <1>6, MatchCases, RoleCases
    <2>2. operation = 10
        BY <2>1 DEF OperationPoints, LongLivedRoles, SignatureOps, TransportOps
    <2>3. algorithm # 40
        BY <2>1 DEF AlgorithmPoints, AsymmetricFamily, HashAlgorithms
    <2> HIDE DEF confidence, algorithm, operation, chain
    <2> QED BY <1>1, <1>2, <1>3, <1>5, <2>1, <2>2, <2>3
<1>7. CASE m.rule = "AES"
    <2>1. /\ m.algorithm = "AES"
          /\ \/ m.operation = "CONSTRUCTION"
             \/ m.operation \in TransportOps /\ m.confidence = "MEDIUM"
          /\ Classify(m) = "SYMMETRIC_ENCRYPTION" /\ ~IsMigrationCandidate(Build(m).path)
        BY <1>1, <1>7, MatchCases, RoleCases
    <2>2. \/ operation = 10
          \/ operation = 25 /\ confidence = 15
        BY <1>3, <2>1 DEF OperationPoints, LongLivedRoles, SignatureOps, TransportOps
    <2>3. algorithm = 15
        BY <2>1 DEF AlgorithmPoints, AsymmetricFamily, LegacyHashFamily, SymmetricFamily
    <2> HIDE DEF confidence, algorithm, operation, chain
    <2> QED BY <1>1, <1>2, <1>3, <2>1, <2>2, <2>3
<1>8. CASE m.rule \notin {"HASH", "AES"}
    <2>1. /\ m.algorithm \in {"RSA", "ECDSA", "ED25519", "ECDH", "X25519"}
          /\ Classify(m) \notin {"HASH", "SYMMETRIC_ENCRYPTION"}
          /\ IsMigrationCandidate(Build(m).path) =>
                 Classify(m) \in {"DIGITAL_SIGNATURE", "KEY_ESTABLISHMENT"}
        BY <1>1, <1>8, MatchCases, RoleCases
    <2>2. IsMigrationCandidate(Build(m).path) => operation = 30
        BY <2>1 DEF LongLivedRoles
    <2>3. algorithm = 40
        BY <2>1 DEF AlgorithmPoints, AsymmetricFamily, LegacyHashFamily, HashFamily,
                    HashAlgorithms, SymmetricFamily
    <2> HIDE DEF confidence, algorithm, operation, chain
    <2> QED BY <1>1, <1>2, <1>3, <1>4, <2>1, <2>2, <2>3
<1> QED BY <1>6, <1>7, <1>8

-----------------------------------------------------------------------------
(* The guardrails on one assessment *)

\* A value of None names no scheme.
LEMMA NoneIsNoScheme == ~IsSignature(None) /\ ~IsKem(None) /\ ~IsPublicKey(None)
BY AdvisorAssumption DEF IsSignature, IsKem, IsPublicKey

\* Correcting and filtering change no role, and the candidate that is left is the
\* corrected one, or none.
LEMMA GuardedFields ==
    ASSUME NEW a \in Assessments, NEW role
    PROVE  /\ EnforceGuardrails(a, role).role = a.role
           /\ EnforceGuardrails(a, role).candidate \in {Corrected(a, role).candidate, None}
           /\ EnforceGuardrails(a, role).decision = "KEEP" =>
                  /\ EnforceGuardrails(a, role).candidate = None
                  /\ EnforceGuardrails(a, role).required = FALSE
<1> DEFINE c == Corrected(a, role)
           s == Settled(a, role)
<1>1. c \in Assessments /\ c.role = a.role
    BY DEF Corrected, Assessments, Decisions, Candidates
<1>2. /\ s \in Assessments /\ s.role = a.role /\ s.candidate \in {c.candidate, None}
      /\ s.decision = c.decision
      /\ s.decision = "KEEP" => s.candidate = None /\ s.required = FALSE
    BY <1>1 DEF Settled, Assessments, Candidates
<1>3. /\ EnforceGuardrails(a, role).role = s.role
      /\ EnforceGuardrails(a, role).candidate = s.candidate
      /\ EnforceGuardrails(a, role).decision = s.decision
      /\ EnforceGuardrails(a, role).required = s.required
    BY <1>2 DEF EnforceGuardrails, Filtered, Assessments
<1> QED BY <1>1, <1>2, <1>3

\* A hash gets no public-key scheme as its candidate.
LEMMA GuardedHash ==
    ASSUME NEW a \in Assessments, NEW role, HashLike(a, role)
    PROVE  ~IsPublicKey(Corrected(a, role).candidate)
BY NoneIsNoScheme DEF Corrected, Assessments, Decisions, Candidates

\* Neither a hash nor what is a cipher to the rules gets one among its alternatives.
LEMMA GuardedAlternatives ==
    ASSUME NEW a \in Assessments, NEW role,
           HashLike(a, role) \/ role = "SYMMETRIC_ENCRYPTION"
    PROVE  \A x \in EnforceGuardrails(a, role).alternatives : ~IsPublicKey(x)
<1> DEFINE c == Corrected(a, role)
           s == Settled(a, role)
<1>1. c \in Assessments /\ c.role = a.role
    BY DEF Corrected, Assessments, Decisions, Candidates
<1>2. s \in Assessments /\ s.role = a.role
    BY <1>1 DEF Settled, Assessments, Candidates
<1>3. EnforceGuardrails(a, role) = [s EXCEPT !.alternatives = {x \in @ : ~IsPublicKey(x)}]
    BY <1>2 DEF EnforceGuardrails, Filtered, HashLike
<1>4. EnforceGuardrails(a, role).alternatives = {x \in s.alternatives : ~IsPublicKey(x)}
    BY <1>2, <1>3 DEF Assessments
<1> QED BY <1>4

\* The other categories, in the order of the branches.
LEMMA CorrectedElse ==
    ASSUME NEW a \in Assessments, NEW role, ~HashLike(a, role)
    PROVE  LET c == Corrected(a, role)
               establishes == "KEY_ESTABLISHMENT" \in {a.role, role}
               signs == a.role \in SignatureRoles \/ role = "DIGITAL_SIGNATURE"
               encrypts == a.role = "ENCRYPTION" \/ role = "SYMMETRIC_ENCRYPTION"
           IN /\ c.candidate \in Candidates
              /\ establishes => ~IsSignature(c.candidate)
              /\ signs /\ ~establishes => ~IsKem(c.candidate)
              /\ encrypts /\ ~establishes /\ ~signs => ~IsPublicKey(c.candidate)
<1>0. Corrected(a, role).candidate \in Candidates
    BY DEF Corrected, Assessments, Candidates
<1>1. CASE "KEY_ESTABLISHMENT" \in {a.role, role}
    BY <1>0, <1>1 DEF Corrected, Assessments, IsSignature
<1>2. CASE /\ "KEY_ESTABLISHMENT" \notin {a.role, role}
           /\ a.role \in SignatureRoles \/ role = "DIGITAL_SIGNATURE"
    BY <1>0, <1>2 DEF Corrected, Assessments, IsKem
<1>3. CASE /\ "KEY_ESTABLISHMENT" \notin {a.role, role}
           /\ ~(a.role \in SignatureRoles \/ role = "DIGITAL_SIGNATURE")
    BY <1>0, <1>3, NoneIsNoScheme DEF Corrected, Assessments
<1> QED BY <1>1, <1>2, <1>3

-----------------------------------------------------------------------------
(* Every assessment goes through them *)

\* What is stored is what the guardrails make of a reply or of the heuristics.
Guarded ==
    advice # None =>
        /\ advice.raw \in Assessments
        /\ advice.final = EnforceGuardrails(advice.raw, advice.role)

\* A reply of the model is an assessment.
LEMMA RepliesAreAssessments == Replies \subseteq Assessments
<1> SUFFICES ASSUME NEW a \in Replies PROVE a \in Assessments
    OBVIOUS
<1>1. {"MEDIUM"} \subseteq Levels /\ {"model"} \subseteq {"model", "heuristic"}
    BY DEF Levels
<1>2. \A x \in {{}, {"kem", "other"}, {"signature"}} : x \in SUBSET Candidates
    BY DEF Candidates
<1> QED BY <1>1, <1>2 DEF Replies, Assessments

\* So is what the heuristics say.
LEMMA HeuristicsAreAssessments ==
    ASSUME NEW algorithm, NEW role, NEW clues, NEW bandwidth
    PROVE  Heuristics(algorithm, role, clues, bandwidth) \in Assessments
<1> DEFINE r == HeuristicRole(algorithm, role, clues)
<1>1. InferredRole(algorithm, role, clues) \in ContextualRoles
    BY DEF InferredRole, ContextualRoles
<1>2. r \in ContextualRoles
    BY <1>1 DEF HeuristicRole, ContextualRoles
<1> HIDE DEF r
<1>3. ASSUME NEW d \in Decisions, NEW l \in Levels, NEW c \in Candidates, NEW q \in BOOLEAN,
             NEW alternatives \in SUBSET Candidates
      PROVE  Assessment(r, d, l, c, q, alternatives, "heuristic") \in Assessments
    BY <1>2 DEF Assessment, Assessments
<1>4. /\ {{}, {"other"}, {"kem", "other"}, {"signature", "other"}} \subseteq SUBSET Candidates
      /\ {None, "signature", "kem"} \subseteq Candidates
      /\ {"HIGH", "LOW"} \subseteq Levels
      /\ {"KEEP", "REVIEW", "MIGRATE", "INSUFFICIENT_CONTEXT"} \subseteq Decisions
    BY DEF Candidates, Levels, Decisions
<1> DEFINE Says(d, l, c, q, alternatives) ==
               Assessment(r, d, l, c, q, alternatives, "heuristic")
<1>5. \/ Heuristics(algorithm, role, clues, bandwidth) = Says("KEEP", "HIGH", None, FALSE, {"other"})
      \/ Heuristics(algorithm, role, clues, bandwidth) =
             Says("REVIEW", "HIGH", "signature", TRUE, {"signature", "other"})
      \/ Heuristics(algorithm, role, clues, bandwidth) =
             Says("MIGRATE", "HIGH", "signature", TRUE, {"signature", "other"})
      \/ Heuristics(algorithm, role, clues, bandwidth) =
             Says("MIGRATE", "HIGH", "kem", TRUE, {"kem", "other"})
      \/ Heuristics(algorithm, role, clues, bandwidth) =
             Says("INSUFFICIENT_CONTEXT", "LOW", None, FALSE, {})
    BY Zenon DEF Heuristics, r
<1>6. Says("KEEP", "HIGH", None, FALSE, {"other"}) \in Assessments
    BY <1>3, <1>4
<1>7. /\ Says("REVIEW", "HIGH", "signature", TRUE, {"signature", "other"}) \in Assessments
      /\ Says("MIGRATE", "HIGH", "signature", TRUE, {"signature", "other"}) \in Assessments
    BY <1>3, <1>4
<1>8. Says("MIGRATE", "HIGH", "kem", TRUE, {"kem", "other"}) \in Assessments
    BY <1>3, <1>4
<1>9. Says("INSUFFICIENT_CONTEXT", "LOW", None, FALSE, {}) \in Assessments
    BY <1>3, <1>4
<1> HIDE DEF Says
<1> QED BY <1>5, <1>6, <1>7, <1>8, <1>9, Zenon

\* Whoever gives an advice, the guardrails are between it and what is stored.
LEMMA AdviseGuards ==
    ASSUME NEW row, NEW raw \in Assessments, Advise(row, raw)
    PROVE  Guarded'
BY DEF Advise, Guarded

LEMMA GuardedAlways == Spec => []Guarded
<1>1. Init => Guarded
    BY DEF Init, Guarded
<1>2. Guarded /\ [Next]_vars => Guarded'
    <2> SUFFICES ASSUME Guarded, [Next]_vars PROVE Guarded'
        OBVIOUS
    <2>1. CASE UNCHANGED advice
        BY <2>1 DEF Guarded
    <2>2. CASE AssessOffline
        BY <2>2, HeuristicsAreAssessments, AdviseGuards DEF AssessOffline
    <2>3. CASE AssessByModel
        BY <2>3, RepliesAreAssessments, AdviseGuards DEF AssessByModel
    <2> QED BY <2>1, <2>2, <2>3
            DEF Next, Persist, Move, Delete, Add, Edited, Diff, vars
<1> QED BY <1>1, <1>2, PTL DEF Spec

\* For any rules, any file and any reply of the model no assessment makes a
\* category error, except that of two roles of different kinds the scheme of the
\* first may stand, and one that says keep names nothing to migrate to
\* (guardrails.py:46-174, called by both ways of assess).
THEOREM AdviceIsGuarded == Spec => []GuardrailsHold
<1>1. Guarded => GuardrailsHold
    <2> SUFFICES ASSUME Guarded, advice # None PROVE GuardrailsHold
        BY DEF GuardrailsHold, NoCategoryError, KeepMeansKeep
    <2> DEFINE a == advice.raw
               role == advice.role
               f == advice.final
               c == Corrected(a, role).candidate
               establishes == IsOfKind("establishment", f, role)
               signs == IsOfKind("signature", f, role)
               encrypts == IsOfKind("cipher", f, role)
               hash == IsOfKind("hash", f, role)
    <2>1. a \in Assessments /\ f = EnforceGuardrails(a, role)
        BY DEF Guarded
    <2>2. /\ f.role = a.role
          /\ f.candidate \in {c, None}
          /\ f.decision = "KEEP" => f.candidate = None /\ f.required = FALSE
        <3> HIDE DEF a, role, f
        <3> QED BY <2>1, GuardedFields
    <2>3. KeepMeansKeep
        BY <2>2 DEF KeepMeansKeep
    <2>4. /\ hash <=> HashLike(a, role)
          /\ establishes <=> "KEY_ESTABLISHMENT" \in {a.role, role}
          /\ signs <=> a.role \in SignatureRoles \/ role = "DIGITAL_SIGNATURE"
          /\ encrypts <=> a.role = "ENCRYPTION" \/ role = "SYMMETRIC_ENCRYPTION"
        BY <2>2 DEF IsOfKind, ContextualKinds, DetectedKinds, HashLike
    <2>5. hash \/ role = "SYMMETRIC_ENCRYPTION" => \A x \in f.alternatives : ~IsPublicKey(x)
        <3>1. HashLike(a, role) \/ role = "SYMMETRIC_ENCRYPTION" =>
                  \A x \in EnforceGuardrails(a, role).alternatives : ~IsPublicKey(x)
            <4> HIDE DEF a, role, f
            <4> QED BY <2>1, GuardedAlternatives
        <3> QED BY <2>1, <2>4, <3>1
    <2>6. /\ hash => ~IsPublicKey(c)
          /\ ~hash =>
                 /\ c \in Candidates
                 /\ establishes => ~IsSignature(c)
                 /\ signs /\ ~establishes => ~IsKem(c)
                 /\ encrypts /\ ~establishes /\ ~signs => ~IsPublicKey(c)
        <3> HIDE DEF hash, establishes, signs, encrypts, a, role, f
        <3> QED BY <2>1, <2>4, GuardedHash, CorrectedElse
    <2> HIDE DEF a, role, f, c
    <2>7. CASE f.candidate = None
        <3>1. \A kind \in DOMAIN DetectedKinds : ~MustNever(kind, f.candidate)
            BY <2>7, NoneIsNoScheme DEF DetectedKinds, MustNever
        <3> QED BY <2>3, <2>5, <3>1 DEF GuardrailsHold, NoCategoryError, a, role, f
    <2>8. CASE f.candidate = c
        <3>1. ASSUME MustNever("hash", c) PROVE ~hash
            BY <2>6, <3>1 DEF MustNever
        <3>2. ASSUME establishes PROVE ~MustNever("establishment", c)
            BY <2>6, <3>2 DEF MustNever, IsPublicKey
        <3>3. ASSUME signs, MustNever("signature", c) PROVE RightForTheOther("signature", f, role)
            <4>1. IsKem(c) /\ ~hash /\ establishes /\ ~IsSignature(c)
                BY <2>6, <3>3 DEF MustNever, IsPublicKey
            <4>2. c = "kem"
                BY <4>1 DEF IsKem, IsSignature
            <4> QED BY <2>8, <4>1, <4>2 DEF RightForTheOther
        <3>4. ASSUME encrypts, MustNever("cipher", c) PROVE RightForTheOther("cipher", f, role)
            <4>1. IsPublicKey(c) /\ ~hash /\ (establishes \/ signs)
                BY <2>6, <3>4 DEF MustNever
            <4>2. CASE establishes
                <5>1. c = "kem"
                    BY <2>6, <4>1, <4>2 DEF IsKem, IsSignature, IsPublicKey
                <5> QED BY <2>8, <4>2, <5>1 DEF RightForTheOther
            <4>3. CASE ~establishes
                <5>1. c = "signature"
                    BY <2>6, <4>1, <4>3 DEF IsKem, IsSignature, IsPublicKey
                <5> QED BY <2>8, <4>1, <4>3, <5>1 DEF RightForTheOther
            <4> QED BY <4>2, <4>3
        <3>5. ASSUME NEW kind \in DOMAIN DetectedKinds,
                     IsOfKind(kind, f, role), MustNever(kind, f.candidate)
              PROVE  RightForTheOther(kind, f, role)
            <4>1. kind \in {"hash", "establishment", "signature", "cipher"}
                BY DEF DetectedKinds
            <4> QED BY <2>8, <3>1, <3>2, <3>3, <3>4, <3>5, <4>1
        <3> QED BY <2>3, <2>5, <3>5 DEF GuardrailsHold, NoCategoryError, a, role, f
    <2> QED BY <2>2, <2>7, <2>8
<1> QED BY <1>1, GuardedAlways, PTL

-----------------------------------------------------------------------------
(* The heuristics need no correction *)

\* The guardrails leave alone what has none of the faults they look for.
LEMMA NothingToCorrect ==
    ASSUME NEW a \in Assessments, NEW role,
           HashLike(a, role) \/ role = "SYMMETRIC_ENCRYPTION" =>
               ~IsPublicKey(a.candidate) /\ \A x \in a.alternatives : ~IsPublicKey(x),
           ~HashLike(a, role) =>
               \/ "KEY_ESTABLISHMENT" \in {a.role, role} /\ ~IsSignature(a.candidate)
               \/ "KEY_ESTABLISHMENT" \notin {a.role, role} /\ ~IsKem(a.candidate),
           a.role = "ENCRYPTION" => ~IsPublicKey(a.candidate),
           a.decision = "KEEP" => a.candidate = None /\ a.required = FALSE
    PROVE  EnforceGuardrails(a, role) = a
<1>1. Corrected(a, role) = a
    BY DEF Corrected
<1>2. Settled(a, role) = a
    BY <1>1 DEF Settled, Assessments
<1>3. Filtered(a, role) = a
    <2>1. CASE HashLike(a, role) \/ role = "SYMMETRIC_ENCRYPTION"
        <3>1. {x \in a.alternatives : ~IsPublicKey(x)} = a.alternatives
            BY <2>1
        <3> QED BY <3>1 DEF Filtered, Assessments
    <2>2. CASE ~(HashLike(a, role) \/ role = "SYMMETRIC_ENCRYPTION")
        BY <2>2 DEF Filtered
    <2> QED BY <2>1, <2>2
<1> QED BY <1>2, <1>3 DEF EnforceGuardrails

\* What the heuristics say of a finding, by the role of the classifier.
LEMMA HeuristicsCases ==
    ASSUME NEW m \in Sites, NEW clues, NEW bandwidth
    PROVE  LET role == Classify(m)
               a == Heuristics(m.algorithm, role, clues, bandwidth)
           IN \/ /\ role = "HASH" /\ a.role \in HashRoles
                 /\ a.candidate = None /\ a.required = FALSE /\ a.alternatives \in {{}, {"other"}}
              \/ /\ role = "SYMMETRIC_ENCRYPTION" /\ a.role = "ENCRYPTION"
                 /\ a.candidate = None /\ a.required = FALSE /\ a.alternatives \in {{}, {"other"}}
              \/ /\ role \in {"DIGITAL_SIGNATURE", "UNKNOWN"} /\ a.role = "DIGITAL_SIGNATURE"
                 /\ a.candidate = "signature" /\ a.decision # "KEEP"
              \/ /\ role = "UNKNOWN" /\ a.role = "UNKNOWN" /\ a.candidate = None /\ a.required = FALSE
              \/ /\ role = "KEY_ESTABLISHMENT" /\ a.role = "KEY_ESTABLISHMENT"
                 /\ a.candidate = "kem" /\ a.decision # "KEEP"
<1> DEFINE role == Classify(m)
           hash == Named(m.algorithm, {"SHA", "MD5", "BLAKE"})
           signing == Named(m.algorithm, {"ECDSA", "ED25519", "RSA"})
           agreeing == Named(m.algorithm, {"ECDH", "X25519"})
           ecdsa == Named(m.algorithm, {"ECDSA"})
           r == HeuristicRole(m.algorithm, role, clues)
           a == Heuristics(m.algorithm, role, clues, bandwidth)
<1>1. /\ hash => m.algorithm \in HashAlgorithms
      /\ signing => m.algorithm \in {"ECDSA", "ED25519", "RSA"}
      /\ ecdsa => m.algorithm = "ECDSA"
      /\ agreeing => m.algorithm \in {"ECDH", "X25519"}
    <2>1. m.algorithm \in {what.algorithm : what \in Rules}
        BY DEF Sites, At
    <2> QED BY <2>1, NamesAssumption
<1>2. a.role = r
    BY DEF Heuristics, Assessment
<1>3. CASE m.rule = "HASH"
    <2>1. role = "HASH" /\ ~ecdsa /\ ~agreeing
        BY <1>1, <1>3, MatchCases, RoleCases DEF HashAlgorithms
    <2>2. r \in {"CONTENT_ADDRESSING", "DATA_INTEGRITY", "PASSWORD_DERIVATION", "HASHING"}
        BY <2>1 DEF HeuristicRole, InferredRole
    <2>3. a.candidate = None /\ a.required = FALSE /\ a.alternatives \in {{}, {"other"}}
        BY <2>1, <2>2 DEF Heuristics, Assessment, SignatureRoles
    <2> QED BY <1>2, <2>1, <2>2, <2>3 DEF HashRoles
<1>4. CASE m.rule = "AES"
    <2>1. role = "SYMMETRIC_ENCRYPTION" /\ ~ecdsa /\ ~agreeing /\ ~hash /\ ~signing
        BY <1>1, <1>4, MatchCases, RoleCases DEF HashAlgorithms
    <2>2. r = "ENCRYPTION"
        BY <2>1 DEF HeuristicRole, InferredRole
    <2>3. a.candidate = None /\ a.required = FALSE /\ a.alternatives \in {{}, {"other"}}
        BY <2>1, <2>2 DEF Heuristics, Assessment, SignatureRoles
    <2> QED BY <1>2, <2>1, <2>2, <2>3
<1>5. CASE m.rule \notin {"HASH", "AES"}
    <2>1. ~hash
        BY <1>1, <1>5, MatchCases DEF HashAlgorithms
    <2>2. CASE role = "DIGITAL_SIGNATURE"
        <3>1. ~agreeing
            BY <1>1, <1>5, <2>2, MatchCases, RoleCases
        <3>2. r = "DIGITAL_SIGNATURE"
            BY <2>1, <2>2, <3>1 DEF HeuristicRole, InferredRole
        <3>3. a.candidate = "signature" /\ a.decision # "KEEP"
            BY <3>2 DEF Heuristics, Assessment, SignatureRoles
        <3> QED BY <1>2, <2>2, <3>2, <3>3
    <2>3. CASE role = "KEY_ESTABLISHMENT"
        <3>1. ~ecdsa
            BY <1>1, <1>5, <2>3, MatchCases, RoleCases
        <3>2. r = "KEY_ESTABLISHMENT"
            BY <2>1, <2>3 DEF HeuristicRole, InferredRole
        <3>3. a.candidate = "kem" /\ a.decision # "KEEP"
            BY <3>1, <3>2 DEF Heuristics, Assessment, SignatureRoles
        <3> QED BY <1>2, <2>3, <3>2, <3>3
    <2>4. CASE role = "UNKNOWN"
        <3>1. m.algorithm = "RSA" /\ ~agreeing /\ ~ecdsa
            BY <1>1, <1>5, <2>4, MatchCases, RoleCases
        <3>2. CASE signing
            <4>1. r = "DIGITAL_SIGNATURE"
                BY <2>1, <2>4, <3>1, <3>2 DEF HeuristicRole, InferredRole
            <4>2. a.candidate = "signature" /\ a.decision # "KEEP"
                BY <4>1 DEF Heuristics, Assessment, SignatureRoles
            <4> QED BY <1>2, <2>4, <4>1, <4>2
        <3>3. CASE ~signing
            <4>1. r = "UNKNOWN"
                BY <2>1, <2>4, <3>1, <3>3 DEF HeuristicRole, InferredRole
            <4>2. a.candidate = None /\ a.required = FALSE
                BY <3>1, <4>1 DEF Heuristics, Assessment, SignatureRoles
            <4> QED BY <1>2, <2>4, <4>1, <4>2
        <3> QED BY <3>2, <3>3
    <2> QED BY <1>5, <2>2, <2>3, <2>4, RoleCases
<1> QED BY <1>3, <1>4, <1>5

\* So the guardrails have nothing to correct in it.
LEMMA HeuristicsStand ==
    ASSUME NEW m \in Sites, NEW clues, NEW bandwidth
    PROVE  LET a == Heuristics(m.algorithm, Classify(m), clues, bandwidth)
           IN EnforceGuardrails(a, Classify(m)) = a
<1> DEFINE role == Classify(m)
           a == Heuristics(m.algorithm, role, clues, bandwidth)
<1>1. a \in Assessments
    BY HeuristicsAreAssessments
<1>2. ~IsPublicKey("other")
    BY DEF IsPublicKey, IsSignature, IsKem
<1>3. \/ /\ role = "HASH" /\ a.role \in HashRoles
         /\ a.candidate = None /\ a.required = FALSE /\ a.alternatives \in {{}, {"other"}}
      \/ /\ role = "SYMMETRIC_ENCRYPTION" /\ a.role = "ENCRYPTION"
         /\ a.candidate = None /\ a.required = FALSE /\ a.alternatives \in {{}, {"other"}}
      \/ /\ role \in {"DIGITAL_SIGNATURE", "UNKNOWN"} /\ a.role = "DIGITAL_SIGNATURE"
         /\ a.candidate = "signature" /\ a.decision # "KEEP"
      \/ /\ role = "UNKNOWN" /\ a.role = "UNKNOWN" /\ a.candidate = None /\ a.required = FALSE
      \/ /\ role = "KEY_ESTABLISHMENT" /\ a.role = "KEY_ESTABLISHMENT"
         /\ a.candidate = "kem" /\ a.decision # "KEEP"
    BY HeuristicsCases
<1> HIDE DEF a, role
<1>4. HashLike(a, role) \/ role = "SYMMETRIC_ENCRYPTION" =>
          ~IsPublicKey(a.candidate) /\ \A x \in a.alternatives : ~IsPublicKey(x)
    BY <1>2, <1>3, NoneIsNoScheme DEF HashLike, HashRoles
<1>5. ~HashLike(a, role) =>
          \/ "KEY_ESTABLISHMENT" \in {a.role, role} /\ ~IsSignature(a.candidate)
          \/ "KEY_ESTABLISHMENT" \notin {a.role, role} /\ ~IsKem(a.candidate)
    BY <1>3, NoneIsNoScheme DEF HashLike, IsSignature, IsKem
<1>6. /\ a.role = "ENCRYPTION" => ~IsPublicKey(a.candidate)
      /\ a.decision = "KEEP" => a.candidate = None /\ a.required = FALSE
    BY <1>3, NoneIsNoScheme DEF HashRoles
<1>7. EnforceGuardrails(a, role) = a
    BY <1>1, <1>4, <1>5, <1>6, NothingToCorrect
<1> QED BY <1>7 DEF a, role

-----------------------------------------------------------------------------
(* The commits and what is computed from them *)

\* What is stored for a snapshot, and what a diff of two says.
Stored(matches) == [k \in DOMAIN Kept(matches) |-> Row(Kept(matches)[k])]

Told(before, after) ==
    LET new == Identities(Kept(after)) \ Identities(Kept(before))
    IN [new |-> new,
        fixed |-> Identities(Kept(before)) \ Identities(Kept(after)),
        unchanged |-> Identities(Kept(after)) \cap Identities(Kept(before)),
        exit |-> IF new # {} THEN "findings" ELSE "ok"]

Moved(m) == [m EXCEPT !.line = @ + 1]

Unedited == edit = NoEdit /\ head = base /\ diff = None
EditMoved == edit = [kind |-> "moved", match |-> None] /\ head = {Moved(m) : m \in base}
EditRemoved == \E m \in base : edit = [kind |-> "removed", match |-> m] /\ head = base \ {m}
EditAdded ==
    \E m \in Sites : /\ m.line \notin {n.line : n \in base}
                     /\ edit = [kind |-> "added", match |-> m] /\ head = base \cup {m}

\* The second commit is the first one and the edit, and what is stored and told is
\* computed from the two.
CommitInv ==
    /\ base \subseteq Sites /\ OneCallPerLine(base)
    /\ Unedited \/ EditMoved \/ EditRemoved \/ EditAdded
    /\ rows \in {<< >>, Stored(base)}
    /\ diff \in {None, Told(base, head)}

\* What is said without a model is said by the heuristics of a match.
OfflineInv ==
    (advice # None /\ advice.raw.by = "heuristic") =>
        \E m \in Sites, clues \in SUBSET Clues, bandwidth \in {"LOW", "HIGH"} :
            /\ advice.raw = Heuristics(m.algorithm, Classify(m), clues, bandwidth)
            /\ advice.final = EnforceGuardrails(advice.raw, Classify(m))

AnalysisInv == CommitInv /\ OfflineInv

\* Matches of a file are a snapshot.
LEMMA SiteSnapshot ==
    ASSUME NEW M, M \subseteq Sites, OneCallPerLine(M)
    PROVE  Snapshot(M, MaxLines)
<1>1. \A m \in M : m.line \in Lines
    BY MatchCases
<1>2. Lines \subseteq 0..MaxLines
    BY AnalysisAssumption DEF Lines
<1> QED BY <1>1, <1>2 DEF Snapshot, OneCallPerLine

\* A row is that of a match, the first of its fingerprint.
LEMMA RowsOfMatches ==
    ASSUME CommitInv
    PROVE  /\ \A i \in DOMAIN rows : \E m \in base :
                  /\ m \in Sites
                  /\ rows[i] = Row(Build(m))
                  /\ \A x \in base : Fingerprint(x) = Fingerprint(m) => m.line <= x.line
           /\ \A i, j \in DOMAIN rows :
                  rows[i].finding.fingerprint = rows[j].finding.fingerprint => i = j
           /\ rows # << >> => \A m \in base : \E i \in DOMAIN rows :
                  rows[i].finding.fingerprint = Fingerprint(m)
<1>1. Snapshot(base, MaxLines) /\ MaxLines \in Nat
    BY SiteSnapshot, AnalysisAssumption DEF CommitInv
<1>2. PICK n \in Nat :
          /\ DOMAIN Kept(base) = 1..n
          /\ \A k \in 1..n : \E m \in base :
                 /\ Kept(base)[k] = Build(m)
                 /\ \A x \in base : Fingerprint(x) = Fingerprint(m) => m.line <= x.line
          /\ \A k, l \in 1..n : Kept(base)[k].fingerprint = Kept(base)[l].fingerprint => k = l
          /\ \A m \in base : \E k \in 1..n : Kept(base)[k].fingerprint = Fingerprint(m)
    BY <1>1, DedupeKeepsFirsts
<1>3. base \subseteq Sites
    BY DEF CommitInv
<1>4. CASE rows = << >>
    BY <1>4
<1>5. CASE rows = Stored(base)
    <2>1. DOMAIN rows = 1..n /\ \A i \in 1..n : rows[i] = Row(Kept(base)[i])
        BY <1>2, <1>5 DEF Stored
    <2>2. \A f : Row(f).finding = f
        BY DEF Row
    <2>3. \A i \in 1..n : rows[i].finding = Kept(base)[i]
        BY <2>1, <2>2
    <2>4. \A i \in DOMAIN rows : \E m \in base :
              /\ m \in Sites
              /\ rows[i] = Row(Build(m))
              /\ \A x \in base : Fingerprint(x) = Fingerprint(m) => m.line <= x.line
        <3> SUFFICES ASSUME NEW i \in DOMAIN rows
                     PROVE  \E m \in base :
                                /\ m \in Sites
                                /\ rows[i] = Row(Build(m))
                                /\ \A x \in base : Fingerprint(x) = Fingerprint(m) => m.line <= x.line
            OBVIOUS
        <3>1. PICK m \in base :
                  /\ Kept(base)[i] = Build(m)
                  /\ \A x \in base : Fingerprint(x) = Fingerprint(m) => m.line <= x.line
            BY <1>2, <2>1
        <3> QED BY <1>3, <2>1, <3>1
    <2>5. \A i, j \in DOMAIN rows :
              rows[i].finding.fingerprint = rows[j].finding.fingerprint => i = j
        BY <1>2, <2>1, <2>3
    <2>6. ASSUME NEW m \in base
          PROVE  \E i \in DOMAIN rows : rows[i].finding.fingerprint = Fingerprint(m)
        <3>1. PICK k \in 1..n : Kept(base)[k].fingerprint = Fingerprint(m)
            BY <1>2
        <3> QED BY <2>1, <2>3, <3>1
    <2> QED BY <2>4, <2>5, <2>6
<1> QED BY <1>4, <1>5 DEF CommitInv

\* The invariant is inductive: the start, the steps on the commits, and the advice.
LEMMA CommitInit == Init => AnalysisInv
<1> SUFFICES ASSUME Init PROVE AnalysisInv
    OBVIOUS
<1>1. base \subseteq Sites /\ OneCallPerLine(base)
    BY AnalysisAssumption DEF Init
<1> QED BY <1>1 DEF Init, AnalysisInv, CommitInv, OfflineInv, Unedited

\* An edit and a diff are made once, of the commit as it is.
LEMMA CommitStep == CommitInv /\ [Next]_vars => CommitInv'
<1> SUFFICES ASSUME CommitInv, [Next]_vars PROVE CommitInv'
    OBVIOUS
<1> USE DEF CommitInv
<1>1. CASE Persist
    <2>1. rows' = Stored(base)
        BY <1>1 DEF Persist, Stored, Kept
    <2>2. Unedited' = Unedited /\ EditMoved' = EditMoved /\ EditRemoved' = EditRemoved
          /\ EditAdded' = EditAdded
        BY <1>1 DEF Persist, Unedited, EditMoved, EditRemoved, EditAdded
    <2>3. base' = base /\ diff' = diff /\ head' = head
        BY <1>1 DEF Persist
    <2> QED BY <2>1, <2>2, <2>3
<1>2. ASSUME NEW kind, NEW m, Edited(kind, m) 
      PROVE  /\ base' = base /\ rows' = rows /\ diff' = None /\ Unedited
             /\ edit' = [kind |-> kind, match |-> m]
    <2>1. edit = NoEdit
        BY <1>2 DEF Edited
    <2>2. ~EditMoved /\ ~EditRemoved /\ ~EditAdded
        BY <2>1 DEF NoEdit, EditMoved, EditRemoved, EditAdded
    <2> QED BY <1>2, <2>2 DEF Edited, Unedited
<1>3. CASE Move
    <2>1. Edited("moved", None) /\ head' = {Moved(m) : m \in base}
        BY <1>3 DEF Move, Moved
    <2>2. EditMoved'
        BY <1>2, <2>1 DEF EditMoved
    <2> QED BY <1>2, <2>1, <2>2
<1>4. ASSUME NEW m \in base, Delete(m) PROVE CommitInv'
    <2>1. Edited("removed", m) /\ head' = base \ {m}
        BY <1>4 DEF Delete
    <2>2. EditRemoved'
        BY <1>2, <2>1 DEF EditRemoved
    <2> QED BY <1>2, <2>1, <2>2
<1>5. ASSUME NEW m \in Sites, Add(m) PROVE CommitInv'
    <2>1. Edited("added", m) /\ head' = base \cup {m} /\ m.line \notin {n.line : n \in base}
        BY <1>5 DEF Add
    <2>2. EditAdded'
        BY <1>2, <2>1 DEF EditAdded
    <2> QED BY <1>2, <2>1, <2>2
<1>6. CASE Diff
    <2>1. diff' = Told(base, head) /\ base' = base /\ head' = head /\ edit' = edit /\ rows' = rows
        BY <1>6 DEF Diff, Told, Kept
    <2>2. ~Unedited
        BY <1>6 DEF Diff, Unedited
    <2>3. EditMoved' = EditMoved /\ EditRemoved' = EditRemoved /\ EditAdded' = EditAdded
        BY <2>1 DEF EditMoved, EditRemoved, EditAdded
    <2> QED BY <2>1, <2>2, <2>3
<1>7. CASE UNCHANGED <<base, head, edit, rows, diff>>
    <2>1. Unedited' = Unedited /\ EditMoved' = EditMoved /\ EditRemoved' = EditRemoved
          /\ EditAdded' = EditAdded
        BY <1>7 DEF Unedited, EditMoved, EditRemoved, EditAdded
    <2> QED BY <1>7, <2>1
<1> QED BY <1>1, <1>3, <1>4, <1>5, <1>6, <1>7 DEF Next, AssessOffline, AssessByModel, Advise, vars

\* The finding that is assessed is that of a match.
LEMMA OfflineStep == AnalysisInv /\ [Next]_vars => OfflineInv'
<1> SUFFICES ASSUME AnalysisInv, [Next]_vars PROVE OfflineInv'
    OBVIOUS
<1>1. CASE UNCHANGED advice
    BY <1>1 DEF AnalysisInv, OfflineInv
<1>2. CASE AssessByModel
    <2>1. PICK i \in DOMAIN rows, reply \in Replies : Advise(rows[i], reply)
        BY <1>2 DEF AssessByModel
    <2>2. advice'.raw = reply /\ reply.by = "model"
        BY <2>1 DEF Advise, Replies
    <2> QED BY <2>2 DEF OfflineInv
<1>3. CASE AssessOffline
    <2>1. PICK i \in DOMAIN rows, clues \in SUBSET Clues, bandwidth \in {"LOW", "HIGH"} :
              Advise(rows[i], Heuristics(rows[i].finding.match.algorithm, rows[i].finding.role,
                                         clues, bandwidth))
        BY <1>3 DEF AssessOffline
    <2>2. PICK m \in Sites : rows[i] = Row(Build(m))
        BY RowsOfMatches DEF AnalysisInv
    <2>3. rows[i].finding.match.algorithm = m.algorithm /\ rows[i].finding.role = Classify(m)
        BY <2>2 DEF Row, Build
    <2>4. /\ advice'.raw = Heuristics(m.algorithm, Classify(m), clues, bandwidth)
          /\ advice'.final = EnforceGuardrails(advice'.raw, Classify(m))
        BY <2>1, <2>3 DEF Advise
    <2> QED BY <2>4 DEF OfflineInv
<1> QED BY <1>1, <1>2, <1>3
        DEF Next, Persist, Move, Delete, Add, Edited, Diff, vars

LEMMA AnalysisHolds == Spec => []AnalysisInv
<1>1. AnalysisInv /\ [Next]_vars => AnalysisInv'
    BY CommitStep, OfflineStep DEF AnalysisInv
<1> QED BY <1>1, CommitInit, PTL DEF Spec

\* Whatever the file, no hash and no cipher in the review queue scores as high as
\* what needs a replacement (priority/scorer.py:47-69 over the tables of
\* priority/rules.py).
THEOREM CandidatesComeFirst == Spec => []CandidatesLead
<1>1. AnalysisInv => CandidatesLead
    <2> SUFFICES ASSUME AnalysisInv, NEW i \in DOMAIN rows, NEW j \in DOMAIN rows,
                        rows[i].review = "OPEN",
                        rows[j].finding.role \in {"HASH", "SYMMETRIC_ENCRYPTION"}
                 PROVE  rows[i].finding.score > rows[j].finding.score
        BY DEF CandidatesLead
    <2>1. PICK m \in Sites : rows[i] = Row(Build(m))
        BY RowsOfMatches DEF AnalysisInv
    <2>2. PICK n \in Sites : rows[j] = Row(Build(n))
        BY RowsOfMatches DEF AnalysisInv
    <2>3. rows[i].finding = Build(m) /\ rows[j].finding = Build(n)
        BY <2>1, <2>2 DEF Row
    <2>4. IsMigrationCandidate(Build(m).path)
        BY <2>1 DEF Row
    <2>5. Build(m).score \in Nat /\ Build(m).score >= 85
        BY <2>4, ScoreBounds
    <2>6. Build(n).score \in Nat /\ Build(n).score <= 75
        BY <2>3, ScoreBounds
    <2> QED BY <2>3, <2>5, <2>6
<1> QED BY <1>1, AnalysisHolds, PTL

\* Without a model, what the advisor says of any finding of any rule passes the
\* guardrails unchanged (services/context_advisor.py, _assess_with_heuristics).
THEOREM HeuristicsNeedNoCorrection == Spec => []OfflineAdviceStands
<1>1. AnalysisInv => OfflineAdviceStands
    BY HeuristicsStand DEF AnalysisInv, OfflineInv, OfflineAdviceStands
<1> QED BY <1>1, AnalysisHolds, PTL

\* A call is At its place.
LEMMA SiteFields ==
    ASSUME NEW m \in Sites
    PROVE  /\ m = [rule |-> m.rule, algorithm |-> m.algorithm, primitive |-> m.rule,
                   operation |-> m.operation, api |-> m.api, confidence |-> m.confidence,
                   function |-> m.function, class |-> m.class, module |-> m.module,
                   line |-> m.line]
           /\ \E place \in Places : m.module = place.module
<1>1. PICK what \in Rules, place \in Places, line \in Lines : m = At(what, place, line)
    BY DEF Sites
<1>2. m.primitive = m.rule
    BY MatchCases
<1>3. m.module = place.module
    BY <1>1 DEF At
<1> QED BY <1>1, <1>2, <1>3 DEF At

\* The fingerprint tells the findings of a file apart as it should: two calls have one
\* fingerprint when they differ in line and confidence at most.
LEMMA FingerprintTells ==
    ASSUME NEW m \in Sites, NEW n \in Sites
    PROVE  Same(m, n) <=> Fingerprint(m) = Fingerprint(n)
<1> DEFINE Rec(x, confidence, line) ==
               [rule |-> x.rule, algorithm |-> x.algorithm, primitive |-> x.rule,
                operation |-> x.operation, api |-> x.api, confidence |-> confidence,
                function |-> x.function, class |-> x.class, module |-> x.module,
                line |-> line]
<1>1. m = Rec(m, m.confidence, m.line) /\ n = Rec(n, n.confidence, n.line)
    BY SiteFields
<1>2. m.module = n.module
    BY SiteFields, AnalysisAssumption
<1>3. [m EXCEPT !.line = n.line, !.confidence = n.confidence] = Rec(m, n.confidence, n.line)
    <2> DEFINE moved == [m EXCEPT !.line = n.line]
    <2>1. moved = Rec(m, m.confidence, n.line)
        BY <1>1
    <2>2. [moved EXCEPT !.confidence = n.confidence] = Rec(m, n.confidence, n.line)
        <3> HIDE DEF moved
        <3> QED BY <2>1
    <2> QED BY <2>2
<1>4. ASSUME Same(m, n) PROVE Fingerprint(m) = Fingerprint(n)
    <2>1. Rec(m, n.confidence, n.line) = n
        BY <1>3, <1>4 DEF Same
    <2>2. /\ n.rule = m.rule /\ n.algorithm = m.algorithm /\ n.api = m.api
          /\ n.operation = m.operation /\ n.function = m.function /\ n.class = m.class
        BY <2>1
    <2> QED BY <2>2 DEF Fingerprint
<1>5. ASSUME Fingerprint(m) = Fingerprint(n) PROVE Same(m, n)
    <2>1. /\ n.rule = m.rule /\ n.algorithm = m.algorithm /\ n.api = m.api
          /\ n.operation = m.operation /\ n.function = m.function /\ n.class = m.class
        BY <1>5 DEF Fingerprint
    <2>2. Rec(m, n.confidence, n.line) = Rec(n, n.confidence, n.line)
        BY <1>2, <2>1
    <2>3. [m EXCEPT !.line = n.line, !.confidence = n.confidence] = n
        BY <1>1, <1>3, <2>2
    <2> QED BY <2>3 DEF Same
<1> QED BY <1>4, <1>5

\* Folding n into the row of m keeps role, review and priority, and costs 15 points at
\* most: only what needs a replacement is established more or less firmly, and it has
\* the high priority either way.
LEMMA FoldKeeps ==
    ASSUME NEW m \in Sites, NEW n \in Sites, Fingerprint(m) = Fingerprint(n)
    PROVE  StandsFor(Row(Build(m)), n)
<1> DEFINE own == Score(n, ImpactNodes(n), Classify(n))
           row == Row(Build(m))
<1>1. Same(n, m)
    BY FingerprintTells
<1>2. /\ m.rule = n.rule /\ m.algorithm = n.algorithm /\ m.operation = n.operation
      /\ m.function = n.function /\ m.class = n.class
    BY DEF Fingerprint
<1>3. m.primitive = n.primitive /\ m.module = n.module
    BY <1>2, MatchCases, SiteFields, AnalysisAssumption
<1>4. Classify(m) = Classify(n) /\ ImpactNodes(m) = ImpactNodes(n)
    BY <1>2, <1>3 DEF Classify, ImpactNodes
<1>5. /\ row.finding = Build(m) /\ Build(m).match = m /\ Build(m).role = Classify(m)
      /\ Build(m).path = ReviewPath(m.algorithm, Classify(m))
      /\ Build(m).score = Score(m, ImpactNodes(m), Classify(m))
      /\ row.review = IF IsMigrationCandidate(Build(m).path) THEN "OPEN" ELSE "NONE"
    BY DEF Row, Build
<1>6. /\ Build(n).score = own
      /\ Build(n).path = ReviewPath(n.algorithm, Classify(n))
    BY DEF Build
<1>7. /\ Build(m).score \in Nat /\ own \in Nat
      /\ IsMigrationCandidate(Build(m).path) => Build(m).score >= 85
      /\ IsMigrationCandidate(Build(n).path) => own >= 85
    BY <1>6, ScoreBounds
<1>8. /\ ConfidencePoints[m.confidence] = IF m.confidence = "HIGH" THEN 30 ELSE 15
      /\ ConfidencePoints[n.confidence] = IF n.confidence = "HIGH" THEN 30 ELSE 15
    BY MatchCases DEF ConfidencePoints
<1> DEFINE rest == AlgorithmPoints(n.algorithm)
                       + (IF Classify(n) \in LongLivedRoles THEN 30 ELSE OperationPoints(n.operation))
                       + (IF Cardinality(ImpactNodes(n)) >= 5 THEN 10 ELSE 0)
<1>9. /\ own = ConfidencePoints[n.confidence] + rest
      /\ Build(m).score = ConfidencePoints[m.confidence] + rest
      /\ rest \in Int
    <2>1. AlgorithmPoints(n.algorithm) \in Nat /\ OperationPoints(n.operation) \in Nat
        BY DEF AlgorithmPoints, OperationPoints
    <2> QED BY <1>2, <1>4, <1>5, <1>8, <2>1 DEF Score
<1> HIDE DEF rest, own
<1>10. own <= Build(m).score + 15
    BY <1>7, <1>8, <1>9
<1>11. Build(m).score + ConfidencePoints[n.confidence] = own + ConfidencePoints[m.confidence]
    BY <1>7, <1>8, <1>9
<1>12. Band(Build(m).score) = Band(own)
    <2>1. CASE m.confidence = n.confidence
        BY <1>9, <2>1
    <2>2. CASE m.confidence # n.confidence
        <3>1. /\ m.algorithm \in {"RSA", "ECDSA", "ED25519", "ECDH", "X25519"}
              /\ m.primitive = m.algorithm
              /\ m.operation \in SignatureOps \cup TransportOps \cup {"KEY_ESTABLISHMENT"}
              /\ m.operation \in SignatureOps => m.algorithm \in {"RSA", "ECDSA", "ED25519"}
              /\ m.operation \in TransportOps => m.algorithm = "RSA"
              /\ m.operation = "KEY_ESTABLISHMENT" => m.algorithm \in {"ECDH", "X25519"}
            BY <1>2, <2>2, MatchCases DEF SignatureOps, TransportOps
        <3>2. IsMigrationCandidate(ReviewPath(m.algorithm, Classify(m)))
            BY <3>1 DEF Classify, SymmetricAlgorithms, SignatureOps, TransportOps, DualUseAlgorithms,
                        ReviewPath, IsMigrationCandidate, KeyAgreementAlgorithms
        <3>3. Build(m).score >= 85 /\ own >= 85
            BY <1>2, <1>4, <1>5, <1>6, <1>7, <3>2
        <3> QED BY <1>7, <3>3 DEF Band
    <2> QED BY <2>1, <2>2
<1>13. row.review = IF IsMigrationCandidate(ReviewPath(n.algorithm, Classify(n)))
                    THEN "OPEN" ELSE "NONE"
    BY <1>2, <1>4, <1>5
<1> QED BY <1>1, <1>4, <1>5, <1>10, <1>11, <1>12, <1>13 DEF StandsFor, own

\* What the guardrails make of an assessment is one.
LEMMA GuardrailsKeepTypes ==
    ASSUME NEW a \in Assessments, NEW role
    PROVE  EnforceGuardrails(a, role) \in Assessments
<1> DEFINE c == Corrected(a, role)
           s == Settled(a, role)
<1>1. c \in Assessments
    BY DEF Corrected, Assessments, Decisions, Candidates
<1> HIDE DEF c
<1>2. s \in Assessments
    BY <1>1 DEF Settled, Assessments, Candidates, c
<1> HIDE DEF s
<1>3. s.alternatives \in SUBSET Candidates
    BY <1>2 DEF Assessments
<1>4. {x \in s.alternatives : ~IsPublicKey(x)} \in SUBSET Candidates
    BY <1>3
<1>5. [s EXCEPT !.alternatives = {x \in @ : ~IsPublicKey(x)}] \in Assessments
    BY <1>2, <1>4 DEF Assessments
<1>6. EnforceGuardrails(a, role) \in {s, [s EXCEPT !.alternatives = {x \in @ : ~IsPublicKey(x)}]}
    BY DEF EnforceGuardrails, Filtered, s
<1> QED BY <1>2, <1>5, <1>6

\* The type invariant follows.
LEMMA CommitTypes ==
    ASSUME AnalysisInv, Guarded
    PROVE  TypeOK
<1>1. base \subseteq Sites
    BY DEF AnalysisInv, CommitInv
<1>2. ASSUME NEW m \in Sites PROVE [m EXCEPT !.line = 1] \in Sites /\ [Moved(m) EXCEPT !.line = 1] \in Sites
    <2>1. PICK what \in Rules, place \in Places, line \in Lines : m = At(what, place, line)
        BY DEF Sites
    <2>2. 1 \in Lines
        BY AnalysisAssumption DEF Lines
    <2>3. [m EXCEPT !.line = 1] = At(what, place, 1)
        BY <2>1 DEF At
    <2>4. Moved(m) = At(what, place, line + 1)
        BY <2>1 DEF At, Moved
    <2>5. [Moved(m) EXCEPT !.line = 1] = At(what, place, 1)
        BY <2>4 DEF At
    <2> QED BY <2>2, <2>3, <2>5 DEF Sites
<1>3. \A m \in head : [m EXCEPT !.line = 1] \in Sites
    <2>1. CASE Unedited
        BY <1>1, <1>2, <2>1 DEF Unedited
    <2>2. CASE EditMoved
        BY <1>1, <1>2, <2>2 DEF EditMoved
    <2>3. CASE EditRemoved
        BY <1>1, <1>2, <2>3 DEF EditRemoved
    <2>4. CASE EditAdded
        BY <1>1, <1>2, <2>4 DEF EditAdded
    <2> QED BY <2>1, <2>2, <2>3, <2>4 DEF AnalysisInv, CommitInv
<1>4. ASSUME NEW i \in DOMAIN rows
      PROVE  rows[i].finding.match \in base /\ Band(rows[i].finding.score) \in {"HIGH", "MEDIUM"}
    <2>1. PICK m \in base : m \in Sites /\ rows[i] = Row(Build(m))
        BY RowsOfMatches DEF AnalysisInv
    <2>2. rows[i].finding = Build(m) /\ Build(m).match = m
        BY <2>1 DEF Row, Build
    <2>3. Build(m).score \in Nat /\ Build(m).score >= 40
        BY <2>1, ScoreBounds
    <2> QED BY <2>2, <2>3 DEF Band
<1>5. diff = None \/ diff.exit \in {"ok", "findings"}
    BY DEF AnalysisInv, CommitInv, Told
<1>6. advice = None \/ {advice.raw, advice.final} \subseteq Assessments
    BY GuardrailsKeepTypes DEF Guarded
<1> QED BY <1>1, <1>3, <1>4, <1>5, <1>6 DEF TypeOK

\* However many matches a file has, one row is stored for each call it makes to an API
\* in a function or a class, that of its first place, and it has the role, the review
\* and the priority of all it stands for (services/persistence.py, persist_analysis).
THEOREM RowsStandForMatches == Spec => []RowsAreRight
<1>1. ASSUME AnalysisInv PROVE OneRowPerFinding
    <2>1. CommitInv /\ base \subseteq Sites
        BY <1>1 DEF AnalysisInv, CommitInv
    <2>2. ASSUME NEW i \in DOMAIN rows
          PROVE  \A m \in base :
                     Same(m, rows[i].finding.match) => rows[i].finding.match.line <= m.line
        <3>1. PICK m \in base :
                  /\ rows[i] = Row(Build(m))
                  /\ \A x \in base : Fingerprint(x) = Fingerprint(m) => m.line <= x.line
            BY <2>1, RowsOfMatches
        <3>2. rows[i].finding.match = m
            BY <3>1 DEF Row, Build
        <3> QED BY <2>1, <3>1, <3>2, FingerprintTells
    <2> QED BY <2>1, <2>2, RowsOfMatches DEF OneRowPerFinding
<1>2. ASSUME AnalysisInv, rows # << >>, NEW m \in base
      PROVE  \E i \in DOMAIN rows : StandsFor(rows[i], m)
    <2>1. CommitInv /\ base \subseteq Sites
        BY <1>2 DEF AnalysisInv, CommitInv
    <2>2. PICK i \in DOMAIN rows : rows[i].finding.fingerprint = Fingerprint(m)
        BY <1>2, <2>1, RowsOfMatches
    <2>3. PICK n \in base : n \in Sites /\ rows[i] = Row(Build(n))
        BY <2>1, RowsOfMatches
    <2>4. Fingerprint(n) = Fingerprint(m)
        BY <2>2, <2>3 DEF Row, Build
    <2> QED BY <2>1, <2>3, <2>4, FoldKeeps
<1>3. AnalysisInv /\ Guarded => RowsAreRight
    BY <1>1, <1>2, CommitTypes DEF RowsAreRight
<1> QED BY <1>3, AnalysisHolds, GuardedAlways, PTL

\* For any file and any edit cryptiq diff tells what the edit did to the set of
\* fingerprints, and nothing when code moved (cli/diff.py, run_diff).
THEOREM DiffIsTheEdit == Spec => []DiffTellsTheEdit
<1>1. AnalysisInv => DiffTellsTheEdit
    <2> SUFFICES ASSUME AnalysisInv, diff # None PROVE DiffTellsTheEdit
        BY DEF DiffTellsTheEdit
    <2> DEFINE Prints(M) == {Fingerprint(m) : m \in M}
               new == Prints(head) \ Prints(base)
               First == edit.kind = "added" /\ \A n \in base : ~Same(n, edit.match)
               Last == edit.kind = "removed" /\ \A n \in head : ~Same(n, edit.match)
    <2>1. /\ diff = Told(base, head) /\ base \subseteq Sites /\ OneCallPerLine(base)
          /\ EditMoved \/ EditRemoved \/ EditAdded
        BY DEF AnalysisInv, CommitInv, Unedited
    <2>2. \A m \in Sites : m.line \in Lines /\ Lines \subseteq 0..MaxLines /\ m.line \in Nat
        BY MatchCases, AnalysisAssumption DEF Lines
    <2>3. \A m \in Sites : Moved(m).line = m.line + 1 /\ Fingerprint(Moved(m)) = Fingerprint(m)
        BY DEF Moved, Sites, At, Fingerprint
    <2>4. Snapshot(base, MaxLines + 1) /\ Snapshot(head, MaxLines + 1) /\ MaxLines + 1 \in Nat
        <3>1. MaxLines \in Nat
            BY AnalysisAssumption
        <3>2. Snapshot(base, MaxLines + 1)
            BY <2>1, <2>2, <3>1 DEF Snapshot, OneCallPerLine
        <3>3. CASE EditMoved
            <4>1. \A m \in head : \E n \in base : m = Moved(n) /\ m.line = n.line + 1 /\ n.line \in 0..MaxLines
                BY <2>1, <2>2, <2>3, <3>3 DEF EditMoved
            <4> QED BY <2>1, <3>1, <3>2, <4>1 DEF Snapshot, OneCallPerLine
        <3>4. CASE EditRemoved
            BY <3>1, <3>2, <3>4 DEF EditRemoved, Snapshot
        <3>5. CASE EditAdded
            BY <2>2, <3>1, <3>2, <3>5 DEF EditAdded, Snapshot
        <3> QED BY <2>1, <3>1, <3>2, <3>3, <3>4, <3>5
    <2>5. Identities(Kept(base)) = Prints(base) /\ Identities(Kept(head)) = Prints(head)
        BY <2>4, IdentitiesKept
    <2>6. /\ diff.new = new /\ diff.fixed = Prints(base) \ Prints(head)
          /\ diff.unchanged = Prints(head) \cap Prints(base)
          /\ diff.exit = "findings" <=> new # {}
        BY <2>1, <2>5 DEF Told
    <2> HIDE DEF Prints
    <2>7. CASE EditMoved
        <3>1. Prints(head) = Prints(base)
            BY <2>1, <2>3, <2>7 DEF EditMoved, Prints
        <3>2. ~First /\ ~Last
            BY <2>7 DEF EditMoved
        <3>3. new = {} /\ diff.fixed = {}
            BY <2>6, <3>1
        <3>4. diff.unchanged = Prints(base) \ diff.fixed
            BY <2>6
        <3> QED BY <2>6, <3>2, <3>3, <3>4 DEF DiffTellsTheEdit, Prints
    <2>8. CASE EditRemoved
        <3>1. PICK m \in base : edit.kind = "removed" /\ edit.match = m /\ head = base \ {m}
            BY <2>8 DEF EditRemoved
        <3>2. Prints(base) = Prints(head) \cup {Fingerprint(m)}
            BY <3>1 DEF Prints
        <3>3. Last <=> Fingerprint(m) \notin Prints(head)
            <4>1. \A n \in head : Same(n, m) <=> Fingerprint(n) = Fingerprint(m)
                BY <2>1, <3>1, FingerprintTells
            <4> QED BY <3>1, <4>1 DEF Prints
        <3>4. diff.fixed = IF Last THEN {Fingerprint(m)} ELSE {}
            BY <2>6, <3>2, <3>3
        <3>5. diff.new = {} /\ ~First
            BY <2>6, <3>1, <3>2
        <3>6. diff.unchanged = Prints(base) \ diff.fixed
            BY <2>6
        <3> HIDE DEF First, Last, new
        <3>7. diff.exit = "findings" <=> First
            BY <2>6, <3>5
        <3> QED BY <3>1, <3>4, <3>5, <3>6, <3>7 DEF DiffTellsTheEdit, Prints, First, Last
    <2>9. CASE EditAdded
        <3>1. PICK m \in Sites : /\ m.line \notin {n.line : n \in base}
                                 /\ edit.kind = "added" /\ edit.match = m /\ head = base \cup {m}
            BY <2>9 DEF EditAdded
        <3>2. Prints(head) = Prints(base) \cup {Fingerprint(m)}
            BY <3>1 DEF Prints
        <3>3. First <=> Fingerprint(m) \notin Prints(base)
            <4>1. \A n \in base : Same(n, m) <=> Fingerprint(n) = Fingerprint(m)
                BY <2>1, <3>1, FingerprintTells
            <4> QED BY <3>1, <4>1 DEF Prints
        <3>4. diff.new = IF First THEN {Fingerprint(m)} ELSE {}
            BY <2>6, <3>2, <3>3
        <3>5. diff.fixed = {} /\ ~Last
            BY <2>6, <3>1, <3>2
        <3>6. diff.unchanged = Prints(base) \ diff.fixed
            BY <2>6
        <3>7. new # {} <=> First
            BY <2>6, <3>4
        <3> HIDE DEF First, Last, new
        <3>8. diff.exit = "findings" <=> First
            BY <2>6, <3>7
        <3> QED BY <3>1, <3>4, <3>5, <3>6, <3>8 DEF DiffTellsTheEdit, Prints, First, Last
    <2> QED BY <2>1, <2>7, <2>8, <2>9
<1> QED BY <1>1, AnalysisHolds, PTL

=============================================================================
