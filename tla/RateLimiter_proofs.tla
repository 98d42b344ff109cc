------------------------- MODULE RateLimiter_proofs -------------------------
(***************************************************************************)
(* The rate limiter in the HTTP stack, for any limits, window, table and   *)
(* number of clients: the table stays an ordered dictionary within its cap,*)
(* and a refused client that waits as long as it is told finds the windows *)
(* it had exhausted over, unless the cap has cost somebody an open window. *)
(***************************************************************************)
EXTENDS HttpStack, SequenceTheorems, FiniteSetTheorems, WellFoundedInduction, TLAPS

\* The keys of an order.
KeysIn(q) == {q[i] : i \in 1..Len(q)}

Distinct(q) == \A i, j \in 1..Len(q) : q[i] = q[j] => i = j

\* An OrderedDict of windows that have started.
Table(t) ==
    /\ t.order \in Seq(Keys) /\ Distinct(t.order)
    /\ DOMAIN t.win = KeysIn(t.order)
    /\ \A k \in DOMAIN t.win : t.win[k] \in Windows /\ t.win[k].start <= now

\* What check() leaves in the window of a key it counts: a live one goes on with one
\* more, and a fresh one starts now in place of none or of one that is over.
Touched(old, new, k) ==
    /\ k \in DOMAIN new.win
    /\ ~Expired(new.win[k])
    /\ \/ /\ k \in DOMAIN old.win /\ ~Expired(old.win[k])
          /\ new.win[k].start = old.win[k].start
          /\ new.win[k].count = old.win[k].count + 1
       \/ /\ k \in DOMAIN old.win => Expired(old.win[k])
          /\ new.win[k].start = now /\ new.win[k].count = 1

LEMMA Positive ==
    /\ Window \in Nat /\ Window >= 1
    /\ Second \in Nat /\ Second >= 1
    /\ MaxTracked \in Nat /\ MaxTracked >= 1
    /\ MaxTime \in Nat
BY LimiterAssumption

-----------------------------------------------------------------------------
(* Orders *)

\* move_to_end takes the key out and nothing else.
LEMMA WithoutKeeps ==
    ASSUME NEW q \in Seq(Keys), Distinct(q), NEW k \in KeysIn(q)
    PROVE  /\ Without(q, k) \in Seq(Keys) /\ Distinct(Without(q, k))
           /\ KeysIn(Without(q, k)) = KeysIn(q) \ {k}
<1> DEFINE p == CHOOSE i \in DOMAIN q : q[i] = k
           head == SubSeq(q, 1, p - 1)
           tail == SubSeq(q, p + 1, Len(q))
           n == Len(q)
<1>1. p \in 1..n /\ q[p] = k /\ n \in Nat /\ \A i \in 1..n : q[i] \in Keys
    BY DEF KeysIn
<1>2. Without(q, k) = head \o tail
    BY DEF Without, RemoveAt
<1> HIDE DEF p
<1>3. head \in Seq(Keys) /\ Len(head) = p - 1 /\ \A i \in 1..(p - 1) : head[i] = q[i]
    <2>1. 1 \in Int /\ p - 1 \in Int /\ \A i \in 1..(p - 1) : q[i] \in Keys
        BY <1>1
    <2>2. /\ head \in Seq(Keys)
          /\ Len(head) = IF 1 <= p - 1 THEN p - 1 - 1 + 1 ELSE 0
          /\ \A i \in 1..(p - 1 - 1 + 1) : head[i] = q[1 + i - 1]
        BY <2>1, SubSeqProperties
    <2> HIDE DEF head
    <2> QED BY <1>1, <2>2
<1>4. tail \in Seq(Keys) /\ Len(tail) = n - p /\ \A i \in 1..(n - p) : tail[i] = q[p + i]
    <2>1. p + 1 \in Int /\ n \in Int /\ \A i \in (p + 1)..n : q[i] \in Keys
        BY <1>1
    <2>2. /\ tail \in Seq(Keys)
          /\ Len(tail) = IF p + 1 <= n THEN n - (p + 1) + 1 ELSE 0
          /\ \A i \in 1..(n - (p + 1) + 1) : tail[i] = q[p + 1 + i - 1]
        BY <2>1, SubSeqProperties
    <2> HIDE DEF tail
    <2> QED BY <1>1, <2>2
<1> DEFINE w == Without(q, k)
<1>5. /\ w \in Seq(Keys) /\ Len(w) = n - 1
      /\ \A i \in 1..(n - 1) : w[i] = IF i < p THEN q[i] ELSE q[i + 1]
    <2> HIDE DEF head, tail
    <2>1. head \in Seq(Keys) /\ tail \in Seq(Keys)
        BY <1>3, <1>4
    <2>2. /\ head \o tail \in Seq(Keys) /\ Len(head \o tail) = Len(head) + Len(tail)
          /\ \A i \in 1..(Len(head) + Len(tail)) :
                 (head \o tail)[i] = IF i <= Len(head) THEN head[i] ELSE tail[i - Len(head)]
        BY <2>1, ConcatProperties
    <2> HIDE DEF w
    <2>3. w = head \o tail
        BY <1>2 DEF w
    <2>4. Len(w) = n - 1
        <3>1. Len(w) = Len(head) + Len(tail)
            BY <2>2, <2>3
        <3>2. Len(head) = p - 1 /\ Len(tail) = n - p
            BY <1>3, <1>4
        <3>3. p \in Nat /\ n \in Nat
            BY <1>1
        <3> QED BY <3>1, <3>2, <3>3
    <2>5. ASSUME NEW i \in 1..(n - 1) PROVE w[i] = IF i < p THEN q[i] ELSE q[i + 1]
        <3>1. w[i] = IF i <= Len(head) THEN head[i] ELSE tail[i - Len(head)]
            BY <2>2, <2>3, <2>4
        <3>2. CASE i < p
            <4>1. i <= Len(head) /\ i \in 1..(p - 1)
                BY <1>1, <1>3, <3>2
            <4> QED BY <1>3, <3>1, <3>2, <4>1
        <3>3. CASE ~(i < p)
            <4>1. /\ ~(i <= Len(head)) /\ i - Len(head) \in 1..(n - p)
                  /\ p + (i - Len(head)) = i + 1
                BY <1>1, <1>3, <3>3
            <4> QED BY <1>4, <3>1, <3>3, <4>1
        <3> QED BY <3>2, <3>3
    <2> QED BY <2>2, <2>3, <2>4, <2>5
<1> HIDE DEF w
<1>6. Distinct(w)
    <2>1. SUFFICES ASSUME NEW i \in 1..(n - 1), NEW j \in 1..(n - 1), w[i] = w[j]
                   PROVE  i = j
        BY <1>5 DEF Distinct
    <2> DEFINE at(x) == IF x < p THEN x ELSE x + 1
    <2>2. at(i) \in 1..n /\ at(j) \in 1..n /\ w[i] = q[at(i)] /\ w[j] = q[at(j)]
        BY <1>1, <1>5
    <2>3. at(i) = at(j)
        <3> HIDE DEF at
        <3> QED BY <2>1, <2>2 DEF Distinct
    <2> QED BY <1>1, <2>3
<1>7. KeysIn(w) = KeysIn(q) \ {k}
    <2>1. \A i \in 1..(n - 1) : \E j \in 1..n : j # p /\ w[i] = q[j]
        <3>1. TAKE i \in 1..(n - 1)
        <3>2. CASE i < p
            BY <1>1, <1>5, <3>2
        <3>3. CASE ~(i < p)
            <4>1. i + 1 \in 1..n /\ i + 1 # p
                BY <1>1, <3>3
            <4>2. w[i] = q[i + 1]
                BY <1>5, <3>3
            <4> QED BY <4>1, <4>2
        <3> QED BY <3>2, <3>3
    <2>2. \A j \in 1..n : j # p => \E i \in 1..(n - 1) : w[i] = q[j]
        <3>1. TAKE j \in 1..n
        <3>2. CASE j < p
            BY <1>1, <1>5, <3>2
        <3>3. CASE j > p
            <4>1. j - 1 \in 1..(n - 1) /\ ~(j - 1 < p) /\ (j - 1) + 1 = j
                BY <1>1, <3>3
            <4> QED BY <1>5, <4>1
        <3> QED BY <1>1, <3>2, <3>3
    <2>3. \A j \in 1..n : q[j] = k <=> j = p
        BY <1>1 DEF Distinct
    <2>4. KeysIn(w) = {w[i] : i \in 1..(n - 1)}
        BY <1>5 DEF KeysIn
    <2>5. {w[i] : i \in 1..(n - 1)} = {q[j] : j \in 1..n} \ {k}
        <3>1. ASSUME NEW i \in 1..(n - 1) PROVE w[i] \in {q[j] : j \in 1..n} \ {k}
            BY <2>1, <2>3
        <3>2. ASSUME NEW j \in 1..n, q[j] # k PROVE q[j] \in {w[i] : i \in 1..(n - 1)}
            BY <1>1, <2>2, <3>2
        <3> QED BY <3>1, <3>2
    <2> QED BY <2>4, <2>5 DEF KeysIn
<1> QED BY <1>5, <1>6, <1>7 DEF w

LEMMA AppendKeeps ==
    ASSUME NEW q \in Seq(Keys), Distinct(q), NEW k \in Keys, k \notin KeysIn(q)
    PROVE  /\ Append(q, k) \in Seq(Keys) /\ Distinct(Append(q, k))
           /\ KeysIn(Append(q, k)) = KeysIn(q) \cup {k}
<1> DEFINE a == Append(q, k)
           n == Len(q)
<1>1. /\ a \in Seq(Keys) /\ Len(a) = n + 1 /\ n \in Nat
      /\ \A i \in 1..n : a[i] = q[i]
      /\ a[n + 1] = k
    BY AppendProperties
<1> HIDE DEF a
<1>2. \A i \in 1..(n + 1) : i \in 1..n \/ i = n + 1
    BY <1>1
<1>3. Distinct(a)
    BY <1>1, <1>2 DEF Distinct, KeysIn
<1>4. KeysIn(a) = KeysIn(q) \cup {k}
    BY <1>1, <1>2 DEF KeysIn
<1> QED BY <1>1, <1>3, <1>4 DEF a

\* popitem takes keys off the front.
LEMMA SuffixKeeps ==
    ASSUME NEW q \in Seq(Keys), Distinct(q), NEW m \in Nat, m <= Len(q)
    PROVE  LET s == SubSeq(q, m + 1, Len(q))
           IN  /\ s \in Seq(Keys) /\ Distinct(s) /\ Len(s) = Len(q) - m
               /\ KeysIn(s) \subseteq KeysIn(q)
<1> DEFINE n == Len(q)
           s == SubSeq(q, m + 1, n)
<1>1. m + 1 \in Int /\ n \in Int /\ n \in Nat /\ \A i \in (m + 1)..n : q[i] \in Keys
    OBVIOUS
<1>2. /\ s \in Seq(Keys)
      /\ Len(s) = IF m + 1 <= n THEN n - (m + 1) + 1 ELSE 0
      /\ \A i \in 1..(n - (m + 1) + 1) : s[i] = q[m + 1 + i - 1]
    BY <1>1, SubSeqProperties
<1> HIDE DEF s
<1>3. Len(s) = n - m /\ \A i \in 1..(n - m) : s[i] = q[m + i] /\ m + i \in 1..n
    BY <1>1, <1>2
<1>4. Distinct(s)
    BY <1>1, <1>3 DEF Distinct
<1>5. KeysIn(s) \subseteq KeysIn(q)
    BY <1>1, <1>3 DEF KeysIn
<1> QED BY <1>2, <1>3, <1>4, <1>5 DEF s

-----------------------------------------------------------------------------
(* The table *)

\* One touch keeps the table, and changes the window of its key only.
LEMMA TouchKeeps ==
    ASSUME now \in 0..MaxTime, NEW t, Table(t), NEW k \in Keys
    PROVE  LET new == Touch(t, k)
           IN  /\ Table(new) /\ DOMAIN new.win = DOMAIN t.win \cup {k}
               /\ Touched(t, new, k)
               /\ \A j \in DOMAIN t.win : j # k => new.win[j] = t.win[j]
<1> DEFINE known == k \in {t.order[i] : i \in 1..Len(t.order)}
           new == Touch(t, k)
<1>1. /\ t.order \in Seq(Keys) /\ Distinct(t.order) /\ DOMAIN t.win = KeysIn(t.order)
      /\ \A j \in DOMAIN t.win : t.win[j] \in Windows /\ t.win[j].start <= now
      /\ known <=> k \in DOMAIN t.win
    BY DEF Table, KeysIn
<1>2. CASE known /\ ~Expired(t.win[k])
    <2> DEFINE w == [t.win EXCEPT ![k].count = @ + 1]
               o == Append(Without(t.order, k), k)
    <2>1. new = [order |-> o, win |-> w]
        BY <1>2 DEF Touch
    <2>2. k \in KeysIn(t.order)
        BY <1>1, <1>2
    <2>3. /\ Without(t.order, k) \in Seq(Keys) /\ Distinct(Without(t.order, k))
          /\ KeysIn(Without(t.order, k)) = KeysIn(t.order) \ {k}
        BY <1>1, <2>2, WithoutKeeps
    <2>4. o \in Seq(Keys) /\ Distinct(o) /\ KeysIn(o) = KeysIn(t.order)
        <3> DEFINE q == Without(t.order, k)
        <3>1. q \in Seq(Keys) /\ Distinct(q) /\ k \notin KeysIn(q)
            BY <2>3
        <3> HIDE DEF q
        <3>2. /\ Append(q, k) \in Seq(Keys) /\ Distinct(Append(q, k))
              /\ KeysIn(Append(q, k)) = KeysIn(q) \cup {k}
            BY <3>1, AppendKeeps
        <3> QED BY <2>2, <2>3, <3>2 DEF q
    <2>5. /\ DOMAIN w = DOMAIN t.win /\ w[k] \in Windows
          /\ w[k].start = t.win[k].start /\ w[k].count = t.win[k].count + 1
          /\ \A j \in DOMAIN t.win : j # k => w[j] = t.win[j]
        <3> DEFINE counted == [t.win[k] EXCEPT !.count = @ + 1]
        <3>1. k \in DOMAIN t.win /\ t.win[k] \in Windows
            BY <1>1, <1>2
        <3>2. /\ counted \in Windows
              /\ counted.start = t.win[k].start /\ counted.count = t.win[k].count + 1
            BY <3>1 DEF Windows
        <3>3. w = [t.win EXCEPT ![k] = counted]
            OBVIOUS
        <3> HIDE DEF w, counted
        <3> QED BY <3>1, <3>2, <3>3
    <2> HIDE DEF w, o
    <2>6. new.order = o /\ new.win = w
        BY <2>1
    <2> HIDE DEF new
    <2>7. Table(new)
        BY <1>1, <2>4, <2>5, <2>6 DEF Table
    <2>8. Touched(t, new, k)
        BY <1>1, <1>2, <2>5, <2>6 DEF Touched, Expired
    <2>9. DOMAIN new.win = DOMAIN t.win \cup {k}
        BY <1>1, <1>2, <2>5, <2>6
    <2>10. \A j \in DOMAIN t.win : j # k => new.win[j] = t.win[j]
        BY <2>5, <2>6
    <2> QED BY <2>7, <2>8, <2>9, <2>10 DEF new
<1>3. CASE ~(known /\ ~Expired(t.win[k]))
    <2> DEFINE w == [j \in DOMAIN t.win \cup {k} |->
                        IF j = k THEN [start |-> now, count |-> 1] ELSE t.win[j]]
               o == IF known THEN t.order ELSE Append(t.order, k)
    <2>1. new = [order |-> o, win |-> w]
        BY <1>3 DEF Touch
    <2>2. o \in Seq(Keys) /\ Distinct(o) /\ KeysIn(o) = KeysIn(t.order) \cup {k}
        <3>1. CASE known
            BY <1>1, <3>1
        <3>2. CASE ~known
            <4>1. k \notin KeysIn(t.order)
                BY <1>1, <3>2
            <4> QED BY <1>1, <3>2, <4>1, AppendKeeps
        <3> QED BY <3>1, <3>2
    <2>3. /\ DOMAIN w = DOMAIN t.win \cup {k}
          /\ w[k] \in Windows /\ w[k].start = now /\ w[k].count = 1
          /\ \A j \in DOMAIN t.win : j # k => w[j] = t.win[j]
        <3>1. [start |-> now, count |-> 1] \in Windows
            BY DEF Windows
        <3>2. w[k] = [start |-> now, count |-> 1]
            OBVIOUS
        <3>3. \A j \in DOMAIN t.win : j # k => w[j] = t.win[j]
            OBVIOUS
        <3>4. DOMAIN w = DOMAIN t.win \cup {k}
            OBVIOUS
        <3> HIDE DEF w
        <3> QED BY <3>1, <3>2, <3>3, <3>4
    <2> HIDE DEF w, o
    <2>4. new.order = o /\ new.win = w
        BY <2>1
    <2> HIDE DEF new
    <2>5. Table(new)
        BY <1>1, <2>2, <2>3, <2>4 DEF Table
    <2>6. Touched(t, new, k)
        <3>1. ~Expired(w[k])
            BY <2>3, Positive DEF Expired
        <3> QED BY <1>1, <1>3, <2>3, <2>4, <3>1 DEF Touched
    <2>7. \A j \in DOMAIN t.win : j # k => new.win[j] = t.win[j]
        BY <2>3, <2>4
    <2> QED BY <2>3, <2>4, <2>5, <2>6, <2>7 DEF new
<1> QED BY <1>2, <1>3

\* The eviction keeps the table, within the cap, and changes no window it keeps.
LEMMA EvictKeeps ==
    ASSUME NEW t, Table(t)
    PROVE  LET kept == Evict(t)
           IN  /\ Table(kept) /\ Len(kept.order) <= MaxTracked
               /\ DOMAIN kept.win \subseteq DOMAIN t.win
               /\ \A k \in DOMAIN kept.win : kept.win[k] = t.win[k]
<1> DEFINE extra == IF Len(t.order) > MaxTracked THEN Len(t.order) - MaxTracked ELSE 0
           o == SubSeq(t.order, extra + 1, Len(t.order))
           w == [k \in KeysIn(o) |-> t.win[k]]
           kept == Evict(t)
<1>1. kept = [order |-> o, win |-> w]
    BY DEF Evict, KeysIn
<1>2. extra \in Nat /\ extra <= Len(t.order) /\ Len(t.order) - extra <= MaxTracked
    BY Positive DEF Table
<1> HIDE DEF extra
<1>3. /\ o \in Seq(Keys) /\ Distinct(o) /\ Len(o) = Len(t.order) - extra
      /\ KeysIn(o) \subseteq KeysIn(t.order)
    BY <1>2, SuffixKeeps DEF Table
<1> HIDE DEF o
<1>4. DOMAIN w = KeysIn(o) /\ \A k \in KeysIn(o) : w[k] = t.win[k]
    OBVIOUS
<1> HIDE DEF w
<1>5. kept.order = o /\ kept.win = w
    BY <1>1
<1> HIDE DEF kept
<1>6. Table(kept)
    BY <1>3, <1>4, <1>5 DEF Table
<1>7. /\ DOMAIN kept.win \subseteq DOMAIN t.win
      /\ \A k \in DOMAIN kept.win : kept.win[k] = t.win[k]
    BY <1>3, <1>4, <1>5 DEF Table
<1> QED BY <1>2, <1>3, <1>5, <1>6, <1>7 DEF kept

\* The two touches of check(), or one when the bucket is "default".
LEMMA BothKeep ==
    ASSUME now \in 0..MaxTime, NEW t, Table(t), NEW j \in Keys, NEW k \in Keys
    PROVE  LET both == IF j = k THEN Touch(t, j) ELSE Touch(Touch(t, j), k)
           IN  /\ Table(both) /\ DOMAIN both.win = DOMAIN t.win \cup {j, k}
               /\ Touched(t, both, j) /\ Touched(t, both, k)
               /\ \A i \in DOMAIN t.win : i \notin {j, k} => both.win[i] = t.win[i]
<1> DEFINE one == Touch(t, j)
           two == Touch(one, k)
<1>1. /\ Table(one) /\ DOMAIN one.win = DOMAIN t.win \cup {j} /\ Touched(t, one, j)
      /\ \A i \in DOMAIN t.win : i # j => one.win[i] = t.win[i]
    BY TouchKeeps
<1>2. CASE j = k
    BY <1>1, <1>2
<1>3. CASE j # k
    <2> HIDE DEF one
    <2>1. /\ Table(two) /\ DOMAIN two.win = DOMAIN one.win \cup {k} /\ Touched(one, two, k)
          /\ \A i \in DOMAIN one.win : i # k => two.win[i] = one.win[i]
        BY <1>1, TouchKeeps
    <2> HIDE DEF two
    <2>2. Touched(t, two, j)
        BY <1>1, <1>3, <2>1 DEF Touched
    <2>3. Touched(t, two, k)
        <3>1. k \in DOMAIN one.win <=> k \in DOMAIN t.win
            BY <1>1, <1>3
        <3>2. k \in DOMAIN t.win => one.win[k] = t.win[k]
            BY <1>1, <1>3
        <3> QED BY <2>1, <3>1, <3>2 DEF Touched
    <2>4. /\ DOMAIN two.win = DOMAIN t.win \cup {j, k}
          /\ \A i \in DOMAIN t.win : i \notin {j, k} => two.win[i] = t.win[i]
        BY <1>1, <2>1
    <2> QED BY <1>3, <2>1, <2>2, <2>3, <2>4 DEF one, two
<1> QED BY <1>2, <1>3

-----------------------------------------------------------------------------
(* One request *)

\* The larger of two waits.
LEMMA LargestWait ==
    ASSUME NEW S, S # {}, NEW a \in Nat, NEW b \in Nat, S \subseteq {a, b}
    PROVE  LET m == CHOOSE w \in S : \A v \in S : v <= w
           IN  m \in S /\ \A v \in S : v <= m
<1>1. \E w \in S : \A v \in S : v <= w
    <2>1. CASE a \in S /\ b \in S
        <3>1. CASE a <= b
            BY <2>1, <3>1
        <3>2. CASE b <= a
            BY <2>1, <3>2
        <3> QED BY <3>1, <3>2
    <2>2. CASE ~(a \in S /\ b \in S)
        <3>1. PICK w : w \in S
            OBVIOUS
        <3>2. w \in Nat /\ \A v \in S : v = w
            BY <2>2, <3>1
        <3> QED BY <3>1, <3>2
    <2> QED BY <2>1, <2>2
<1> QED BY <1>1

\* Whole seconds cover the ticks they are rounded up from.
LEMMA CeilCovers ==
    ASSUME NEW x \in Nat
    PROVE  Ceil(x) \in Nat /\ Second * Ceil(x) >= x
<1>1. ASSUME NEW d \in Nat, d >= 1
      PROVE  LET q == (x + d - 1) \div d IN q \in Nat /\ q * d >= x /\ q * d = d * q
    BY <1>1
<1> QED BY <1>1, Positive DEF Ceil

LEMMA LongerCovers ==
    ASSUME NEW x \in Nat, NEW s \in Nat, Ceil(x) <= s
    PROVE  x <= Second * s
<1>1. ASSUME NEW a \in Nat, NEW b \in Nat, NEW d \in Nat, a <= b PROVE d * a <= d * b
    BY <1>1
<1>2. Ceil(x) \in Nat /\ Second * Ceil(x) >= x /\ Second \in Nat
    BY CeilCovers, Positive
<1>3. Second * Ceil(x) <= Second * s
    BY <1>1, <1>2
<1>4. ASSUME NEW a \in Nat, NEW b \in Nat, a >= x, a <= b PROVE x <= b
    BY <1>4
<1>5. Second * Ceil(x) \in Nat /\ Second * s \in Nat
    BY <1>2
<1> QED BY <1>2, <1>3, <1>4, <1>5

\* A window of the key is what it was, or started now in place of one that was over.
Goes(k) ==
    \/ k \in DOMAIN win /\ win'[k].start = win[k].start
    \/ win'[k].start = now /\ (k \in DOMAIN win => Expired(win[k]))

\* The keys a request of client c for bucket b counts.
Asked(c, b) == {<<c, n>> : n \in Counted(b)}

\* check() counts the keys of the request and changes no other window it keeps; a
\* request it lets through is within every limit, and every exhausted window of one
\* it refuses is over after the wait.
LEMMA CheckKeeps ==
    ASSUME now \in 0..MaxTime, Table([order |-> order, win |-> win]),
           NEW c \in Clients, NEW b \in Buckets, Check(c, b)
    PROVE  /\ Table([order |-> order', win |-> win']) /\ Len(order') <= MaxTracked
           /\ \A k \in DOMAIN win' : Goes(k)
           /\ \A k \in DOMAIN win' \cap Asked(c, b) :
                  Touched([order |-> order, win |-> win], [order |-> order', win |-> win'], k)
           /\ \A k \in DOMAIN win' \ Asked(c, b) : k \in DOMAIN win /\ win'[k] = win[k]
           /\ reply'.allowed =>
                  \A n \in Counted(b) :
                      <<c, n>> \in DOMAIN win' => ~(win'[<<c, n>>].count > Limit[n])
           /\ ~reply'.allowed => reply'.retryAfter \in Nat
           /\ ~reply'.allowed =>
                  \A n \in Counted(b) :
                      <<c, n>> \in DOMAIN win' /\ win'[<<c, n>>].count > Limit[n] =>
                          /\ now < win'[<<c, n>>].start + Window
                          /\ win'[<<c, n>>].start + Window <= now + Second * reply'.retryAfter
<1> DEFINE names == Counted(b)
           table == [order |-> order, win |-> win]
<1>1. PICK first \in names, second \in names :
          /\ {first, second} = names
          /\ LET one == Touch(table, <<c, first>>)
                 both == IF first = second THEN one ELSE Touch(one, <<c, second>>)
                 over == {n \in names : both.win[<<c, n>>].count > Limit[n]}
                 waits == {Ceil(Window - (now - both.win[<<c, n>>].start)) : n \in over}
                 kept == Evict(both)
             IN /\ order' = kept.order
                /\ win' = kept.win
                /\ reply' = [client |-> c, allowed |-> over = {},
                              retryAfter |->
                                 IF over = {} THEN 0
                                 ELSE CHOOSE w \in waits : \A v \in waits : v <= w]
    BY DEF Check
<1> DEFINE j == <<c, first>>
           k == <<c, second>>
           both == IF j = k THEN Touch(table, j) ELSE Touch(Touch(table, j), k)
           kept == Evict(both)
           over == {n \in names : both.win[<<c, n>>].count > Limit[n]}
           wait(n) == Ceil(Window - (now - both.win[<<c, n>>].start))
           waits == {wait(n) : n \in over}
<1>2. /\ order' = kept.order /\ win' = kept.win
      /\ reply' = [client |-> c, allowed |-> over = {},
                   retryAfter |-> IF over = {} THEN 0
                                  ELSE CHOOSE w \in waits : \A v \in waits : v <= w]
    <2>1. j = k <=> first = second
        OBVIOUS
    <2> QED BY <1>1, <2>1
<1>3. j \in Keys /\ k \in Keys /\ {j, k} = Asked(c, b)
    BY <1>1 DEF Counted, Keys, Buckets, Asked
<1> HIDE DEF names, j, k
<1>4. /\ Table(both) /\ DOMAIN both.win = DOMAIN win \cup {j, k}
      /\ Touched(table, both, j) /\ Touched(table, both, k)
      /\ \A i \in DOMAIN win : i \notin {j, k} => both.win[i] = win[i]
    <2>1. table.win = win /\ Table(table)
        OBVIOUS
    <2> HIDE DEF table
    <2>2. /\ Table(both) /\ DOMAIN both.win = DOMAIN table.win \cup {j, k}
          /\ Touched(table, both, j) /\ Touched(table, both, k)
          /\ \A i \in DOMAIN table.win : i \notin {j, k} => both.win[i] = table.win[i]
        BY <1>3, <2>1, BothKeep
    <2> HIDE DEF both
    <2> QED BY <2>1, <2>2
<1> HIDE DEF both
<1>5. /\ Table(kept) /\ Len(kept.order) <= MaxTracked
      /\ DOMAIN kept.win \subseteq DOMAIN both.win
      /\ \A i \in DOMAIN kept.win : kept.win[i] = both.win[i]
    BY <1>4, EvictKeeps
<1> HIDE DEF kept
<1>6. Table([order |-> order', win |-> win']) /\ Len(order') <= MaxTracked
    BY <1>2, <1>5 DEF Table
<1>7. ASSUME NEW i \in DOMAIN win' PROVE Goes(i)
    <2>1. i \in DOMAIN both.win /\ win'[i] = both.win[i]
        BY <1>2, <1>5
    <2>2. CASE i \in {j, k}
        <3>1. Touched(table, both, i)
            BY <1>4, <2>2
        <3> QED BY <2>1, <3>1 DEF Touched, Goes
    <2>3. CASE i \notin {j, k}
        BY <1>4, <2>1, <2>3 DEF Goes
    <2> QED BY <2>2, <2>3
<1>8. ASSUME NEW i \in DOMAIN win'
       PROVE  /\ i \in Asked(c, b) => Touched(table, [order |-> order', win |-> win'], i)
              /\ i \notin Asked(c, b) => i \in DOMAIN win /\ win'[i] = win[i]
    <2>1. i \in DOMAIN both.win /\ win'[i] = both.win[i]
        BY <1>2, <1>5
    <2>2. CASE i \in {j, k}
        <3>1. Touched(table, both, i)
            BY <1>4, <2>2
        <3> QED BY <1>3, <2>1, <2>2, <3>1 DEF Touched
    <2>3. CASE i \notin {j, k}
        BY <1>3, <1>4, <2>1, <2>3
    <2> QED BY <2>2, <2>3
<1>9. ASSUME reply'.allowed, NEW n \in names, <<c, n>> \in DOMAIN win'
       PROVE  ~(win'[<<c, n>>].count > Limit[n])
    <2>1. win'[<<c, n>>] = both.win[<<c, n>>]
        BY <1>2, <1>5, <1>9
    <2>2. over = {}
        BY <1>2, <1>9
    <2> QED BY <2>1, <2>2
<1>10. ASSUME NEW n \in names
      PROVE  /\ both.win[<<c, n>>].start \in 0..now
             /\ now < both.win[<<c, n>>].start + Window
             /\ Window - (now - both.win[<<c, n>>].start) \in Nat
             /\ wait(n) \in Nat
    <2> DEFINE w == both.win[<<c, n>>]
    <2>1. <<c, n>> \in DOMAIN both.win /\ ~Expired(w)
        BY <1>3, <1>4 DEF Touched, Asked, names
    <2>2. w \in Windows /\ w.start <= now
        BY <1>4, <2>1 DEF Table
    <2> HIDE DEF w
    <2>3. w.start \in 0..now /\ now < w.start + Window /\ Window - (now - w.start) \in Nat
        BY <2>1, <2>2, Positive DEF Expired, Windows
    <2>4. Ceil(Window - (now - w.start)) \in Nat
        BY <2>3, CeilCovers
    <2> QED BY <2>3, <2>4 DEF w
<1>11. ASSUME over # {}
      PROVE  reply'.retryAfter \in Nat /\ \A n \in over : wait(n) <= reply'.retryAfter
    <2>1. names = {first, second} /\ over \subseteq names
        BY <1>1
    <2>2. waits # {} /\ waits \subseteq {wait(first), wait(second)}
        <3> HIDE DEF wait
        <3> QED BY <1>11, <2>1
    <2>3. wait(first) \in Nat /\ wait(second) \in Nat
        BY <1>10
    <2>4. \A n \in over : wait(n) \in waits
        OBVIOUS
    <2> HIDE DEF waits, wait, over
    <2>5. LET m == CHOOSE w \in waits : \A v \in waits : v <= w
          IN  m \in waits /\ \A v \in waits : v <= m
        BY <2>2, <2>3, LargestWait
    <2>6. reply'.retryAfter = CHOOSE w \in waits : \A v \in waits : v <= w
        BY <1>2, <1>11
    <2> QED BY <2>2, <2>3, <2>4, <2>5, <2>6
<1>12. ASSUME NEW n \in names, <<c, n>> \in DOMAIN win', win'[<<c, n>>].count > Limit[n]
       PROVE  /\ now < win'[<<c, n>>].start + Window
              /\ win'[<<c, n>>].start + Window <= now + Second * reply'.retryAfter
    <2> DEFINE start == both.win[<<c, n>>].start
               left == Window - (now - start)
    <2>1. win'[<<c, n>>] = both.win[<<c, n>>]
        BY <1>2, <1>5, <1>12
    <2>2. n \in over
        BY <1>12, <2>1
    <2>3. reply'.retryAfter \in Nat /\ wait(n) <= reply'.retryAfter
        BY <1>11, <2>2
    <2>4. start \in 0..now /\ now < start + Window /\ left \in Nat /\ Ceil(left) <= reply'.retryAfter
        BY <1>10, <2>3
    <2> HIDE DEF left
    <2>5. left <= Second * reply'.retryAfter
        BY <2>3, <2>4, LongerCovers
    <2>6. Second * reply'.retryAfter \in Nat
        BY <2>3, Positive
    <2> HIDE DEF start, wait, over
    <2>7. start + Window <= now + Second * reply'.retryAfter
        <3>1. ASSUME NEW p \in Nat, left <= p PROVE start + Window <= now + p
            BY <2>4, <3>1, Positive DEF left
        <3> QED BY <2>5, <2>6, <3>1
    <2> QED BY <2>1, <2>4, <2>7 DEF start
<1>13. ~reply'.allowed => over # {}
    BY <1>2
<1> HIDE DEF over
<1> QED BY <1>6, <1>7, <1>11, <1>12, <1>13, <1>8, <1>9 DEF names

-----------------------------------------------------------------------------
(* The table over time *)

TableInv ==
    /\ now \in 0..MaxTime
    /\ Table([order |-> order, win |-> win])
    /\ Len(order) <= MaxTracked

LEMMA TableInit == Init => TableInv
<1> SUFFICES ASSUME Init PROVE TableInv
    OBVIOUS
<1> DEFINE table == [order |-> order, win |-> win]
<1>1. order = <<>> /\ win = <<>> /\ now = 0
    BY DEF Init
<1>2. table.order = <<>> /\ table.win = <<>> /\ DOMAIN <<>> = {} /\ Len(<<>>) = 0
    BY <1>1
<1> HIDE DEF table
<1>3. Distinct(<<>>) /\ KeysIn(<<>>) = {} /\ <<>> \in Seq(Keys)
    BY <1>2 DEF Distinct, KeysIn
<1>4. Table(table)
    BY <1>2, <1>3 DEF Table
<1> QED BY <1>1, <1>2, <1>4, Positive DEF TableInv, table

LEMMA TableTick ==
    ASSUME TableInv, Tick
    PROVE  TableInv'
BY Positive DEF TableInv, Tick, Table, Windows

\* A step of the stack is a request, a tick or neither.
LEMMA StackSteps ==
    ASSUME [StackNext]_stackVars
    PROVE  \/ \E c \in Clients, b \in Buckets : Request(c, b)
           \/ Tick /\ UNCHANGED <<admitted, lost, told>>
           \/ UNCHANGED vars
BY DEF StackNext, stackVars, Handle, StackTick, RefuseDeclared, PassExempt

LEMMA TableStep == TableInv /\ [StackNext]_stackVars => TableInv'
<1> SUFFICES ASSUME TableInv, [StackNext]_stackVars PROVE TableInv'
    OBVIOUS
<1>1. ASSUME NEW c \in Clients, NEW b \in Buckets, Request(c, b) PROVE TableInv'
    <2>1. Check(c, b) /\ now' = now
        BY <1>1 DEF Request, Check
    <2>2. now \in 0..MaxTime /\ Table([order |-> order, win |-> win])
        BY DEF TableInv
    <2>3. Table([order |-> order', win |-> win']) /\ Len(order') <= MaxTracked
        BY <2>1, <2>2, CheckKeeps
    <2>4. Table([order |-> order, win |-> win])'
        BY <2>1, <2>3 DEF Table
    <2> QED BY <2>1, <2>2, <2>3, <2>4 DEF TableInv
<1>2. CASE UNCHANGED vars
    BY <1>2 DEF vars, limiterVars, TableInv, Table
<1> QED BY <1>1, <1>2, TableTick, StackSteps

LEMMA TableHolds == StackSpec => []TableInv
<1>1. StackInit => TableInv
    BY TableInit DEF StackInit, HistoryInit
<1> QED BY <1>1, TableStep, PTL DEF StackSpec

\* After any sequence of requests of any clients, the order and the windows
\* describe the same distinct keys, within the cap (rate_limit.py:117-132).
THEOREM TableIsAnOrderedDict == StackSpec => []TypeOK
<1>1. TableInv => TypeOK
    <2> SUFFICES ASSUME TableInv PROVE TypeOK
        OBVIOUS
    <2> DEFINE n == Len(order)
    <2>1. /\ order \in Seq(Keys) /\ Distinct(order) /\ DOMAIN win = KeysIn(order)
          /\ \A k \in DOMAIN win : win[k] \in Windows
          /\ now \in 0..MaxTime /\ n <= MaxTracked
        BY DEF TableInv, Table
    <2>2. Tracked = KeysIn(order) /\ n \in Nat
        BY <2>1 DEF Tracked, KeysIn
    <2>3. order \in [1..n -> Tracked]
        BY <2>1, <2>2 DEF KeysIn
    <2>4. order \in Injection(1..n, Tracked)
        BY <2>1, <2>3 DEF Injection, IsInjective, Distinct
    <2>5. order \in Surjection(1..n, Tracked)
        BY <2>2, <2>3 DEF Surjection, KeysIn
    <2>6. ExistsBijection(1..n, Tracked)
        BY <2>4, <2>5 DEF ExistsBijection, Bijection
    <2>7. Cardinality(Tracked) = n
        BY <2>2, <2>6, FS_CountingElements
    <2>8. Tracked \subseteq Keys
        BY <2>1, <2>2 DEF KeysIn
    <2> QED BY <2>1, <2>2, <2>7, <2>8 DEF TypeOK
<1> QED BY <1>1, TableHolds, PTL

-----------------------------------------------------------------------------
(* What a refused client was told *)

\* At time t the exhausted window is there and over by then, or gave way to a later one.
Told(refusal, k, windows, t) ==
    /\ refusal.made <= t
    /\ k \notin DOMAIN windows => refusal.made < t
    /\ k \in DOMAIN windows =>
           \/ refusal.made < windows[k].start
           \/ /\ refusal.made < windows[k].start + Window
              /\ windows[k].start + Window <= refusal.until

Refusals == [made : Nat, until : Nat, keys : SUBSET Keys]

ToldInv ==
    /\ told \in [Clients -> Refusals]
    /\ ~lost => \A c \in Clients : \A k \in told[c].keys : Told(told[c], k, win, now)

LEMMA ToldInit == HistoryInit => ToldInv
<1> SUFFICES ASSUME HistoryInit PROVE ToldInv
    OBVIOUS
<1>1. NoRefusal \in Refusals /\ NoRefusal.keys = {}
    BY DEF NoRefusal, Refusals
<1>2. told = [c \in Clients |-> NoRefusal]
    BY DEF HistoryInit
<1> QED BY <1>1, <1>2 DEF ToldInv

\* A request moves a window on, renews one that is over, or forgets one that is
\* over; anything else it forgets is recorded as lost.
LEMMA ToldStays ==
    ASSUME TableInv, NEW refusal \in Refusals, NEW k \in Keys, Told(refusal, k, win, now),
           now' = now,
           k \in DOMAIN win' => Goes(k),
           k \in DOMAIN win /\ k \notin DOMAIN win' => Expired(win[k])
    PROVE  Told(refusal, k, win', now')
<1>1. refusal.made \in Nat /\ refusal.until \in Nat /\ now \in Nat
    BY DEF Refusals, TableInv
<1>2. k \in DOMAIN win => win[k].start \in Nat /\ win[k].start <= now
    BY DEF TableInv, Table, Windows
<1>3. k \in DOMAIN win /\ Expired(win[k]) => refusal.made < now
    BY <1>1, <1>2, Positive DEF Told, Expired
<1>4. CASE k \notin DOMAIN win'
    BY <1>3, <1>4 DEF Told
<1>5. CASE k \in DOMAIN win' /\ k \in DOMAIN win /\ win'[k].start = win[k].start
    BY <1>5 DEF Told
<1>6. CASE k \in DOMAIN win' /\ win'[k].start = now /\ (k \in DOMAIN win => Expired(win[k]))
    BY <1>3, <1>6 DEF Told
<1> QED BY <1>4, <1>5, <1>6 DEF Goes

LEMMA RequestTold ==
    ASSUME TableInv, ToldInv, NEW c \in Clients, NEW b \in Buckets, Request(c, b)
    PROVE  ToldInv'
<1>1. now \in 0..MaxTime /\ now \in Nat /\ Table([order |-> order, win |-> win])
    BY DEF TableInv
<1>2. Check(c, b) /\ now' = now
    BY DEF Request, Check
<1>3. /\ \A k \in DOMAIN win' : Goes(k)
      /\ ~reply'.allowed => reply'.retryAfter \in Nat
      /\ ~reply'.allowed =>
            \A n \in Counted(b) :
                <<c, n>> \in DOMAIN win' /\ win'[<<c, n>>].count > Limit[n] =>
                    /\ now < win'[<<c, n>>].start + Window
                    /\ win'[<<c, n>>].start + Window <= now + Second * reply'.retryAfter
    BY <1>1, <1>2, CheckKeeps
<1> DEFINE refusal == [made |-> now, until |-> now + Second * reply'.retryAfter,
                       keys |-> {k \in {<<c, n>> : n \in Counted(b)} \cap DOMAIN win' :
                                     win'[k].count > Limit[k[2]]}]
<1>4. told' = IF reply'.allowed THEN told ELSE [told EXCEPT ![c] = refusal]
    BY DEF Request
<1>5. ~lost' => ~lost /\ \A k \in Tracked \ DOMAIN win' : Expired(win[k])
    BY DEF Request
<1>6. Tracked = DOMAIN win
    BY <1>1 DEF Table, Tracked, KeysIn
<1>7. ASSUME ~reply'.allowed
      PROVE  refusal \in Refusals /\ \A k \in refusal.keys : Told(refusal, k, win', now')
    <2>1. Second * reply'.retryAfter \in Nat
        BY <1>3, <1>7, Positive
    <2>2. refusal.keys \subseteq Keys
        BY DEF Counted, Keys, Buckets
    <2>3. refusal \in Refusals
        BY <1>1, <2>1, <2>2 DEF Refusals
    <2>4. ASSUME NEW k \in refusal.keys PROVE Told(refusal, k, win', now')
        <3>1. PICK n \in Counted(b) : k = <<c, n>>
            OBVIOUS
        <3>2. k \in DOMAIN win' /\ win'[k].count > Limit[n]
            BY <3>1
        <3>3. now < win'[k].start + Window /\ win'[k].start + Window <= refusal.until
            BY <1>3, <1>7, <3>1, <3>2
        <3>4. refusal.made = now
            OBVIOUS
        <3> HIDE DEF refusal
        <3> QED BY <1>1, <1>2, <3>2, <3>3, <3>4 DEF Told
    <2> QED BY <2>3, <2>4
<1> HIDE DEF refusal
<1>8. told' \in [Clients -> Refusals]
    BY <1>4, <1>7 DEF ToldInv
<1>9. ASSUME ~lost', NEW d \in Clients, NEW k \in told'[d].keys
      PROVE  Told(told'[d], k, win', now')
    <2>1. CASE told'[d] = told[d]
        <3>1. told[d] \in Refusals /\ k \in Keys /\ Told(told[d], k, win, now)
            BY <1>5, <1>9, <2>1 DEF ToldInv, Refusals
        <3>2. k \in DOMAIN win /\ k \notin DOMAIN win' => Expired(win[k])
            BY <1>5, <1>6, <1>9
        <3>3. k \in DOMAIN win' => Goes(k)
            BY <1>3
        <3> QED BY <1>2, <2>1, <3>1, <3>2, <3>3, ToldStays
    <2>2. CASE told'[d] # told[d]
        <3>1. ~reply'.allowed /\ told'[d] = refusal
            BY <1>4, <2>2 DEF ToldInv
        <3> QED BY <1>7, <1>9, <3>1
    <2> QED BY <2>1, <2>2
<1> QED BY <1>8, <1>9 DEF ToldInv

LEMMA TickTold ==
    ASSUME TableInv, ToldInv, Tick, UNCHANGED <<lost, told>>
    PROVE  ToldInv'
<1>1. now' = now + 1 /\ now \in Nat /\ UNCHANGED win
    BY DEF Tick, TableInv
<1>2. ASSUME NEW c \in Clients, NEW k \in told[c].keys, Told(told[c], k, win, now)
      PROVE  Told(told[c], k, win', now')
    <2>1. told[c].made \in Nat
        BY DEF ToldInv, Refusals
    <2> QED BY <1>1, <1>2, <2>1 DEF Told
<1> QED BY <1>2 DEF ToldInv

LEMMA ToldStep == TableInv /\ ToldInv /\ [StackNext]_stackVars => ToldInv'
<1> SUFFICES ASSUME TableInv, ToldInv, [StackNext]_stackVars PROVE ToldInv'
    OBVIOUS
<1>1. CASE UNCHANGED vars
    BY <1>1 DEF vars, limiterVars, ToldInv, Told
<1> QED BY <1>1, RequestTold, TickTold, StackSteps

\* Whatever a refused client asks for in between, and whatever others do: once it
\* has waited as long as it was told, the windows it had exhausted are over
\* (rate_limit.py:127-133, the Retry-After header).
THEOREM WaitingSuffices == StackSpec => []RetryAfterSuffices
<1>1. StackInit => ToldInv
    BY ToldInit DEF StackInit
<1>2. TableInv /\ ToldInv => RetryAfterSuffices
    <2> SUFFICES ASSUME TableInv, ToldInv, ~lost, NEW c \in Clients, NEW k \in told[c].keys,
                        now >= told[c].until, k \in Tracked, ~Expired(win[k])
                 PROVE  win[k].start > told[c].made
        BY DEF RetryAfterSuffices
    <2>1. Told(told[c], k, win, now) /\ told[c].made \in Nat /\ told[c].until \in Nat
        BY DEF ToldInv, Refusals
    <2>2. k \in DOMAIN win
        BY DEF TableInv, Table, Tracked, KeysIn
    <2>3. win[k].start \in Nat /\ now \in Nat
        BY <2>2 DEF TableInv, Table, Windows
    <2> QED BY <2>1, <2>2, <2>3, Positive DEF Told, Expired
<1> QED BY <1>1, <1>2, TableHolds, ToldStep, PTL DEF StackSpec

-----------------------------------------------------------------------------
(* Bursts *)

\* The tickets of T from time t on.
From(T, t) == {x \in T : x[1] >= t}

Lesser(a, b) == IF a <= b THEN a ELSE b

\* What an open window says of the tickets under a limit: those after its first instant
\* were counted in it after another one, and those of the window-long stretches that
\* touch it fall into the limit of the one before and what it has counted itself.
Fits(T, w, limit) ==
    /\ Cardinality(From(T, w.start + 1)) < Lesser(w.count, limit)
    /\ \A t \in Nat : t + Window > w.start => Cardinality(From(T, t)) <= limit + Lesser(w.count, limit)

\* What is known of the tickets when the window is over or forgotten.
Within(T, time, limit) ==
    \A t \in Nat : t + Window > time => Cardinality(From(T, t)) <= limit

\* The bound on the stretches, of a set of tickets.
Bursts(T, limit) ==
    \A t \in 0..MaxTime : Cardinality({x \in T : x[1] \in t..(t + Window - 1)}) <= 2 * limit

\* Tickets of the past.
Tickets(T, time) == IsFiniteSet(T) /\ \A x \in T : x[1] \in 0..time

LEMMA FromCounts ==
    ASSUME NEW T, IsFiniteSet(T), NEW t
    PROVE  /\ IsFiniteSet(From(T, t)) /\ Cardinality(From(T, t)) \in Nat
           /\ \A S \in SUBSET From(T, t) : Cardinality(S) \in Nat /\ Cardinality(S) <= Cardinality(From(T, t))
<1>1. From(T, t) \in SUBSET T
    BY DEF From
<1>2. IsFiniteSet(From(T, t))
    BY <1>1, FS_Subset
<1>3. \A S \in SUBSET From(T, t) :
          IsFiniteSet(S) /\ Cardinality(S) <= Cardinality(From(T, t))
    BY <1>2, FS_Subset
<1>4. \A S : IsFiniteSet(S) => Cardinality(S) \in Nat
    BY FS_CardinalityType
<1> QED BY <1>2, <1>3, <1>4

\* One ticket more makes the tickets from any time on at most one more.
LEMMA FromGrows ==
    ASSUME NEW T, IsFiniteSet(T), NEW U, NEW x, U \subseteq T \cup {x}, NEW t
    PROVE  Cardinality(From(U, t)) <= Cardinality(From(T, t)) + 1
<1> DEFINE S == From(T, t) \cup {x}
<1>1. IsFiniteSet(From(T, t)) /\ Cardinality(From(T, t)) \in Nat
    BY FromCounts
<1>2. /\ IsFiniteSet(S)
      /\ Cardinality(S) = IF x \in From(T, t) THEN Cardinality(From(T, t)) ELSE Cardinality(From(T, t)) + 1
    BY <1>1, FS_AddElement
<1>3. From(U, t) \in SUBSET S
    BY DEF From
<1> HIDE DEF S
<1>4. IsFiniteSet(From(U, t)) /\ Cardinality(From(U, t)) <= Cardinality(S)
    BY <1>2, <1>3, FS_Subset
<1>5. Cardinality(From(U, t)) \in Nat /\ Cardinality(S) \in Nat
    BY <1>2, <1>4, FS_CardinalityType
<1> QED BY <1>1, <1>2, <1>4, <1>5

\* When a window is over, a stretch that reaches into the future sees only tickets
\* after its first instant.
LEMMA OverFits ==
    ASSUME NEW T, NEW time \in Nat, Tickets(T, time), NEW w \in Windows, NEW limit \in Nat,
           Fits(T, w, limit), time - w.start >= Window,
           NEW t \in Nat, t + Window > time
    PROVE  Cardinality(From(T, t)) < limit
<1>1. w.start \in Nat /\ w.count \in Nat /\ t >= w.start + 1
    BY Positive DEF Windows
<1>2. From(T, t) \in SUBSET From(T, w.start + 1)
    <2>1. \A x \in From(T, t) : x \in T /\ x[1] \in Nat /\ x[1] >= t
        BY DEF From, Tickets
    <2> QED BY <1>1, <2>1 DEF From
<1>3. /\ Cardinality(From(T, t)) \in Nat /\ Cardinality(From(T, w.start + 1)) \in Nat
      /\ Cardinality(From(T, t)) <= Cardinality(From(T, w.start + 1))
    BY <1>2, FromCounts DEF Tickets
<1> QED BY <1>1, <1>3 DEF Fits, Lesser

\* A window that starts now has counted one request, let through or not.
LEMMA FreshFits ==
    ASSUME NEW T, IsFiniteSet(T), NEW limit \in Nat, limit >= 1, NEW time \in Nat,
           Within(T, time, limit),
           NEW U, NEW x, U \subseteq T \cup {x}, Tickets(U, time),
           NEW w \in Windows, w.start = time, w.count = 1
    PROVE  Fits(U, w, limit)
<1>1. IsFiniteSet(U) /\ \A y \in U : y[1] \in 0..time
    BY DEF Tickets
<1>2. From(U, time + 1) = {}
    BY <1>1 DEF From
<1>3. Cardinality(From(U, w.start + 1)) = 0
    BY <1>2, FS_EmptySet
<1>4. Lesser(w.count, limit) = 1
    BY DEF Lesser
<1>5. ASSUME NEW t \in Nat, t + Window > time PROVE Cardinality(From(U, t)) <= limit + 1
    <2>1. Cardinality(From(T, t)) <= limit
        BY <1>5 DEF Within
    <2>2. Cardinality(From(U, t)) <= Cardinality(From(T, t)) + 1
        BY FromGrows
    <2>3. Cardinality(From(U, t)) \in Nat /\ Cardinality(From(T, t)) \in Nat
        BY <1>1, FromCounts
    <2> QED BY <2>1, <2>2, <2>3
<1> QED BY <1>3, <1>4, <1>5 DEF Fits

\* An open window counts one more; a request it lets through is within the limit.
LEMMA OpenFits ==
    ASSUME NEW T, IsFiniteSet(T), NEW limit \in Nat, NEW w \in Windows, Fits(T, w, limit),
           NEW U, NEW x, U \subseteq T \cup {x},
           NEW v \in Windows, v.start = w.start, v.count = w.count + 1,
           U = T \/ v.count <= limit
    PROVE  Fits(U, v, limit)
<1>1. w.start \in Nat /\ w.count \in Nat
    BY DEF Windows
<1>2. CASE U = T
    <2>1. Lesser(w.count, limit) <= Lesser(v.count, limit)
        BY <1>1 DEF Lesser
    <2>2. Lesser(w.count, limit) \in Nat /\ Lesser(v.count, limit) \in Nat
        BY <1>1 DEF Lesser
    <2>3. \A t \in Nat : Cardinality(From(T, t)) \in Nat
        BY FromCounts
    <2> QED BY <1>1, <1>2, <2>1, <2>2, <2>3 DEF Fits
<1>3. CASE v.count <= limit
    <2>1. Lesser(w.count, limit) = w.count /\ Lesser(v.count, limit) = w.count + 1
        BY <1>1, <1>3 DEF Lesser
    <2>2. \A t \in Nat : /\ Cardinality(From(T, t)) \in Nat
                         /\ Cardinality(From(U, t)) \in Nat
                         /\ Cardinality(From(U, t)) <= Cardinality(From(T, t)) + 1
        <3>1. IsFiniteSet(U)
            <4>1. IsFiniteSet(T \cup {x}) /\ U \in SUBSET (T \cup {x})
                BY FS_AddElement
            <4> QED BY <4>1, FS_Subset
        <3> QED BY <3>1, FromCounts, FromGrows
    <2>3. Cardinality(From(U, v.start + 1)) < Lesser(v.count, limit)
        BY <1>1, <2>1, <2>2 DEF Fits
    <2>4. ASSUME NEW t \in Nat, t + Window > v.start
          PROVE  Cardinality(From(U, t)) <= limit + Lesser(v.count, limit)
        <3>1. Cardinality(From(T, t)) <= limit + w.count
            BY <2>1, <2>4 DEF Fits
        <3> QED BY <1>1, <2>1, <2>2, <3>1
    <2> QED BY <2>3, <2>4 DEF Fits
<1> QED BY <1>2, <1>3

\* A ticket of now falls into the stretches that reach into the future only.
LEMMA BurstsGrow ==
    ASSUME NEW T, IsFiniteSet(T), NEW limit \in Nat, Bursts(T, limit), NEW time \in Nat,
           NEW U, IsFiniteSet(U), NEW x, U \subseteq T \cup {x}, x[1] = time,
           Within(U, time, 2 * limit)
    PROVE  Bursts(U, limit)
<1> SUFFICES ASSUME NEW t \in 0..MaxTime
             PROVE  Cardinality({y \in U : y[1] \in t..(t + Window - 1)}) <= 2 * limit
    BY DEF Bursts
<1> DEFINE new == {y \in U : y[1] \in t..(t + Window - 1)}
           old == {y \in T : y[1] \in t..(t + Window - 1)}
<1>1. t \in Nat /\ 2 * limit \in Nat
    BY Positive
<1>2. CASE time \in t..(t + Window - 1)
    <2>1. t + Window > time
        BY <1>1, <1>2, Positive
    <2>2. Cardinality(From(U, t)) <= 2 * limit
        BY <1>1, <2>1 DEF Within
    <2>3. new \in SUBSET From(U, t)
        BY <1>1 DEF From
    <2> HIDE DEF new
    <2>4. /\ Cardinality(new) \in Nat /\ Cardinality(From(U, t)) \in Nat
          /\ Cardinality(new) <= Cardinality(From(U, t))
        BY <2>3, FromCounts
    <2>5. Cardinality(new) <= 2 * limit
        BY <1>1, <2>2, <2>4
    <2> QED BY <2>5 DEF new
<1>3. CASE time \notin t..(t + Window - 1)
    <2>1. new \in SUBSET old /\ old \in SUBSET T
        BY <1>3
    <2>2. Cardinality(old) <= 2 * limit
        BY DEF Bursts
    <2> HIDE DEF new, old
    <2>3. IsFiniteSet(old)
        BY <2>1, FS_Subset
    <2>4. IsFiniteSet(new) /\ Cardinality(new) <= Cardinality(old)
        BY <2>1, <2>3, FS_Subset
    <2>5. Cardinality(new) \in Nat /\ Cardinality(old) \in Nat
        BY <2>3, <2>4, FS_CardinalityType
    <2>6. Cardinality(new) <= 2 * limit
        BY <1>1, <2>2, <2>4, <2>5
    <2> QED BY <2>6 DEF new
<1> QED BY <1>2, <1>3

\* What is known of the tickets a key limits.
KeyFits(T, k, windows, time) ==
    /\ Bursts(T, Limit[k[2]])
    /\ k \in DOMAIN windows => Fits(T, windows[k], Limit[k[2]])
    /\ k \notin DOMAIN windows => Within(T, time, Limit[k[2]])

LEMMA Limits == ASSUME NEW k \in Keys PROVE Limit[k[2]] \in Nat /\ Limit[k[2]] >= 1
<1>1. k[2] \in Buckets
    BY DEF Keys
<1>2. {DefaultMax, WriteMax, ExpensiveMax} \subseteq Nat \ {0}
    BY LimiterAssumption
<1> QED BY <1>1, <1>2 DEF Limit, Buckets

\* A key that the request does not count keeps its window, or loses one that is over.
LEMMA OthersFit ==
    ASSUME TableInv, NEW k \in Keys, NEW T, Tickets(T, now), KeyFits(T, k, win, now),
           k \in DOMAIN win' => k \in DOMAIN win /\ win'[k] = win[k],
           k \in DOMAIN win /\ k \notin DOMAIN win' => Expired(win[k])
    PROVE  KeyFits(T, k, win', now)
<1>1. now \in Nat /\ Limit[k[2]] \in Nat
    BY Limits DEF TableInv
<1>2. CASE k \in DOMAIN win'
    BY <1>2 DEF KeyFits
<1>3. CASE k \notin DOMAIN win' /\ k \in DOMAIN win
    <2>1. win[k] \in Windows /\ now - win[k].start >= Window
        BY <1>3 DEF TableInv, Table, Expired
    <2>2. \A t \in Nat : t + Window > now => Cardinality(From(T, t)) < Limit[k[2]]
        BY <1>1, <1>3, <2>1, OverFits DEF KeyFits
    <2>3. \A t \in Nat : Cardinality(From(T, t)) \in Nat
        BY FromCounts DEF Tickets
    <2>4. Within(T, now, Limit[k[2]])
        BY <1>1, <2>2, <2>3 DEF Within
    <2> QED BY <1>3, <2>4 DEF KeyFits
<1>4. CASE k \notin DOMAIN win' /\ k \notin DOMAIN win
    BY <1>4 DEF KeyFits
<1> QED BY <1>2, <1>3, <1>4

\* A key that the request counts: its open window goes on, or a fresh one replaces one
\* that is over or none, or one that is over is forgotten.
LEMMA AskedFit ==
    ASSUME TableInv, NEW k \in Keys, NEW T, Tickets(T, now), KeyFits(T, k, win, now),
           Table([order |-> order', win |-> win']),
           k \in DOMAIN win' =>
               Touched([order |-> order, win |-> win], [order |-> order', win |-> win'], k),
           k \notin DOMAIN win' => k \in DOMAIN win /\ Expired(win[k]),
           NEW U, NEW x, U \subseteq T \cup {x}, x[1] = now, Tickets(U, now),
           U = T \/ (k \in DOMAIN win' => win'[k].count <= Limit[k[2]])
    PROVE  KeyFits(U, k, win', now)
<1> DEFINE limit == Limit[k[2]]
<1>1. now \in Nat /\ limit \in Nat /\ limit >= 1 /\ IsFiniteSet(T) /\ IsFiniteSet(U)
    BY Limits DEF TableInv, Tickets
<1>2. \A t \in Nat : /\ Cardinality(From(T, t)) \in Nat /\ Cardinality(From(U, t)) \in Nat
                     /\ Cardinality(From(U, t)) <= Cardinality(From(T, t)) + 1
    BY <1>1, FromCounts, FromGrows
<1>3. k \in DOMAIN win => win[k] \in Windows
    BY DEF TableInv, Table
<1>4. k \in DOMAIN win' => win'[k] \in Windows
    BY DEF Table
<1>5. ASSUME k \in DOMAIN win, Expired(win[k])
      PROVE  \A t \in Nat : t + Window > now => Cardinality(From(T, t)) < limit
    BY <1>1, <1>3, <1>5, OverFits DEF KeyFits, Expired
<1>6. Bursts(T, limit)
    BY DEF KeyFits
<1> HIDE DEF limit
<1>7. Within(U, now, 2 * limit) => Bursts(U, limit)
    BY <1>1, <1>6, BurstsGrow
<1>8. CASE k \in DOMAIN win' /\ k \in DOMAIN win /\ ~Expired(win[k])
    <2>1. win'[k].start = win[k].start /\ win'[k].count = win[k].count + 1
        BY <1>8 DEF Touched
    <2>2. Fits(T, win[k], limit)
        BY <1>8 DEF KeyFits, limit
    <2>3. U = T \/ win'[k].count <= limit
        BY <1>8 DEF limit
    <2>4. Fits(U, win'[k], limit)
        BY <1>1, <1>3, <1>4, <1>8, <2>1, <2>2, <2>3, OpenFits
    <2>5. win[k].start \in Nat /\ win[k].start <= now /\ win'[k].count \in Nat
        BY <1>4, <1>8 DEF TableInv, Table, Windows
    <2>6. Lesser(win'[k].count, limit) \in Nat /\ Lesser(win'[k].count, limit) <= limit
        BY <1>1, <2>5 DEF Lesser
    <2>7. ASSUME NEW t \in Nat, t + Window > now PROVE Cardinality(From(U, t)) <= 2 * limit
        <3>1. t + Window > win'[k].start
            BY <1>1, <2>1, <2>5, <2>7, Positive
        <3>2. Cardinality(From(U, t)) <= limit + Lesser(win'[k].count, limit)
            BY <2>4, <3>1 DEF Fits
        <3> QED BY <1>1, <1>2, <2>6, <3>2
    <2>8. Bursts(U, limit)
        BY <1>7, <2>7 DEF Within
    <2> QED BY <1>8, <2>4, <2>8 DEF KeyFits, limit
<1>9. CASE k \in DOMAIN win' /\ ~(k \in DOMAIN win /\ ~Expired(win[k]))
    <2>1. win'[k].start = now /\ win'[k].count = 1
        BY <1>9 DEF Touched
    <2>2. Within(T, now, limit)
        <3>1. CASE k \in DOMAIN win
            BY <1>1, <1>2, <1>5, <1>9, <3>1 DEF Within
        <3>2. CASE k \notin DOMAIN win
            BY <3>2 DEF KeyFits, limit
        <3> QED BY <3>1, <3>2
    <2>3. Fits(U, win'[k], limit)
        BY <1>1, <1>4, <1>9, <2>1, <2>2, FreshFits
    <2>4. ASSUME NEW t \in Nat, t + Window > now PROVE Cardinality(From(U, t)) <= 2 * limit
        <3>1. Cardinality(From(T, t)) <= limit
            BY <2>2, <2>4 DEF Within
        <3> QED BY <1>1, <1>2, <3>1
    <2>5. Bursts(U, limit)
        BY <1>7, <2>4 DEF Within
    <2> QED BY <1>9, <2>3, <2>5 DEF KeyFits, limit
<1>10. CASE k \notin DOMAIN win'
    <2>1. ASSUME NEW t \in Nat, t + Window > now
          PROVE  Cardinality(From(U, t)) <= limit /\ Cardinality(From(U, t)) <= 2 * limit
        <3>1. Cardinality(From(T, t)) < limit
            BY <1>5, <1>10, <2>1
        <3> QED BY <1>1, <1>2, <3>1
    <2>2. Bursts(U, limit)
        BY <1>7, <2>1 DEF Within
    <2>3. Within(U, now, limit)
        BY <2>1 DEF Within
    <2> QED BY <1>10, <2>2, <2>3 DEF KeyFits, limit
<1> QED BY <1>8, <1>9, <1>10

\* The requests let through, per client, time and bucket.
Admissible == [Clients -> [0..MaxTime -> [Buckets -> Nat]]]

BurstInv ==
    /\ admitted \in Admissible
    /\ \A c \in Clients, b \in Buckets : Tickets(Admitted(c, b), now)
    /\ ~lost => \A c \in Clients, b \in Buckets : KeyFits(Admitted(c, b), <<c, b>>, win, now)

\* The tickets of a table of admissions.
TicketsOf(table, c, b) ==
    UNION {{<<t, n, i>> : i \in 1..table[c][t][n]} : t \in 0..MaxTime, n \in LimitedBy(b)}

LEMMA TicketMember ==
    ASSUME NEW table, NEW c, NEW b \in Buckets, NEW x
    PROVE  x \in TicketsOf(table, c, b) <=>
               \E t \in 0..MaxTime, m \in Buckets :
                   b \in Counted(m) /\ \E i \in 1..table[c][t][m] : x = <<t, m, i>>
<1> DEFINE at(t, m) == {<<t, m, i>> : i \in 1..table[c][t][m]}
<1>1. TicketsOf(table, c, b) = UNION {at(t, m) : t \in 0..MaxTime, m \in LimitedBy(b)}
    BY DEF TicketsOf
<1>2. \A t, m : x \in at(t, m) <=> \E i \in 1..table[c][t][m] : x = <<t, m, i>>
    OBVIOUS
<1> HIDE DEF at
<1>3. x \in TicketsOf(table, c, b) <=> \E t \in 0..MaxTime, m \in LimitedBy(b) : x \in at(t, m)
    BY <1>1
<1>4. \A m : m \in LimitedBy(b) <=> m \in Buckets /\ b \in Counted(m)
    BY DEF LimitedBy, Counted, Buckets
<1> QED BY <1>2, <1>3, <1>4

\* A request that is let through is one ticket more for the buckets it counts against.
LEMMA TicketsGrow ==
    ASSUME NEW table \in Admissible, NEW c \in Clients, NEW b \in Buckets, NEW time \in 0..MaxTime,
           NEW d \in Clients, NEW n \in Buckets
    PROVE  LET new == [table EXCEPT ![c][time][b] = @ + 1]
               x == <<time, b, table[c][time][b] + 1>>
           IN  /\ new \in Admissible
               /\ TicketsOf(new, d, n) \subseteq TicketsOf(table, d, n) \cup {x}
               /\ ~(d = c /\ n \in Counted(b)) => TicketsOf(new, d, n) = TicketsOf(table, d, n)
<1> DEFINE count == table[c][time][b]
           row == [table[c][time] EXCEPT ![b] = count + 1]
           sheet == [table[c] EXCEPT ![time] = row]
           new == [table EXCEPT ![c][time][b] = @ + 1]
           x == <<time, b, count + 1>>
<1>1. table[c] \in [0..MaxTime -> [Buckets -> Nat]] /\ table[c][time] \in [Buckets -> Nat] /\ count \in Nat
    BY DEF Admissible
<1>2. row \in [Buckets -> Nat] /\ row[b] = count + 1 /\ \A m \in Buckets : m # b => row[m] = table[c][time][m]
    BY <1>1
<1>3. new = [table EXCEPT ![c] = sheet]
    BY DEF Admissible
<1> HIDE DEF row, new
<1>4. /\ sheet \in [0..MaxTime -> [Buckets -> Nat]] /\ sheet[time] = row
      /\ \A t \in 0..MaxTime : t # time => sheet[t] = table[c][t]
    BY <1>1, <1>2
<1> HIDE DEF sheet
<1>5. new \in Admissible /\ new[c] = sheet /\ \A e \in Clients : e # c => new[e] = table[e]
    BY <1>3, <1>4 DEF Admissible
<1>6. ASSUME NEW t \in 0..MaxTime, NEW m \in Buckets
      PROVE  /\ table[d][t][m] \in Nat
             /\ ~(d = c /\ t = time /\ m = b) => new[d][t][m] = table[d][t][m]
             /\ d = c /\ t = time /\ m = b => new[d][t][m] = count + 1 /\ table[d][t][m] = count
    <2>1. table[d] \in [0..MaxTime -> [Buckets -> Nat]]
        BY DEF Admissible
    <2>2. table[d][t] \in [Buckets -> Nat]
        BY <2>1
    <2>3. table[d][t][m] \in Nat
        BY <2>2
    <2>4. CASE d # c
        <3>1. new[d] = table[d]
            BY <1>5, <2>4
        <3> HIDE DEF count, x
        <3> QED BY <2>3, <2>4, <3>1
    <2>5. CASE d = c /\ t # time
        BY <1>1, <1>4, <1>5, <2>5
    <2>6. CASE d = c /\ t = time
        <3>1. new[d][t] = row /\ table[d][t] = table[c][time]
            BY <1>4, <1>5, <2>6
        <3> QED BY <1>1, <1>2, <2>6, <3>1
    <2> QED BY <2>3, <2>4, <2>5, <2>6
<1>7. ASSUME NEW y \in TicketsOf(new, d, n)
      PROVE  y \in TicketsOf(table, d, n) \/ (d = c /\ n \in Counted(b) /\ y = x)
    <2>1. PICK t \in 0..MaxTime, m \in Buckets :
              n \in Counted(m) /\ \E i \in 1..new[d][t][m] : y = <<t, m, i>>
        BY TicketMember
    <2>2. PICK i \in 1..new[d][t][m] : y = <<t, m, i>>
        BY <2>1
    <2>3. CASE i \in 1..table[d][t][m]
        BY <2>1, <2>2, <2>3, TicketMember
    <2>4. CASE i \notin 1..table[d][t][m]
        <3>1. d = c /\ t = time /\ m = b /\ new[d][t][m] = count + 1 /\ table[d][t][m] = count
            BY <1>6, <2>4
        <3>2. i = count + 1
            BY <1>1, <2>4, <3>1
        <3> QED BY <2>1, <2>2, <3>1, <3>2
    <2> QED BY <2>3, <2>4
<1>8. ASSUME NEW y \in TicketsOf(table, d, n) PROVE y \in TicketsOf(new, d, n)
    <2>1. PICK t \in 0..MaxTime, m \in Buckets :
              n \in Counted(m) /\ \E i \in 1..table[d][t][m] : y = <<t, m, i>>
        BY TicketMember
    <2>2. PICK i \in 1..table[d][t][m] : y = <<t, m, i>>
        BY <2>1
    <2>3. i \in 1..new[d][t][m]
        BY <1>1, <1>6
    <2> QED BY <2>1, <2>2, <2>3, TicketMember
<1> QED BY <1>5, <1>7, <1>8 DEF new

LEMMA BurstInit == HistoryInit => BurstInv
<1> SUFFICES ASSUME HistoryInit PROVE BurstInv
    OBVIOUS
<1>1. /\ admitted = [c \in Clients |-> [t \in 0..MaxTime |-> [b \in Buckets |-> 0]]]
      /\ win = <<>> /\ now = 0
    BY DEF HistoryInit, Init
<1>2. admitted \in Admissible
    BY <1>1 DEF Admissible
<1>3. ASSUME NEW c \in Clients, NEW b \in Buckets PROVE Admitted(c, b) = {}
    <2>1. \A t \in 0..MaxTime, n \in Buckets : admitted[c][t][n] = 0
        BY <1>1
    <2>2. 1..0 = {}
        OBVIOUS
    <2>3. LimitedBy(b) \subseteq Buckets
        BY DEF LimitedBy
    <2> QED BY <2>1, <2>2, <2>3 DEF Admitted
<1>4. /\ IsFiniteSet({}) /\ Cardinality({}) = 0
      /\ \A t : From({}, t) = {}
    BY FS_EmptySet DEF From
<1>5. \A c \in Clients, b \in Buckets : Tickets(Admitted(c, b), now)
    BY <1>3, <1>4 DEF Tickets
<1>6. ASSUME NEW c \in Clients, NEW b \in Buckets PROVE KeyFits({}, <<c, b>>, win, now)
    <2> DEFINE k == <<c, b>>
    <2>1. k \in Keys /\ k[2] = b
        BY DEF Keys
    <2>2. Limit[b] \in Nat
        BY <2>1, Limits
    <2>3. \A t : {x \in {} : x[1] \in t..(t + Window - 1)} = {}
        OBVIOUS
    <2>4. Bursts({}, Limit[b])
        BY <1>4, <2>2, <2>3 DEF Bursts
    <2>5. Within({}, now, Limit[b])
        BY <1>4, <2>2 DEF Within
    <2>6. k \notin DOMAIN win
        BY <1>1
    <2> QED BY <2>1, <2>4, <2>5, <2>6 DEF KeyFits
<1> QED BY <1>2, <1>3, <1>5, <1>6 DEF BurstInv

LEMMA RequestFits ==
    ASSUME TableInv, BurstInv, NEW c \in Clients, NEW b \in Buckets, Request(c, b)
    PROVE  BurstInv'
<1>1. now \in 0..MaxTime /\ now \in Nat /\ Table([order |-> order, win |-> win])
    BY DEF TableInv
<1>2. Check(c, b) /\ now' = now
    BY DEF Request, Check
<1>3. /\ Table([order |-> order', win |-> win'])
      /\ \A k \in DOMAIN win' \cap Asked(c, b) :
             Touched([order |-> order, win |-> win], [order |-> order', win |-> win'], k)
      /\ \A k \in DOMAIN win' \ Asked(c, b) : k \in DOMAIN win /\ win'[k] = win[k]
      /\ reply'.allowed =>
             \A n \in Counted(b) :
                 <<c, n>> \in DOMAIN win' => ~(win'[<<c, n>>].count > Limit[n])
    BY <1>1, <1>2, CheckKeeps
<1>4. /\ reply'.allowed => admitted' = [admitted EXCEPT ![c][now][b] = @ + 1]
      /\ ~reply'.allowed => admitted' = admitted
    BY DEF Request
<1>5. ~lost' => /\ ~lost
                /\ \A k \in DOMAIN win \ DOMAIN win' : Expired(win[k])
                /\ \A k \in Asked(c, b) : k \in DOMAIN win \/ k \in DOMAIN win'
    <2>1. Tracked = DOMAIN win
        BY <1>1 DEF Table, Tracked, KeysIn
    <2> QED BY <2>1 DEF Request, Asked
<1>6. /\ \A d \in Clients, n \in Buckets : Admitted(d, n) = TicketsOf(admitted, d, n)
      /\ \A d \in Clients, n \in Buckets : Admitted(d, n)' = TicketsOf(admitted', d, n)
    BY DEF Admitted, TicketsOf
<1> DEFINE x == <<now, b, admitted[c][now][b] + 1>>
<1>7. ASSUME NEW d \in Clients, NEW n \in Buckets
      PROVE  /\ TicketsOf(admitted', d, n) \subseteq TicketsOf(admitted, d, n) \cup {x}
             /\ ~(d = c /\ n \in Counted(b)) \/ ~reply'.allowed =>
                    TicketsOf(admitted', d, n) = TicketsOf(admitted, d, n)
    <2> DEFINE new == [admitted EXCEPT ![c][now][b] = @ + 1]
    <2>1. admitted \in Admissible
        BY DEF BurstInv
    <2>2. CASE reply'.allowed
        <3>1. /\ TicketsOf(new, d, n) \subseteq TicketsOf(admitted, d, n) \cup {x}
              /\ ~(d = c /\ n \in Counted(b)) => TicketsOf(new, d, n) = TicketsOf(admitted, d, n)
            BY <1>1, <2>1, TicketsGrow
        <3>2. admitted' = new
            BY <1>4, <2>2
        <3> HIDE DEF new, x
        <3> QED BY <2>2, <3>1, <3>2
    <2>3. CASE ~reply'.allowed
        BY <1>4, <2>3
    <2> QED BY <2>2, <2>3
<1>8. admitted' \in Admissible
    <2>1. admitted \in Admissible
        BY DEF BurstInv
    <2>2. [admitted EXCEPT ![c][now][b] = @ + 1] \in Admissible
        BY <1>1, <2>1, TicketsGrow
    <2> QED BY <1>4, <2>1, <2>2
<1>9. x[1] = now
    OBVIOUS
<1> HIDE DEF x
<1>10. ASSUME NEW d \in Clients, NEW n \in Buckets
       PROVE  Tickets(TicketsOf(admitted', d, n), now)
    <2> DEFINE T == TicketsOf(admitted, d, n)
               U == TicketsOf(admitted', d, n)
    <2>1. Tickets(T, now) /\ U \subseteq T \cup {x}
        BY <1>6, <1>7 DEF BurstInv
    <2> HIDE DEF T, U
    <2>2. IsFiniteSet(T \cup {x})
        BY <2>1, FS_AddElement DEF Tickets
    <2>3. IsFiniteSet(U)
        BY <2>1, <2>2, FS_Subset
    <2>4. \A y \in U : y[1] \in 0..now
        BY <1>1, <1>9, <2>1 DEF Tickets
    <2>5. Tickets(U, now)
        BY <2>3, <2>4 DEF Tickets
    <2> QED BY <2>5 DEF U
<1>11. ASSUME ~lost', NEW d \in Clients, NEW n \in Buckets
       PROVE  KeyFits(TicketsOf(admitted', d, n), <<d, n>>, win', now)
    <2> DEFINE T == TicketsOf(admitted, d, n)
               U == TicketsOf(admitted', d, n)
               k == <<d, n>>
    <2>1. k \in Keys /\ k[2] = n /\ (k \in Asked(c, b) <=> d = c /\ n \in Counted(b))
        BY DEF Keys, Asked
    <2>2. Tickets(T, now) /\ Tickets(U, now) /\ U \subseteq T \cup {x}
        BY <1>6, <1>7, <1>10 DEF BurstInv
    <2>3. KeyFits(T, k, win, now)
        BY <1>5, <1>6, <1>11 DEF BurstInv
    <2>4. CASE k \notin Asked(c, b)
        <3>1. U = T
            BY <1>7, <2>1, <2>4
        <3>2. k \in DOMAIN win' => k \in DOMAIN win /\ win'[k] = win[k]
            BY <1>3, <2>4
        <3>3. k \in DOMAIN win /\ k \notin DOMAIN win' => Expired(win[k])
            BY <1>5, <1>11
        <3> HIDE DEF T, U, k
        <3>4. KeyFits(T, k, win', now)
            BY <2>1, <2>2, <2>3, <3>2, <3>3, OthersFit
        <3> QED BY <3>1, <3>4 DEF T, U, k
    <2>5. CASE k \in Asked(c, b)
        <3>1. k \in DOMAIN win' =>
                  Touched([order |-> order, win |-> win], [order |-> order', win |-> win'], k)
            BY <1>3, <2>5
        <3>2. k \notin DOMAIN win' => k \in DOMAIN win /\ Expired(win[k])
            BY <1>5, <1>11, <2>5
        <3>3. U = T \/ (k \in DOMAIN win' => win'[k].count <= Limit[k[2]])
            <4>1. CASE ~reply'.allowed
                BY <1>7, <4>1
            <4>2. CASE reply'.allowed
                <5>1. k \in DOMAIN win' => ~(win'[k].count > Limit[n])
                    BY <1>3, <2>1, <2>5, <4>2
                <5>2. k \in DOMAIN win' => win'[k].count \in Nat
                    BY <1>3 DEF Table, Windows
                <5>3. Limit[n] \in Nat
                    BY <2>1, Limits
                <5> QED BY <2>1, <5>1, <5>2, <5>3
            <4> QED BY <4>1, <4>2
        <3> HIDE DEF T, U, k
        <3>4. KeyFits(U, k, win', now)
            BY <1>3, <1>9, <2>1, <2>2, <2>3, <3>1, <3>2, <3>3, AskedFit
        <3> QED BY <3>4 DEF U, k
    <2> QED BY <2>4, <2>5
<1>12. /\ \A d \in Clients, n \in Buckets : Tickets(Admitted(d, n), now)'
       /\ ~lost' => \A d \in Clients, n \in Buckets :
                        KeyFits(Admitted(d, n), <<d, n>>, win, now)'
    BY <1>2, <1>6, <1>10, <1>11
<1> QED BY <1>8, <1>12 DEF BurstInv

LEMMA TickFits ==
    ASSUME TableInv, BurstInv, Tick, UNCHANGED <<admitted, lost>>
    PROVE  BurstInv'
<1>1. now' = now + 1 /\ now \in Nat /\ UNCHANGED win
    BY DEF Tick, TableInv
<1>2. ASSUME NEW T, Tickets(T, now) PROVE Tickets(T, now')
    BY <1>1, <1>2 DEF Tickets
<1>3. ASSUME NEW T, NEW k, KeyFits(T, k, win, now) PROVE KeyFits(T, k, win', now')
    BY <1>1, <1>3, Positive DEF KeyFits, Within
<1>4. ASSUME NEW c \in Clients, NEW b \in Buckets
      PROVE  /\ Tickets(Admitted(c, b), now)'
             /\ ~lost => KeyFits(Admitted(c, b), <<c, b>>, win, now)'
    <2>1. Admitted(c, b)' = Admitted(c, b)
        BY DEF Admitted
    <2> QED BY <1>2, <1>3, <2>1 DEF BurstInv
<1>5. admitted' \in Admissible /\ (lost' <=> lost)
    BY DEF BurstInv
<1>6. /\ \A c \in Clients, b \in Buckets : Tickets(Admitted(c, b), now)'
      /\ ~lost' => \A c \in Clients, b \in Buckets : KeyFits(Admitted(c, b), <<c, b>>, win, now)'
    BY <1>4, <1>5
<1> QED BY <1>5, <1>6 DEF BurstInv

LEMMA BurstStep == TableInv /\ BurstInv /\ [StackNext]_stackVars => BurstInv'
<1> SUFFICES ASSUME TableInv, BurstInv, [StackNext]_stackVars PROVE BurstInv'
    OBVIOUS
<1>1. CASE UNCHANGED vars
    <2>1. UNCHANGED <<now, win, admitted, lost>>
        BY <1>1 DEF vars, limiterVars
    <2>2. ASSUME NEW c \in Clients, NEW b \in Buckets
          PROVE  Admitted(c, b)' = Admitted(c, b)
        BY <2>1 DEF Admitted
    <2>3. \A c \in Clients, b \in Buckets :
              /\ Tickets(Admitted(c, b), now)'
              /\ ~lost => KeyFits(Admitted(c, b), <<c, b>>, win, now)'
        BY <2>1, <2>2 DEF BurstInv
    <2>4. admitted' \in Admissible /\ (lost' <=> lost)
        BY <2>1 DEF BurstInv
    <2> QED BY <2>3, <2>4 DEF BurstInv
<1> QED BY <1>1, RequestFits, TickFits, StackSteps

\* Over any stretch as long as a window no client has more than twice the limit of a
\* bucket let through, whatever mix of buckets it asks for and whatever others do, as
\* long as the cap costs nobody an open window (rate_limit.py:12, :117-133).
THEOREM BurstsAreBounded == StackSpec => []BurstBound
<1>1. StackInit => BurstInv
    BY BurstInit DEF StackInit
<1>2. TableInv /\ BurstInv => BurstBound
    <2> SUFFICES ASSUME BurstInv, ~lost, NEW c \in Clients, NEW b \in Buckets, NEW t \in 0..MaxTime
                 PROVE  Cardinality(Admissions(c, b, t)) <= 2 * Limit[b]
        BY DEF BurstBound
    <2>1. Bursts(Admitted(c, b), Limit[b])
        BY DEF BurstInv, KeyFits
    <2> QED BY <2>1 DEF Bursts, Admissions
<1> QED BY <1>1, <1>2, TableHolds, BurstStep, PTL DEF StackSpec

-----------------------------------------------------------------------------
(* The limit on the body *)

\* A set of numbers that is not empty has a least one.
LEMMA LeastExists ==
    ASSUME NEW X \in SUBSET Nat, X # {}
    PROVE  \E x \in X : \A y \in X : x <= y
<1> DEFINE Downs == {0..x : x \in X}
<1>1. Downs # {} /\ Downs \subseteq FiniteSubsetsOf(Nat)
    <2>1. \A x \in X : 0..x \in SUBSET Nat
        OBVIOUS
    <2>2. \A x \in X : IsFiniteSet(0..x)
        <3>1. TAKE x \in X
        <3>2. x \in Int /\ 0 \in Int
            OBVIOUS
        <3> QED BY <3>2, FS_Interval
    <2> QED BY <2>1, <2>2 DEF FiniteSubsetsOf
<1>2. PICK P \in Downs : \A Q \in Downs : ~(<<Q, P>> \in StrictSubsetOrdering(Nat))
    <2> HIDE DEF Downs
    <2> QED BY <1>1, FS_StrictSubsetOrderingWellFounded, WFMin
<1>3. PICK x \in X : P = 0..x
    BY <1>2
<1>4. ASSUME NEW y \in X PROVE x <= y
    <2>1. SUFFICES ASSUME y < x PROVE FALSE
        OBVIOUS
    <2>2. 0..y \in Downs /\ 0..y \in SUBSET Nat /\ 0..x \in SUBSET Nat
        OBVIOUS
    <2>3. <<0..y, 0..x>> \notin StrictSubsetOrdering(Nat)
        BY <1>2, <1>3, <2>2
    <2>4. 0..y \subseteq 0..x /\ x \in 0..x /\ x \notin 0..y
        BY <2>1
    <2> QED BY <2>2, <2>3, <2>4 DEF StrictSubsetOrdering
<1> QED BY <1>4

\* f[n] is what a computation over s has reached after n steps.
Run(f, n, S, base, step, s) ==
    /\ f \in [0..n -> S] /\ f[0] = base
    /\ \A m \in 1..n : f[m] = step[<<f[m - 1], s[m]>>]

\* A value that is computed from the one before and the next element of a sequence
\* is defined over all of it.
LEMMA RunExists ==
    ASSUME NEW L \in Nat, NEW S, NEW T, NEW base \in S, NEW step \in [S \X T -> S],
           NEW s \in [1..L -> T]
    PROVE  \E f : Run(f, L, S, base, step, s)
<1> DEFINE Runs(f, m) == Run(f, m, S, base, step, s)
           Bad == {m \in 0..L : ~\E f : Runs(f, m)}
<1>1. \E f : Runs(f, 0)
    <2> DEFINE f == [n \in 0..0 |-> base]
    <2>1. f \in [0..0 -> S] /\ f[0] = base /\ 1..0 = {}
        OBVIOUS
    <2> HIDE DEF f
    <2>2. Runs(f, 0)
        BY <2>1 DEF Run
    <2> QED BY <2>2
<1>2. ASSUME NEW m \in 0..L, m # 0, NEW f, Runs(f, m - 1)
      PROVE  \E g : Runs(g, m)
    <2> DEFINE next == step[<<f[m - 1], s[m]>>]
               g == [n \in 0..m |-> IF n = m THEN next ELSE f[n]]
    <2>1. m - 1 \in 0..L /\ m \in 1..L /\ m - 1 \in 0..(m - 1) /\ 0 \in 0..(m - 1)
        BY <1>2
    <2>2. f[m - 1] \in S /\ s[m] \in T
        BY <1>2, <2>1 DEF Run
    <2>3. next \in S
        BY <2>2
    <2> HIDE DEF next
    <2>4. /\ \A n \in 0..m : n = m \/ n \in 0..(m - 1)
          /\ \A n \in 1..m : n = m \/ n \in 1..(m - 1)
          /\ \A n \in 1..(m - 1) : n \in 0..(m - 1) /\ n - 1 \in 0..(m - 1)
        BY <2>1
    <2>5. g \in [0..m -> S]
        BY <1>2, <2>3, <2>4 DEF Run
    <2>6. g[m] = next /\ \A n \in 0..(m - 1) : g[n] = f[n]
        <3>1. \A n \in 0..(m - 1) : n \in 0..m /\ n # m
            BY <2>1
        <3>2. m \in 0..m
            BY <2>1
        <3> QED BY <3>1, <3>2
    <2> HIDE DEF g
    <2>7. g[m] = step[<<g[m - 1], s[m]>>]
        BY <2>1, <2>6 DEF next
    <2>8. g[0] = base /\ \A n \in 1..(m - 1) : g[n] = step[<<g[n - 1], s[n]>>]
        BY <1>2, <2>1, <2>4, <2>6 DEF Run
    <2>9. Runs(g, m)
        BY <2>4, <2>5, <2>7, <2>8 DEF Run
    <2> QED BY <2>9
<1> HIDE DEF Runs
<1>3. Bad = {}
    <2> SUFFICES ASSUME Bad # {} PROVE FALSE
        OBVIOUS
    <2>1. Bad \in SUBSET Nat
        OBVIOUS
    <2>2. PICK m \in Bad : \A j \in Bad : m <= j
        BY <2>1, LeastExists
    <2>3. m \in 0..L /\ ~\E f : Runs(f, m)
        OBVIOUS
    <2>4. m # 0
        BY <1>1, <2>3
    <2>5. m - 1 \in 0..L /\ m - 1 \notin Bad
        BY <2>2, <2>3, <2>4
    <2>6. \E f : Runs(f, m - 1)
        BY <2>5
    <2> QED BY <1>2, <2>3, <2>4, <2>6
<1> QED BY <1>3 DEF Runs

\* Two such computations are the same one.
LEMMA RunIsUnique ==
    ASSUME NEW L \in Nat, NEW f, NEW g, DOMAIN f = 0..L, DOMAIN g = 0..L,
           f = [n \in 0..L |-> f[n]], g = [n \in 0..L |-> g[n]], f[0] = g[0],
           \A n \in 1..L : f[n - 1] = g[n - 1] => f[n] = g[n]
    PROVE  f = g
<1> DEFINE Bad == {n \in 0..L : f[n] # g[n]}
<1>1. Bad = {}
    <2> SUFFICES ASSUME Bad # {} PROVE FALSE
        OBVIOUS
    <2>1. Bad \in SUBSET Nat
        OBVIOUS
    <2>2. PICK m \in Bad : \A j \in Bad : m <= j
        BY <2>1, LeastExists
    <2>3. m \in 0..L /\ f[m] # g[m] /\ m # 0
        OBVIOUS
    <2>4. m \in 1..L /\ m - 1 \in 0..L /\ ~(m <= m - 1)
        BY <2>3
    <2>5. m - 1 \notin Bad
        BY <2>2, <2>4
    <2>6. f[m - 1] = g[m - 1]
        BY <2>4, <2>5
    <2> QED BY <2>3, <2>4, <2>6
<1>2. \A n \in 0..L : f[n] = g[n]
    BY <1>1
<1> QED BY <1>2

LEMMA Chunks ==
    ASSUME NEW body \in Bodies
    PROVE  /\ Len(body) \in Nat /\ body \in [1..Len(body) -> Nat]
<1>1. PICK m \in 0..MaxChunks : body \in [1..m -> ChunkSizes]
    BY DEF Bodies, BoundedSeq, SeqOf
<1>2. m \in Nat /\ body \in [1..m -> Nat]
    <2>1. m \in Nat /\ ChunkSizes \subseteq Nat
        BY BodyAssumption
    <2> QED BY <1>1, <2>1
<1>3. body \in Seq(Nat)
    BY <1>2, SeqDef
<1> QED BY <1>3

LEMMA SizeRuns ==
    ASSUME NEW body \in Bodies
    PROVE  \E size \in [0..Len(body) -> Nat] :
               /\ Size(body) = size[Len(body)]
               /\ \A n \in 0..Len(body) : size[n] = IF n = 0 THEN 0 ELSE size[n - 1] + body[n]
<1> DEFINE L == Len(body)
           step == [x \in Nat \X Nat |-> x[1] + x[2]]
           Defines(f) == f = [n \in 0..L |-> IF n = 0 THEN 0 ELSE f[n - 1] + body[n]]
           size == CHOOSE f : Defines(f)
<1>1. L \in Nat /\ body \in [1..L -> Nat]
    BY Chunks
<1>2. step \in [Nat \X Nat -> Nat] /\ \A i, j \in Nat : step[<<i, j>>] = i + j
    OBVIOUS
<1> HIDE DEF L, step, size
<1>3. PICK f : Run(f, L, Nat, 0, step, body)
    <2> HIDE DEF Defines
    <2>1. 0 \in Nat
        OBVIOUS
    <2> QED BY <1>1, <1>2, <2>1, RunExists, ZenonT(60)
<1>4. \A n \in 0..L : f[n] = IF n = 0 THEN 0 ELSE f[n - 1] + body[n]
    <2> TAKE n \in 0..L
    <2>1. n # 0 => n - 1 \in 0..L /\ n \in 1..L
        BY <1>1
    <2>2. n # 0 => f[n - 1] \in Nat /\ body[n] \in Nat
        BY <1>1, <1>3, <2>1 DEF Run
    <2> QED BY <1>2, <1>3, <2>1, <2>2 DEF Run
<1>5. Defines(f)
    BY <1>3, <1>4 DEF Run
<1>6. Defines(size)
    <2> HIDE DEF Defines
    <2> QED BY <1>5 DEF size
<1>7. DOMAIN size = 0..L /\ \A n \in 0..L : size[n] = IF n = 0 THEN 0 ELSE size[n - 1] + body[n]
    BY <1>6
<1>8. size = [n \in 0..L |-> size[n]]
    BY <1>6
<1>9. size = f
    <2>1. DOMAIN f = 0..L /\ f = [n \in 0..L |-> f[n]]
        BY <1>3 DEF Run
    <2>2. 0 \in 0..L /\ \A n \in 1..L : n \in 0..L /\ n # 0
        BY <1>1
    <2>3. f[0] = size[0] /\ \A n \in 1..L : f[n - 1] = size[n - 1] => f[n] = size[n]
        BY <1>4, <1>7, <2>2
    <2> HIDE DEF Defines
    <2> QED BY <1>1, <1>7, <1>8, <2>1, <2>3, RunIsUnique
<1>10. Size(body) = size[L]
    BY DEF Size, size, L
<1> QED BY <1>3, <1>4, <1>9, <1>10 DEF L, Run

\* What limited_receive has counted and passed on of some pieces.
Counts == [received : Nat, over : BOOLEAN, delivered : Nat]

LEMMA ReceiveCounts ==
    ASSUME NEW state \in Counts, NEW chunk \in Nat
    PROVE  Receive(state, chunk) \in Counts
BY BodyAssumption DEF Receive, Counts

LEMMA TakenRuns ==
    ASSUME NEW body \in Bodies
    PROVE  \E state \in [0..Len(body) -> Counts] :
               /\ Taken(body) = state[Len(body)]
               /\ \A n \in 0..Len(body) :
                      state[n] = IF n = 0 THEN Nothing ELSE Receive(state[n - 1], body[n])
<1> DEFINE L == Len(body)
           step == [x \in Counts \X Nat |-> Receive(x[1], x[2])]
           Defines(f) == f = [n \in 0..L |-> IF n = 0 THEN Nothing ELSE Receive(f[n - 1], body[n])]
           state == CHOOSE f : Defines(f)
<1>1. L \in Nat /\ body \in [1..L -> Nat]
    BY Chunks
<1>2. /\ step \in [Counts \X Nat -> Counts]
      /\ \A i \in Counts, j \in Nat : step[<<i, j>>] = Receive(i, j)
    BY ReceiveCounts
<1> HIDE DEF L, step, state
<1>3. PICK f : Run(f, L, Counts, Nothing, step, body)
    <2> HIDE DEF Defines
    <2>1. Nothing \in Counts
        BY DEF Nothing, Counts
    <2> QED BY <1>1, <1>2, <2>1, RunExists, ZenonT(60)
<1>4. \A n \in 0..L : f[n] = IF n = 0 THEN Nothing ELSE Receive(f[n - 1], body[n])
    <2> TAKE n \in 0..L
    <2>1. n # 0 => n - 1 \in 0..L /\ n \in 1..L
        BY <1>1
    <2>2. n # 0 => f[n - 1] \in Counts /\ body[n] \in Nat
        BY <1>1, <1>3, <2>1 DEF Run
    <2> QED BY <1>2, <1>3, <2>1, <2>2 DEF Run
<1>5. Defines(f)
    BY <1>3, <1>4 DEF Run
<1>6. Defines(state)
    <2> HIDE DEF Defines
    <2> QED BY <1>5 DEF state
<1>7. /\ DOMAIN state = 0..L
      /\ \A n \in 0..L : state[n] = IF n = 0 THEN Nothing ELSE Receive(state[n - 1], body[n])
    BY <1>6
<1>8. state = [n \in 0..L |-> state[n]]
    BY <1>6
<1>9. state = f
    <2>1. DOMAIN f = 0..L /\ f = [n \in 0..L |-> f[n]]
        BY <1>3 DEF Run
    <2>2. 0 \in 0..L /\ \A n \in 1..L : n \in 0..L /\ n # 0
        BY <1>1
    <2>3. f[0] = state[0] /\ \A n \in 1..L : f[n - 1] = state[n - 1] => f[n] = state[n]
        BY <1>4, <1>7, <2>2
    <2> HIDE DEF Defines
    <2> QED BY <1>1, <1>7, <1>8, <2>1, <2>3, RunIsUnique
<1>10. Taken(body) = state[L]
    BY DEF Taken, state, L
<1> QED BY <1>3, <1>4, <1>9, <1>10 DEF L, Run

\* Up to the piece that overruns, everything received is passed on; from it on, nothing.
CountedSoFar(state, size) ==
    /\ state.delivered <= MaxBytes
    /\ state.over <=> size > MaxBytes
    /\ ~state.over => state.received = size /\ state.delivered = size

LEMMA BodyIsCounted ==
    ASSUME NEW body \in Bodies
    PROVE  Taken(body).over \in BOOLEAN /\ CountedSoFar(Taken(body), Size(body))
<1> DEFINE L == Len(body)
<1>1. L \in Nat /\ body \in [1..L -> Nat]
    BY Chunks
<1>2. PICK size \in [0..L -> Nat] :
          /\ Size(body) = size[L]
          /\ \A n \in 0..L : size[n] = IF n = 0 THEN 0 ELSE size[n - 1] + body[n]
    BY SizeRuns
<1>3. PICK state \in [0..L -> Counts] :
          /\ Taken(body) = state[L]
          /\ \A n \in 0..L : state[n] = IF n = 0 THEN Nothing ELSE Receive(state[n - 1], body[n])
    BY TakenRuns
<1> HIDE DEF L
<1> DEFINE Bad == {n \in 0..L : ~CountedSoFar(state[n], size[n])}
<1>4. Bad = {}
    <2> SUFFICES ASSUME Bad # {} PROVE FALSE
        OBVIOUS
    <2>1. Bad \in SUBSET Nat
        BY <1>1
    <2>2. PICK m \in Bad : \A j \in Bad : m <= j
        BY <2>1, LeastExists
    <2>3. m \in 0..L /\ ~CountedSoFar(state[m], size[m])
        OBVIOUS
    <2>4. CASE m = 0
        <3>1. state[0] = Nothing /\ size[0] = 0
            BY <1>1, <1>2, <1>3, <2>3, <2>4
        <3>2. CountedSoFar(Nothing, 0)
            BY BodyAssumption DEF CountedSoFar, Nothing
        <3> QED BY <2>3, <2>4, <3>1, <3>2
    <2>5. CASE m # 0
        <3>1. m - 1 \in 0..L /\ m \in 1..L /\ ~(m <= m - 1)
            BY <1>1, <2>3, <2>5
        <3>2. CountedSoFar(state[m - 1], size[m - 1])
            BY <2>2, <3>1
        <3>3. state[m] = Receive(state[m - 1], body[m]) /\ size[m] = size[m - 1] + body[m]
            BY <1>2, <1>3, <2>3, <2>5
        <3>4. state[m - 1] \in Counts /\ size[m - 1] \in Nat /\ body[m] \in Nat
            BY <1>1, <3>1
        <3>5. ASSUME NEW s \in Counts, NEW z \in Nat, NEW x \in Nat, CountedSoFar(s, z)
              PROVE  CountedSoFar(Receive(s, x), z + x)
            <4>1. /\ s.received \in Nat /\ s.delivered \in Nat /\ s.over \in BOOLEAN
                  /\ MaxBytes \in Nat
                BY BodyAssumption DEF Counts
            <4>2. CASE s.over
                BY <3>5, <4>1, <4>2 DEF CountedSoFar, Receive
            <4>3. CASE ~s.over
                <5>1. s.received = z /\ s.delivered = z
                    BY <3>5, <4>3 DEF CountedSoFar
                <5> DEFINE r == Receive(s, x)
                <5>2. /\ r.received = z + x
                      /\ r.over <=> z + x > MaxBytes
                      /\ r.delivered = IF z + x > MaxBytes THEN z ELSE z + x
                    BY <4>3, <5>1 DEF Receive
                <5>3. z <= MaxBytes
                    BY <3>5, <4>1, <4>3 DEF CountedSoFar
                <5> HIDE DEF r
                <5>4. CountedSoFar(r, z + x)
                    BY <4>1, <5>2, <5>3 DEF CountedSoFar
                <5> QED BY <5>4 DEF r
            <4> QED BY <4>1, <4>2, <4>3
        <3> QED BY <2>3, <3>2, <3>3, <3>4, <3>5
    <2> QED BY <2>4, <2>5
<1>5. L \in 0..L
    BY <1>1
<1>6. CountedSoFar(state[L], size[L]) /\ state[L] \in Counts
    BY <1>4, <1>5
<1> QED BY <1>2, <1>3, <1>6 DEF Counts

HttpInv ==
    http \in Read \cup UNION {Unread(code) : code \in {0, 200, 413, 429}}

LEMMA ExchangesAreBounded == HttpInv => BodyIsBounded
<1> SUFFICES ASSUME HttpInv PROVE BodyIsBounded
    OBVIOUS
<1>1. CASE http \in UNION {Unread(code) : code \in {0, 200, 413, 429}}
    BY <1>1, BodyAssumption DEF BodyIsBounded, WithinTheLimit, TooLargeIsRefused, Unread, Exchange
<1>2. CASE http \in Read
    <2>1. PICK body \in Bodies :
              http = Exchange(Answered(Taken(body)), Size(body) > MaxBytes, Taken(body).delivered, TRUE)
        BY <1>2 DEF Read
    <2>2. Taken(body).over \in BOOLEAN /\ CountedSoFar(Taken(body), Size(body))
        BY BodyIsCounted
    <2>3. Size(body) \in Nat
        <3>1. Len(body) \in Nat
            BY Chunks
        <3>2. Len(body) \in 0..Len(body)
            BY <3>1
        <3> QED BY <3>2, SizeRuns
    <2>4. /\ http.delivered = Taken(body).delivered /\ http.large = (Size(body) > MaxBytes)
          /\ http.code = Answered(Taken(body))
        BY <2>1 DEF Exchange
    <2> QED BY <2>2, <2>3, <2>4, BodyAssumption
            DEF BodyIsBounded, WithinTheLimit, TooLargeIsRefused, CountedSoFar, Answered
<1> QED BY <1>1, <1>2 DEF HttpInv

LEMMA HttpStep == HttpInv /\ [StackNext]_stackVars => HttpInv'
<1> SUFFICES ASSUME HttpInv, [StackNext]_stackVars PROVE HttpInv'
    OBVIOUS
<1>1. ASSUME NEW c \in Clients, NEW b \in Buckets, Handle(c, b) PROVE HttpInv'
    BY <1>1 DEF Handle, HttpInv, Answered, Nothing
<1>2. CASE StackTick
    BY <1>2 DEF StackTick, HttpInv, NoExchange, Unread, Exchange
<1>3. CASE RefuseDeclared
    BY <1>3 DEF RefuseDeclared, HttpInv
<1>4. CASE PassExempt
    BY <1>4 DEF PassExempt, HttpInv, Answered, Nothing
<1>5. CASE UNCHANGED stackVars
    BY <1>5 DEF stackVars, HttpInv
<1> QED BY <1>1, <1>2, <1>3, <1>4, <1>5 DEF StackNext

\* However a body is cut into pieces and whatever length was declared: an application
\* gets no more of it than the limit, and a body over the limit that it reads is
\* answered 413, one within it is not (middleware.py:48-75).
THEOREM BodiesAreBounded == StackSpec => []BodyIsBounded
<1>1. StackInit => HttpInv
    BY DEF StackInit, HttpInv, NoExchange, Unread, Exchange
<1> QED BY <1>1, HttpStep, ExchangesAreBounded, PTL DEF StackSpec

=============================================================================
