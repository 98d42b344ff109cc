---------------------------- MODULE RateLimiter -----------------------------
(***************************************************************************)
(* The fixed-window limiter of app/rate_limit.py.  check() runs under one  *)
(* lock, so it is one action; the clock moves between checks.  A key is a  *)
(* (client, bucket) pair; the OrderedDict is the sequence of its keys, the *)
(* next one to evict first, and a function from those keys to their window. *)
(***************************************************************************)
EXTENDS Naturals, SequencesExt

CONSTANTS
    Clients,
    DefaultMax, WriteMax, ExpensiveMax,   \* requests a window of a bucket admits
    Window,       \* length of a window, in clock ticks
    Second,       \* clock ticks in a second (Retry-After is in seconds)
    MaxTracked,   \* max_tracked_clients
    MaxTime,      \* bound on the clock
    MaxOver       \* bound on the refusals counted in one window

Buckets == {"default", "write", "expensive"}
Keys == Clients \X Buckets

ASSUME LimiterAssumption ==
    /\ {DefaultMax, WriteMax, ExpensiveMax} \subseteq Nat \ {0}
    /\ {Window, Second, MaxTracked} \subseteq Nat \ {0}
    /\ {MaxTime, MaxOver} \subseteq Nat

Limit == [default |-> DefaultMax, write |-> WriteMax, expensive |-> ExpensiveMax]

VARIABLES
    now,      \* the monotonic clock
    order,    \* keys of _windows, oldest position first
    win,      \* win[k]: start and count of the window of a tracked key
    reply     \* what the last check returned, and to whom

limiterVars == <<now, order, win, reply>>

Windows == [start : 0..MaxTime, count : Nat]
NoReply == [client |-> "none", allowed |-> TRUE, retryAfter |-> 0]

Tracked == {order[i] : i \in 1..Len(order)}

Expired(w) == now - w.start >= Window

Without(q, k) == RemoveAt(q, CHOOSE i \in DOMAIN q : q[i] = k)

\* Defect for RetryAfterSuffices: rounded down.
Floor(t) == t \div Second

\* Ticks to whole seconds, rounded up.
Ceil(t) == (t + Second - 1) \div Second

-----------------------------------------------------------------------------

Init ==
    /\ now = 0
    /\ order = <<>>
    /\ win = <<>>
    /\ reply = NoReply

\* One name of the loop in check(): a fresh window keeps the position its key
\* had, or is appended; only a live one is moved to the end.
Touch(t, k) ==
    LET known == k \in {t.order[i] : i \in 1..Len(t.order)} IN
    IF known /\ ~Expired(t.win[k])
    THEN [order |-> Append(Without(t.order, k), k),
          win |-> [t.win EXCEPT ![k].count = @ + 1]]
    ELSE [order |-> IF known THEN t.order ELSE Append(t.order, k),
          win |-> [j \in DOMAIN t.win \cup {k} |->
                       IF j = k THEN [start |-> now, count |-> 1] ELSE t.win[j]]]

\* Defect for TypeOK: the cap is tested before the last key is counted.
EvictLate(t) ==
    LET extra == IF Len(t.order) > MaxTracked + 1
                 THEN Len(t.order) - MaxTracked - 1 ELSE 0
        kept == SubSeq(t.order, extra + 1, Len(t.order))
    IN [order |-> kept,
        win |-> [k \in {kept[i] : i \in 1..Len(kept)} |-> t.win[k]]]

\* popitem(last=False) until the cap is met.
Evict(t) ==
    LET extra == IF Len(t.order) > MaxTracked THEN Len(t.order) - MaxTracked ELSE 0
        kept == SubSeq(t.order, extra + 1, Len(t.order))
    IN [order |-> kept,
        win |-> [k \in {kept[i] : i \in 1..Len(kept)} |-> t.win[k]]]

\* Defect for BurstBound: a request counts against its own bucket only.
CountedOnce(b) == {b}

\* The buckets a request is counted against.
Counted(b) == {b, "default"}

\* The bound on refusals: a client stops asking in a window that refused it
\* MaxOver times.
Bounded(k) ==
    k \in Tracked /\ ~Expired(win[k]) => win[k].count < Limit[k[2]] + MaxOver

\* check(): the request's own bucket and "default", in either order (they are
\* members of a set), then the eviction.
Check(c, b) ==
    LET names == Counted(b)
        table == [order |-> order, win |-> win]
    IN
    /\ \A n \in names : Bounded(<<c, n>>)
    /\ \E first \in names, second \in names :
        /\ {first, second} = names
        /\ LET one == Touch(table, <<c, first>>)
               both == IF first = second THEN one ELSE Touch(one, <<c, second>>)
               over == {n \in names : both.win[<<c, n>>].count > Limit[n]}
               waits == {Ceil(Window - (now - both.win[<<c, n>>].start)) : n \in over}
               kept == Evict(both)
           IN
           /\ order' = kept.order
           /\ win' = kept.win
           /\ reply' = [client |-> c,
                        allowed |-> over = {},
                        retryAfter |->
                            IF over = {} THEN 0
                            ELSE CHOOSE w \in waits : \A v \in waits : v <= w]
    /\ UNCHANGED now

Tick ==
    /\ now < MaxTime
    /\ now' = now + 1
    /\ UNCHANGED <<order, win, reply>>

Next == Tick \/ \E c \in Clients, b \in Buckets : Check(c, b)

Spec == Init /\ [][Next]_limiterVars

-----------------------------------------------------------------------------

\* The OrderedDict is one: keys are distinct, each has a window, and there are
\* never more than max_tracked_clients of them between checks.
TypeOK ==
    /\ now \in 0..MaxTime
    /\ Len(order) <= MaxTracked
    /\ Cardinality(Tracked) = Len(order)
    /\ Tracked \subseteq Keys
    /\ DOMAIN win = Tracked
    /\ \A k \in Tracked : win[k] \in Windows

=============================================================================
