------------------------- MODULE RateLimiterHistory -------------------------
(***************************************************************************)
(* RateLimiter with a record of what its clients experienced: how many     *)
(* requests of each bucket were let through at each instant, and what a    *)
(* refused client was told.  The record restricts nothing.                 *)
(***************************************************************************)
EXTENDS RateLimiter, FiniteSets

VARIABLES
    admitted,   \* admitted[c][t][b]: requests let through at time t
    lost,       \* whether the cap has cost a client a window still open
    told        \* told[c]: the last refusal: made at, wait until, for which keys

vars == <<limiterVars, admitted, lost, told>>

NoRefusal == [made |-> 0, until |-> 0, keys |-> {}]

HistoryInit ==
    /\ Init
    /\ admitted = [c \in Clients |-> [t \in 0..MaxTime |-> [b \in Buckets |-> 0]]]
    /\ lost = FALSE
    /\ told = [c \in Clients |-> NoRefusal]

Request(c, b) ==
    /\ Check(c, b)
    /\ admitted' = IF reply'.allowed
                   THEN [admitted EXCEPT ![c][now][b] = @ + 1]
                   ELSE admitted
    /\ lost' = \/ lost
               \/ \E k \in Tracked \ DOMAIN win' : ~Expired(win[k])
               \/ \E n \in Counted(b) : <<c, n>> \notin Tracked \cup DOMAIN win'
    /\ told' = IF reply'.allowed THEN told
               ELSE [told EXCEPT ![c] =
                        [made |-> now,
                         until |-> now + Second * reply'.retryAfter,
                         keys |-> {k \in {<<c, n>> : n \in Counted(b)} \cap DOMAIN win' :
                                       win'[k].count > Limit[k[2]]}]]

HistoryNext ==
    \/ Tick /\ UNCHANGED <<admitted, lost, told>>
    \/ \E c \in Clients, b \in Buckets : Request(c, b)

HistorySpec == HistoryInit /\ [][HistoryNext]_vars

-----------------------------------------------------------------------------

\* "default" limits all the requests of a client, another bucket its own.
LimitedBy(b) == IF b = "default" THEN Buckets ELSE {b}

\* Tickets <<time, bucket, number>> for the requests of client c that were let
\* through and that bucket b limits.
Admitted(c, b) ==
    UNION {{<<t, n, i>> : i \in 1..admitted[c][t][n]} : t \in 0..MaxTime, n \in LimitedBy(b)}

\* Those of the window-long stretch from time t.
Admissions(c, b, t) == {x \in Admitted(c, b) : x[1] \in t..(t + Window - 1)}

\* rate_limit.py:12: a caller can burst up to ~2x the limit across a window
\* boundary.  Over any stretch as long as a window a client is never admitted
\* more often than that, whatever mix of buckets it asks for, until the
\* cap of the table makes it forget a window that is not over.
BurstBound ==
    ~lost => \A c \in Clients, b \in Buckets, t \in 0..MaxTime :
        Cardinality(Admissions(c, b, t)) <= 2 * Limit[b]

\* A client that waited the Retry-After seconds it was told finds every window
\* it had exhausted over, however often it asked in between, with the same proviso.
RetryAfterSuffices ==
    ~lost => \A c \in Clients : \A k \in told[c].keys :
        now >= told[c].until =>
            \/ k \notin Tracked
            \/ Expired(win[k])
            \/ win[k].start > told[c].made

=============================================================================
