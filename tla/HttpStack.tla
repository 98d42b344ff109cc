----------------------------- MODULE HttpStack ------------------------------
(***************************************************************************)
(* A request through the middleware in the order of create_app (main.py):  *)
(* the limit on the body outside, the rate limiter inside, the application *)
(* last.  A request has no state of its own that another one sees, so it   *)
(* is one step.                                                            *)
(***************************************************************************)
EXTENDS RateLimiterHistory, BodySizeLimit

VARIABLE http   \* the last exchange

stackVars == <<vars, http>>

NoExchange == [code |-> 0, large |-> FALSE, delivered |-> 0, reads |-> FALSE]

StackInit == HistoryInit /\ http = NoExchange

Exchange(code, large, delivered, reads) ==
    [code |-> code, large |-> large, delivered |-> delivered, reads |-> reads]

\* Declarations that pass the first look at the headers.
Passable == {length \in Lengths : ~DeclaredTooLarge(length)}

\* Nobody reads the body; its size does not matter.
Unread(code) == {Exchange(code, FALSE, 0, FALSE)}

\* Handed to the application.
Read ==
    {LET taken == Taken(body)
     IN Exchange(Answered(taken), Size(body) > MaxBytes, taken.delivered, TRUE) :
         body \in Bodies}

\* Refused before the limiter sees it: it costs the client nothing.
RefuseDeclared ==
    /\ Lengths \ Passable # {}
    /\ http' \in Unread(413)
    /\ UNCHANGED vars

\* A preflight or a health probe: the limiter does not count it.
PassExempt ==
    /\ http' \in Unread(Answered(Nothing))
    /\ UNCHANGED vars

\* Counted, and refused or handed to the application, which may not read the body.
Handle(c, b) ==
    /\ Passable # {}
    /\ Request(c, b)
    /\ http' \in IF reply'.allowed THEN Read \cup Unread(Answered(Nothing)) ELSE Unread(429)

StackTick ==
    /\ Tick
    /\ http' = NoExchange
    /\ UNCHANGED <<admitted, lost, told>>

StackNext ==
    \/ StackTick \/ RefuseDeclared \/ PassExempt
    \/ \E c \in Clients, b \in Buckets : Handle(c, b)

StackSpec == StackInit /\ [][StackNext]_stackVars

-----------------------------------------------------------------------------

\* middleware.py:26: an application that reads its body never gets more of it
\* than the limit, in however many pieces it comes and whatever was declared.
WithinTheLimit == http.delivered <= MaxBytes

\* A body over the limit that somebody wanted to read is answered 413 (or 429),
\* and a body within it is not.
TooLargeIsRefused ==
    http.reads => (http.code = 413 <=> http.large)

\* The limit on the body, of what is taken in and of what is answered.
BodyIsBounded == WithinTheLimit /\ TooLargeIsRefused

=============================================================================
