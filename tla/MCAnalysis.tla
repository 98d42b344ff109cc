----------------------------- MODULE MCAnalysis -----------------------------
\* Instance of Analysis: calls at module level, in a function and in a method,
\* with 4, 5 and 6 parts of an impact chain; one call in the file, or two.
EXTENDS Analysis

CONSTANT f

MCPlaces ==
    {[function |-> NoName, class |-> FALSE, module |-> TRUE],
     [function |-> f, class |-> FALSE, module |-> TRUE],
     [function |-> f, class |-> TRUE, module |-> TRUE]}

\* Worth comparing: calls of one rule, which may be one finding, and a call of a
\* public-key rule with the shortest impact chain beside any hash or cipher.
Compared(m, n) ==
    \/ m.rule = n.rule
    \/ m.rule \notin {"AES", "HASH"} /\ m.function = NoName /\ n.rule \in {"AES", "HASH"}

MCFiles ==
    {{m} : m \in Sites}
        \cup UNION {{{m, n} : n \in {site \in Sites : site.line > m.line /\ Compared(m, site)}} :
                       m \in Sites}

=============================================================================
