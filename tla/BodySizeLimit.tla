--------------------------- MODULE BodySizeLimit ----------------------------
(***************************************************************************)
(* middleware.py: what the application sees of a request body that comes   *)
(* in pieces, with a declared length that may be missing or too small.     *)
(***************************************************************************)
EXTENDS Naturals, Sequences, SequencesExt

CONSTANTS
    MaxBytes,
    ChunkSizes,   \* of the pieces of a body
    MaxChunks,    \* bound: pieces of a body
    NoLength      \* no Content-Length, or one that is no number

ASSUME BodyAssumption ==
    /\ MaxBytes \in Nat /\ ChunkSizes \subseteq Nat /\ MaxChunks \in Nat

Bodies == BoundedSeq(ChunkSizes, MaxChunks)
Size(body) ==
    LET size[n \in 0..Len(body)] == IF n = 0 THEN 0 ELSE size[n - 1] + body[n]
    IN size[Len(body)]

\* A length is declared, or not, whatever the body is.
Lengths == {NoLength, MaxBytes, MaxBytes + 1}

DeclaredTooLarge(length) == length # NoLength /\ length > MaxBytes

Nothing == [received |-> 0, over |-> FALSE, delivered |-> 0]

\* Defect for BodyIsBounded: the piece that overruns is passed on.
ReceiveThenCount(state, chunk) ==
    IF state.over THEN state
    ELSE [received |-> state.received + chunk,
          over |-> state.received + chunk > MaxBytes,
          delivered |-> state.delivered + chunk]

\* limited_receive: the piece that overruns is emptied and made the last one, so
\* that the application takes what it has for the whole body.
Receive(state, chunk) ==
    LET total == state.received + chunk IN
    IF state.over THEN state
    ELSE [received |-> total,
          over |-> total > MaxBytes,
          delivered |-> IF total > MaxBytes THEN state.delivered ELSE state.delivered + chunk]

Taken(body) ==
    LET state[n \in 0..Len(body)] == IF n = 0 THEN Nothing ELSE Receive(state[n - 1], body[n])
    IN state[Len(body)]

\* guarded_send drops the answer of the application when the body overran.
Answered(taken) == IF taken.over THEN 413 ELSE 200

=============================================================================
