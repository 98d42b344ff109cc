------------------------------ MODULE Archives ------------------------------
(***************************************************************************)
(* What an archive holds and what its extraction refuses: engine/ingestion  *)
(* archive.py and limits.py for the ZIP of a provider, _git_archive_snapshot *)
(* for the tar of git.  Sizes are counted in chunks.                       *)
(***************************************************************************)
EXTENDS Naturals, Sequences, FiniteSets, SequencesExt

CONSTANTS
    MaxFiles, MaxExtracted, MaxArchive,   \* IngestionLimits
    Sizes                                 \* of files

ASSUME LimitsAssumption ==
    /\ MaxFiles \in Nat /\ MaxExtracted \in Nat /\ MaxArchive \in Nat
    /\ Sizes \subseteq Nat

\* A member with its declared and its real size; inside says that its path stays
\* under the root, target that of a link.
Members ==
    [kind : {"file"}, inside : BOOLEAN, declared : Sizes, size : Sizes, target : {TRUE}]
        \cup [kind : {"dir"}, inside : BOOLEAN, declared : {0}, size : {0}, target : {TRUE}]
        \cup [kind : {"link"}, inside : BOOLEAN, declared : {0}, size : {0}, target : BOOLEAN]
        \cup [kind : {"device"}, inside : {TRUE}, declared : {0}, size : {0}, target : {TRUE}]

\* Everything but a directory counts as a file when the ZIP is looked over.
Listed(members) == {i \in DOMAIN members : members[i].kind # "dir"}

Declared(members) == MapThenSumSet(LAMBDA i : members[i].declared, Listed(members))

\* The look before anything is written: the count, every path, the declared sum.
LooksGood(members) ==
    /\ Cardinality(Listed(members)) <= MaxFiles
    /\ \A i \in Listed(members) : members[i].inside
    /\ Declared(members) <= MaxExtracted

\* A member that fails the extraction: a device, a path or a link that escapes.
Rejected(m) == m.kind = "device" \/ ~m.inside \/ (m.kind = "link" /\ ~m.target)

\* git's tar: only regular files are looked at.
GitRejects(m, files, total) ==
    m.kind = "file" /\ (~m.inside \/ files + 1 > MaxFiles \/ total + m.size > MaxExtracted)

=============================================================================
