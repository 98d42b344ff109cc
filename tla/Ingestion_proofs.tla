-------------------------- MODULE Ingestion_proofs --------------------------
(***************************************************************************)
(* Safety of an ingestion on every way, for any archive, any limits and    *)
(* any number of redirects: the disk is bounded, a result is of the whole  *)
(* of the requested commit, the token stays with the API and workspaces    *)
(* are removed.  One inductive invariant, one lemma for each way a step    *)
(* can leave, one for each kind of step.                                   *)
(***************************************************************************)
EXTENDS Ingestion, FiniteSetTheorems, TLAPS

\* The progress of an extraction, and where it has to be checked before.
Progress ==
    /\ way \in {"github", "git", "tree"}
    /\ members \in Seq(Members)
    /\ next \in Nat /\ written \in Nat /\ total \in Nat
    /\ \A i \in wrote : /\ i \in DOMAIN members
                        /\ members[i].kind = "file" /\ members[i].inside
    /\ way = "github" /\ next # 0 => LooksGood(members)
    /\ phase \in {"resolve", "download", "stream", "spawn"} => next = 0

\* The temporary file is there while it is filled, and gone with the extraction.
ArchiveInv ==
    /\ phase \in {"download", "stream"} => archive \in Nat
    /\ phase \in {"close", "hash", "verify", "analyse"} => archive = None

\* An analysis is of the requested commit; a tree is torn only at the end.
AnalysisInv ==
    /\ phase = "analyse" => resolved = "same"
    /\ torn => phase = "over" /\ outcome # "result"

IInv ==
    /\ TypeOK /\ Progress /\ DiskBounded
    /\ ArchiveInv /\ AnalysisInv
    /\ RightCommit /\ WorkspaceReleased /\ OnlyWorkspacesGo

-----------------------------------------------------------------------------
(* Finite counts of files *)

\* What is written lies in a finite set.
LEMMA WroteFinite ==
    ASSUME NEW n \in Nat, NEW S \in SUBSET (1..n)
    PROVE  IsFiniteSet(S) /\ Cardinality(S) \in Nat
<1>1. IsFiniteSet(1..n)
    BY FS_Interval
<1> QED BY <1>1, FS_Subset, FS_CardinalityType

\* Files that are listed are no more than the look before allows.
LEMMA ListedBounds ==
    ASSUME NEW ms \in Seq(Members), LooksGood(ms),
           NEW S \in SUBSET Listed(ms)
    PROVE  Cardinality(S) <= MaxFiles
<1>1. /\ Listed(ms) \in SUBSET (1..Len(ms))
      /\ Len(ms) \in Nat
    BY DEF Listed
<1>2. IsFiniteSet(Listed(ms)) /\ Cardinality(Listed(ms)) \in Nat
    BY <1>1, WroteFinite
<1>3. Cardinality(S) <= Cardinality(Listed(ms)) /\ Cardinality(S) \in Nat
    BY <1>2, FS_Subset, FS_CardinalityType
<1>4. Cardinality(Listed(ms)) <= MaxFiles /\ MaxFiles \in Nat
    BY LimitsAssumption DEF LooksGood
<1> QED BY <1>2, <1>3, <1>4

\* Every member has a size.
LEMMA MemberSize ==
    ASSUME NEW m \in Members
    PROVE  m.size \in Nat
<1>1. m.size \in Sizes \/ m.size = 0
    BY DEF Members
<1>2. Sizes \subseteq Nat
    BY LimitsAssumption, Zenon
<1>3. 0 \in Nat
    OBVIOUS
<1> QED BY <1>1, <1>2, <1>3, Zenon

-----------------------------------------------------------------------------
(* Initial states *)

LEMMA InitInv == Init => IInv
<1> SUFFICES ASSUME Init PROVE IInv
    OBVIOUS
<1>1. members \in Seq(Members)
    <2>1. CASE way = "tree"
        BY <2>1 DEF Init
    <2>2. CASE way # "tree"
        <3>1. members \in UNION {[1..m -> Members] : m \in 0..MaxMembers}
            BY <2>2 DEF Init, BoundedSeq, SeqOf
        <3>2. PICK m \in 0..MaxMembers : members \in [1..m -> Members]
            BY <3>1
        <3> QED BY <3>2, WaysAssumption
    <2> QED BY <2>1, <2>2
<1>2. TypeOK /\ Progress
    BY <1>1, WaysAssumption DEF Init, TypeOK, Progress
<1>3. Cardinality(wrote) = 0
    BY FS_EmptySet DEF Init
<1>4. DiskBounded
    BY <1>3, LimitsAssumption DEF Init, DiskBounded, files
<1>5. None # "result"
    BY OutcomesAssumption DEF Outcomes
<1>6. /\ ArchiveInv /\ AnalysisInv /\ RightCommit /\ WorkspaceReleased /\ OnlyWorkspacesGo
    BY <1>5 DEF Init, ArchiveInv, AnalysisInv, RightCommit, WorkspaceReleased, OnlyWorkspacesGo
<1> QED BY <1>2, <1>4, <1>6 DEF IInv

-----------------------------------------------------------------------------
(* The ways out *)

\* Whatever fails or is cancelled, the invariant survives.
LEMMA FailInv ==
    ASSUME IInv, phase # "over",
           NEW why \in Outcomes \ ({"result"} \cup Leaks), Fail(why)
    PROVE  IInv'
<1> USE DEF Fail, Over, extraction
<1>a. IInv
    OBVIOUS
<1>b. None \notin Nat /\ None \notin Outcomes
    BY WaysAssumption, OutcomesAssumption
<1>1. TypeOK'
    BY <1>a, <1>b DEF IInv, TypeOK, OwnsTree
<1>p. Progress'
    BY DEF IInv, Progress
<1>2. DiskBounded'
    BY DEF IInv, DiskBounded, files
<1>3. ArchiveInv' /\ AnalysisInv' /\ RightCommit'
    BY DEF IInv, ArchiveInv, AnalysisInv, RightCommit
<1>4. WorkspaceReleased' /\ OnlyWorkspacesGo'
    BY DEF IInv, TypeOK, WorkspaceReleased, OnlyWorkspacesGo, OwnsTree
<1> QED BY <1>1, <1>p, <1>2, <1>3, <1>4 DEF IInv

\* A way out that leaves the disk as it is: the archive was there only for a kill.
LEMMA LeaveBehindInv ==
    ASSUME IInv, phase # "over", NEW why \in Leaks, LeaveBehind(why),
           why # "killed" => archive = None
    PROVE  IInv'
<1> USE DEF LeaveBehind, extraction
<1>1. TypeOK'
    BY DEF IInv, TypeOK, Leaks, Outcomes, Leaks
<1>2. Progress' /\ DiskBounded'
    BY DEF IInv, Progress, DiskBounded, files
<1>3. ArchiveInv' /\ AnalysisInv' /\ RightCommit'
    BY DEF IInv, ArchiveInv, AnalysisInv, RightCommit, Leaks
<1>4. WorkspaceReleased' /\ OnlyWorkspacesGo'
    BY DEF IInv, WorkspaceReleased, OnlyWorkspacesGo
<1> QED BY <1>1, <1>2, <1>3, <1>4 DEF IInv

\* Progress by one member or one chunk, when it is within the limits.
LEMMA MovedInv ==
    ASSUME IInv, phase = "extract",
           NEW n \in Nat, NEW w \in Nat, NEW t \in Nat,
           NEW made \in SUBSET (DOMAIN members \cap 1..n),
           next <= n, t <= MaxExtracted, Cardinality(wrote \cup made) <= MaxFiles,
           \A i \in made : members[i].kind = "file" /\ members[i].inside,
           way = "github" => LooksGood(members),
           Moved(n, w, t, made)
    PROVE  IInv'
<1> USE DEF Moved
<1>a. TypeOK /\ Progress
    BY DEF IInv
<1>b. wrote \cup made \subseteq 1..n
    <2>1. wrote \subseteq 1..n
        BY <1>a DEF TypeOK, Progress
    <2>2. made \subseteq 1..n
        OBVIOUS
    <2> QED BY <2>1, <2>2
<1>1. TypeOK'
    BY <1>a, <1>b DEF TypeOK
<1>c. \A i \in wrote \cup made : /\ i \in DOMAIN members
                                  /\ members[i].kind = "file" /\ members[i].inside
    BY <1>a DEF Progress
<1>p. Progress'
    BY <1>a, <1>c DEF Progress
<1>2. DiskBounded'
    BY DEF IInv, DiskBounded, files
<1>3. ArchiveInv' /\ AnalysisInv' /\ RightCommit' /\ WorkspaceReleased' /\ OnlyWorkspacesGo'
    BY DEF IInv, ArchiveInv, AnalysisInv, RightCommit, WorkspaceReleased, OnlyWorkspacesGo
<1> QED BY <1>1, <1>p, <1>2, <1>3 DEF IInv

-----------------------------------------------------------------------------
(* The steps of the provider *)

\* The limits are natural numbers.
LEMMA Limits == MaxFiles \in Nat /\ MaxExtracted \in Nat /\ MaxArchive \in Nat
BY LimitsAssumption

LEMMA ResolveInv == IInv /\ Resolve => IInv'
<1> SUFFICES ASSUME IInv, Resolve PROVE IInv'
    OBVIOUS
<1>1. CASE \E why \in {"unavailable", "not_found", "os_error"} : Fail(why)
    BY <1>1, FailInv DEF Resolve, Outcomes, Leaks
<1>2. CASE Fail("unavailable")
    BY <1>2, FailInv DEF Resolve, Outcomes, Leaks
<1>3. CASE /\ resolved' = "same" /\ phase' = "download" /\ tree' = "workspace" /\ archive' = 0
           /\ UNCHANGED <<way, members, hops, host, extraction, reading, torn, outcome>>
    <2> USE <1>3 DEF Resolve, extraction
    <2>1. TypeOK' /\ Progress'
        BY WaysAssumption DEF IInv, TypeOK, Progress
    <2>2. DiskBounded'
        BY Limits DEF IInv, DiskBounded, files
    <2>3. ArchiveInv' /\ AnalysisInv' /\ RightCommit' /\ WorkspaceReleased' /\ OnlyWorkspacesGo'
        BY DEF IInv, TypeOK, ArchiveInv, AnalysisInv, RightCommit, WorkspaceReleased,
               OnlyWorkspacesGo
    <2> QED BY <2>1, <2>2, <2>3 DEF IInv
<1> QED BY <1>1, <1>2, <1>3 DEF Resolve, Extends

LEMMA DownloadInv == IInv /\ Download => IInv'
<1> SUFFICES ASSUME IInv, Download PROVE IInv'
    OBVIOUS
<1>1. CASE Fail("unavailable")
    BY <1>1, FailInv DEF Download, Outcomes, Leaks
<1>2. CASE Answered
    <2> USE <1>2 DEF Download, Answered, extraction
    <2>1. TypeOK' /\ Progress'
        BY DEF IInv, TypeOK, Progress
    <2>2. DiskBounded'
        BY DEF IInv, DiskBounded, files
    <2>3. ArchiveInv' /\ AnalysisInv' /\ RightCommit' /\ WorkspaceReleased' /\ OnlyWorkspacesGo'
        BY DEF IInv, TypeOK, ArchiveInv, AnalysisInv, RightCommit, WorkspaceReleased,
               OnlyWorkspacesGo
    <2> QED BY <2>1, <2>2, <2>3 DEF IInv
<1>3. ASSUME NEW h \in Hosts, ~(hops >= MaxRedirects),
             hops' = hops + 1, host' = h,
             UNCHANGED <<way, members, phase, resolved, archive, extraction, tree, reading,
                         torn, outcome>>
      PROVE  IInv'
    <2> USE <1>3 DEF Download, extraction
    <2>1. hops' \in 0..MaxRedirects
        BY WaysAssumption DEF IInv, TypeOK
    <2>2. TypeOK' /\ Progress'
        BY <2>1 DEF IInv, TypeOK, Progress
    <2>3. DiskBounded'
        BY DEF IInv, DiskBounded, files
    <2>4. ArchiveInv' /\ AnalysisInv' /\ RightCommit' /\ WorkspaceReleased' /\ OnlyWorkspacesGo'
        BY DEF IInv, TypeOK, ArchiveInv, AnalysisInv, RightCommit, WorkspaceReleased,
               OnlyWorkspacesGo
    <2> QED BY <2>2, <2>3, <2>4 DEF IInv
<1> QED BY <1>1, <1>2, <1>3 DEF Download, Redirected

LEMMA StreamInv == IInv /\ Stream => IInv'
<1> SUFFICES ASSUME IInv, Stream PROVE IInv'
    OBVIOUS
<1>1. CASE Fail("unavailable") \/ Fail("too_large")
    BY <1>1, FailInv DEF Stream, Outcomes, Leaks
<1>2. CASE /\ ~(archive + 1 > MaxArchive)
           /\ archive' = archive + 1
           /\ UNCHANGED <<way, members, phase, resolved, hops, host, extraction, tree,
                          reading, torn, outcome>>
    <2> USE <1>2 DEF Stream, extraction
    <2>1. archive \in Nat /\ archive # None
        BY WaysAssumption DEF IInv, ArchiveInv
    <2>2. archive' \in Nat /\ archive' <= MaxArchive
        BY <2>1, Limits
    <2>3. TypeOK' /\ Progress'
        BY <2>1, <2>2 DEF IInv, TypeOK, Progress
    <2>4. DiskBounded'
        BY <2>2 DEF IInv, DiskBounded, files
    <2>5. ArchiveInv' /\ AnalysisInv' /\ RightCommit' /\ WorkspaceReleased' /\ OnlyWorkspacesGo'
        BY <2>2 DEF IInv, TypeOK, ArchiveInv, AnalysisInv, RightCommit, WorkspaceReleased,
                    OnlyWorkspacesGo
    <2> QED BY <2>3, <2>4, <2>5 DEF IInv
<1>3. CASE /\ phase' = "extract"
           /\ UNCHANGED <<way, members, resolved, hops, host, archive, extraction, tree,
                          reading, torn, outcome>>
    <2> USE <1>3 DEF Stream, extraction
    <2>1. TypeOK' /\ Progress'
        BY DEF IInv, TypeOK, Progress
    <2>2. DiskBounded'
        BY DEF IInv, DiskBounded, files
    <2>3. ArchiveInv' /\ AnalysisInv' /\ RightCommit' /\ WorkspaceReleased' /\ OnlyWorkspacesGo'
        BY DEF IInv, TypeOK, ArchiveInv, AnalysisInv, RightCommit, WorkspaceReleased,
               OnlyWorkspacesGo
    <2> QED BY <2>1, <2>2, <2>3 DEF IInv
<1> QED BY <1>1, <1>2, <1>3 DEF Stream

-----------------------------------------------------------------------------
(* The extractions *)

LEMMA LookInv == IInv /\ Look => IInv'
<1> SUFFICES ASSUME IInv, Look PROVE IInv'
    OBVIOUS
<1>1. CASE LooksGood(members) /\ Moved(1, 0, 0, {})
    <2>1. wrote \cup {} = wrote /\ next <= 1 /\ phase = "extract"
        BY DEF Look
    <2>2. Cardinality(wrote \cup {}) <= MaxFiles
        BY <2>1 DEF IInv, DiskBounded, files
    <2> QED BY <1>1, <2>1, <2>2, MovedInv, Limits
<1>2. CASE Fail("unsafe")
    BY <1>2, FailInv DEF Look, Outcomes, Leaks
<1> QED BY <1>1, <1>2 DEF Look

\* A member that is passed over: nothing is written.
LEMMA SkipInv ==
    ASSUME IInv, phase = "extract", next \in DOMAIN members, Moved(next + 1, 0, total, {})
    PROVE  IInv'
<1>1. next \in Nat /\ next # 0 /\ total \in Nat
    BY DEF IInv, Progress
<1>2. way = "github" => LooksGood(members)
    BY <1>1 DEF IInv, Progress
<1>3. wrote \cup {} = wrote
    OBVIOUS
<1>4. total <= MaxExtracted /\ Cardinality(wrote \cup {}) <= MaxFiles
    BY <1>3 DEF IInv, DiskBounded, files
<1> QED BY <1>1, <1>2, <1>4, MovedInv

\* A member of a ZIP that becomes a file is one of those that were counted.
LEMMA ZipFileInv ==
    ASSUME IInv, way = "github", phase = "extract", next \in DOMAIN members,
           members[next].kind = "file", members[next].inside,
           NEW n \in {next, next + 1}, NEW w \in Nat, NEW t \in Nat, t <= MaxExtracted,
           Moved(n, w, t, {next})
    PROVE  IInv'
<1>1. next \in Nat /\ next # 0 /\ next \in 1..n /\ n \in Nat /\ next <= n
    BY DEF IInv, Progress
<1>2. LooksGood(members) /\ members \in Seq(Members)
    BY <1>1 DEF IInv, Progress
<1>3. wrote \cup {next} \in SUBSET Listed(members)
    BY DEF Listed, IInv, Progress
<1>4. Cardinality(wrote \cup {next}) <= MaxFiles
    BY <1>2, <1>3, ListedBounds
<1>5. {next} \in SUBSET (DOMAIN members \cap 1..n)
    BY <1>1
<1> QED BY <1>1, <1>2, <1>4, <1>5, MovedInv

LEMMA ExtractMemberInv == IInv /\ ExtractMember => IInv'
<1> SUFFICES ASSUME IInv, ExtractMember PROVE IInv'
    OBVIOUS
<1>1. /\ way = "github" /\ phase = "extract" /\ next \in DOMAIN members
      /\ next \in Nat /\ written \in Nat /\ total \in Nat /\ total <= MaxExtracted
    BY DEF ExtractMember, IInv, Progress, DiskBounded
<1>2. CASE Fail("unsafe") \/ Fail("too_large")
    BY <1>1, <1>2, FailInv DEF Outcomes, Leaks
<1>3. CASE Moved(next + 1, 0, total, {})
    BY <1>1, <1>3, SkipInv
<1>4. CASE ~Rejected(Current) /\ Current.kind = "file" /\ Moved(next + 1, 0, total, {next})
    BY <1>1, <1>4, ZipFileInv DEF Current, Rejected
<1>5. CASE /\ ~Rejected(Current) /\ Current.kind = "file" /\ Fits
           /\ Moved(next, written + 1, total + 1, {next})
    <2>1. written + 1 \in Nat /\ total + 1 \in Nat /\ total + 1 <= MaxExtracted
        BY <1>1, <1>5 DEF Fits
    <2> QED BY <1>1, <1>5, <2>1, ZipFileInv DEF Current, Rejected
<1> QED BY <1>2, <1>3, <1>4, <1>5 DEF ExtractMember

LEMMA GitMemberInv == IInv /\ GitMember => IInv'
<1> SUFFICES ASSUME IInv, GitMember PROVE IInv'
    OBVIOUS
<1>1. /\ way = "git" /\ phase = "extract" /\ next \in DOMAIN members
      /\ next \in Nat /\ total \in Nat /\ members \in Seq(Members)
    BY DEF GitMember, IInv, Progress
<1>2. CASE Fail("scan_failed")
    BY <1>1, <1>2, FailInv DEF Outcomes, Leaks
<1>3. CASE Moved(next + 1, 0, total, {})
    BY <1>1, <1>3, SkipInv
<1>4. CASE /\ ~GitRejects(Current, files, total) /\ Current.kind = "file"
           /\ Moved(next + 1, 0, total + Current.size, {next})
    <2>1. Current \in Members
        BY <1>1 DEF Current
    <2>2. Current.size \in Nat
        BY <2>1, MemberSize
    <2>3. wrote \in SUBSET (1..next)
        BY DEF IInv, TypeOK
    <2>4. IsFiniteSet(wrote) /\ files \in Nat
        BY <1>1, <2>3, WroteFinite DEF files
    <2>5. /\ Current.inside /\ files + 1 <= MaxFiles
          /\ total + Current.size <= MaxExtracted
        BY <1>1, <1>4, <2>2, <2>4, Limits DEF GitRejects
    <2>6. Cardinality(wrote \cup {next}) = IF next \in wrote THEN files ELSE files + 1
        BY <2>4, FS_AddElement, Zenon DEF files
    <2>7. Cardinality(wrote \cup {next}) \in Nat
        BY <2>4, <2>6
    <2>8. Cardinality(wrote \cup {next}) <= MaxFiles
        BY <2>4, <2>5, <2>6, <2>7, Limits
    <2>9. /\ next + 1 \in Nat /\ total + Current.size \in Nat /\ next <= next + 1
          /\ {next} \in SUBSET (DOMAIN members \cap 1..(next + 1))
        BY <1>1, <2>2
    <2>10. \A i \in {next} : members[i].kind = "file" /\ members[i].inside
        BY <1>4, <2>5 DEF Current
    <2>11. way # "github" /\ 0 \in Nat
        BY <1>1
    <2>12. Moved(next + 1, 0, total + Current.size, {next})
        BY <1>4
    <2> QED BY <1>1, <2>5, <2>8, <2>9, <2>10, <2>11, <2>12, MovedInv
<1> QED BY <1>2, <1>3, <1>4 DEF GitMember

-----------------------------------------------------------------------------
(* Steps that leave the extraction alone *)

\* They keep the progress and the limits.
LEMMA QuietInv ==
    ASSUME IInv, UNCHANGED <<way, members, extraction>>, archive' \in {archive, None},
           phase' \notin {"resolve", "download", "stream", "spawn"}
    PROVE  Progress' /\ DiskBounded'
<1>1. Progress'
    BY DEF IInv, Progress, extraction
<1>2. DiskBounded'
    BY DEF IInv, DiskBounded, files, extraction
<1> QED BY <1>1, <1>2

LEMMA GitResolveInv == IInv /\ GitResolve => IInv'
<1> SUFFICES ASSUME IInv, GitResolve PROVE IInv'
    OBVIOUS
<1>1. CASE \E why \in {"usage", "os_error"} : Fail(why)
    BY <1>1, FailInv DEF GitResolve, Outcomes, Leaks
<1>2. CASE ~(\E why \in {"usage", "os_error"} : Fail(why))
    <2> USE <1>2 DEF GitResolve, extraction
    <2>1. TypeOK' /\ Progress'
        BY DEF IInv, TypeOK, Progress
    <2>2. DiskBounded'
        BY DEF IInv, DiskBounded, files
    <2>3. ArchiveInv' /\ AnalysisInv' /\ RightCommit' /\ WorkspaceReleased' /\ OnlyWorkspacesGo'
        BY DEF IInv, TypeOK, ArchiveInv, AnalysisInv, RightCommit, WorkspaceReleased,
               OnlyWorkspacesGo
    <2> QED BY <2>1, <2>2, <2>3 DEF IInv
<1> QED BY <1>1, <1>2

\* Outside the provider there is no archive file.
LEMMA NoArchive == IInv /\ (way # "github" \/ phase = "close") => archive = None
BY DEF IInv, TypeOK, ArchiveInv

LEMMA SpawnInv == IInv /\ Spawn => IInv'
<1> SUFFICES ASSUME IInv, Spawn PROVE IInv'
    OBVIOUS
<1>1. CASE LeaveBehind("spawning")
    <2>1. archive = None
        BY NoArchive DEF Spawn
    <2> QED BY <1>1, <2>1, LeaveBehindInv DEF Spawn, Leaks
<1>2. CASE /\ phase' = "extract" /\ next' = 1
           /\ UNCHANGED <<way, members, resolved, hops, host, sent, archive, written, total,
                          wrote, tree, torn, outcome>>
    <2> USE <1>2 DEF Spawn
    <2>1. wrote = {} /\ next = 0
        BY DEF IInv, TypeOK, Progress
    <2>2. TypeOK'
        BY <2>1 DEF IInv, TypeOK
    <2>3. Progress' /\ DiskBounded'
        BY <2>1 DEF IInv, Progress, DiskBounded, files
    <2>4. ArchiveInv' /\ AnalysisInv' /\ RightCommit' /\ WorkspaceReleased' /\ OnlyWorkspacesGo'
        BY DEF IInv, TypeOK, ArchiveInv, AnalysisInv, RightCommit, WorkspaceReleased,
               OnlyWorkspacesGo
    <2> QED BY <2>2, <2>3, <2>4 DEF IInv
<1> QED BY <1>1, <1>2 DEF Spawn

\* The extraction or the opening is over, and the snapshot is described.
LEMMA DescribeInv == IInv /\ (Extracted \/ GitExtracted \/ OpenTree) => IInv'
<1> SUFFICES ASSUME IInv, Extracted \/ GitExtracted \/ OpenTree PROVE IInv'
    OBVIOUS
<1> USE DEF Extracted, GitExtracted, OpenTree
<1>1. /\ UNCHANGED <<way, members, extraction>> /\ archive' = None
      /\ phase' \in {"close", "hash"} /\ archive' \in {archive, None}
    BY DEF IInv, TypeOK
<1>2. TypeOK'
    BY <1>1 DEF IInv, TypeOK, extraction
<1>3. Progress' /\ DiskBounded'
    BY <1>1, QuietInv
<1>4. ArchiveInv' /\ AnalysisInv' /\ RightCommit' /\ WorkspaceReleased' /\ OnlyWorkspacesGo'
    BY <1>1 DEF IInv, TypeOK, ArchiveInv, AnalysisInv, RightCommit, WorkspaceReleased,
                OnlyWorkspacesGo
<1> QED BY <1>2, <1>3, <1>4 DEF IInv

\* The client's block is left.
LEMMA CloseInv == IInv /\ Close => IInv'
<1> SUFFICES ASSUME IInv, Close PROVE IInv'
    OBVIOUS
<1>1. CASE LeaveBehind("closing")
    BY <1>1, NoArchive, LeaveBehindInv DEF Close, Leaks
<1>2. CASE /\ phase' = "hash"
           /\ UNCHANGED <<way, members, resolved, hops, host, sent, archive, extraction, tree,
                          torn, outcome>>
    <2> USE <1>2 DEF Close
    <2>1. /\ UNCHANGED <<way, members, extraction>> /\ archive' \in {archive, None}
          /\ phase' = "hash"
        OBVIOUS
    <2>2. TypeOK'
        BY <2>1 DEF IInv, TypeOK, extraction
    <2>3. Progress' /\ DiskBounded'
        BY <2>1, QuietInv
    <2>4. ArchiveInv' /\ AnalysisInv' /\ RightCommit' /\ WorkspaceReleased' /\ OnlyWorkspacesGo'
        BY DEF IInv, TypeOK, ArchiveInv, AnalysisInv, RightCommit, WorkspaceReleased,
               OnlyWorkspacesGo
    <2> QED BY <2>2, <2>3, <2>4 DEF IInv
<1> QED BY <1>1, <1>2 DEF Close

LEMMA HashInv == IInv /\ Hash => IInv'
<1> SUFFICES ASSUME IInv, Hash PROVE IInv'
    OBVIOUS
<1>1. CASE Fail("scan_failed")
    BY <1>1, FailInv DEF Hash, Outcomes, Leaks
<1>2. CASE LeaveBehind("hash_failed")
    <2>1. archive = None
        BY DEF Hash, IInv, ArchiveInv
    <2> QED BY <1>2, <2>1, LeaveBehindInv DEF Hash, Leaks
<1>3. CASE /\ phase' = "verify"
           /\ UNCHANGED <<way, members, resolved, hops, host, archive, extraction, tree,
                          reading, torn, outcome>>
    <2> USE <1>3 DEF Hash
    <2>1. /\ UNCHANGED <<way, members, extraction>> /\ archive' \in {archive, None}
          /\ phase' = "verify"
        OBVIOUS
    <2>2. TypeOK'
        BY <2>1 DEF IInv, TypeOK, extraction
    <2>3. Progress' /\ DiskBounded'
        BY <2>1, QuietInv
    <2>4. ArchiveInv' /\ AnalysisInv' /\ RightCommit' /\ WorkspaceReleased' /\ OnlyWorkspacesGo'
        BY DEF IInv, TypeOK, ArchiveInv, AnalysisInv, RightCommit, WorkspaceReleased,
               OnlyWorkspacesGo
    <2> QED BY <2>2, <2>3, <2>4 DEF IInv
<1> QED BY <1>1, <1>2, <1>3 DEF Hash

LEMMA VerifyInv == IInv /\ Verify => IInv'
<1> SUFFICES ASSUME IInv, Verify PROVE IInv'
    OBVIOUS
<1>1. CASE Fail("scan_failed") \/ Fail("unavailable")
    BY <1>1, FailInv DEF Verify, Outcomes, Leaks
<1>2. CASE ~Fail("scan_failed") /\ Extends(resolved)
    <2> USE <1>2 DEF Verify, Extends
    <2>1. /\ UNCHANGED <<way, members, extraction>> /\ archive' \in {archive, None}
          /\ phase' = "analyse"
        OBVIOUS
    <2>2. TypeOK'
        BY <2>1 DEF IInv, TypeOK, extraction
    <2>3. Progress' /\ DiskBounded'
        BY <2>1, QuietInv
    <2>4. ArchiveInv' /\ AnalysisInv' /\ RightCommit' /\ WorkspaceReleased' /\ OnlyWorkspacesGo'
        BY DEF IInv, TypeOK, ArchiveInv, AnalysisInv, RightCommit, WorkspaceReleased,
               OnlyWorkspacesGo
    <2> QED BY <2>2, <2>3, <2>4 DEF IInv
<1> QED BY <1>1, <1>2 DEF Verify

\* The end of an analysis, of a thread that outlived it, and an interrupt that
\* leaves the try.
InterruptedInside ==
    /\ way # "github" /\ phase # "over"
    /\ phase' = "over" /\ outcome' = "interrupted"
    /\ tree' = IF OwnsTree THEN "gone" ELSE tree
    /\ UNCHANGED <<way, members, resolved, hops, host, sent, archive, extraction, torn>>

LEMMA EndInv == IInv /\ (Analysed \/ ThreadEnds \/ InterruptedInside) => IInv'
<1> SUFFICES ASSUME IInv, Analysed \/ ThreadEnds \/ InterruptedInside PROVE IInv'
    OBVIOUS
<1> USE DEF Analysed, ThreadEnds, InterruptedInside
<1>1. /\ UNCHANGED <<way, members, extraction>> /\ archive' \in {archive, None}
      /\ phase' = "over"
    OBVIOUS
<1>2. TypeOK'
    BY <1>1 DEF IInv, TypeOK, extraction, Outcomes, OwnsTree
<1>3. Progress' /\ DiskBounded'
    BY <1>1, QuietInv
<1>4. ArchiveInv' /\ AnalysisInv' /\ RightCommit'
    BY DEF IInv, TypeOK, ArchiveInv, AnalysisInv, RightCommit
<1>5. WorkspaceReleased' /\ OnlyWorkspacesGo'
    BY NoArchive DEF IInv, TypeOK, ArchiveInv, WorkspaceReleased, OnlyWorkspacesGo, OwnsTree
<1> QED BY <1>2, <1>3, <1>4, <1>5 DEF IInv

\* A cancellation, an interrupt and a kill, wherever they fall.
LEMMA BreakInv == IInv /\ (Cancel \/ Interrupt \/ Kill) => IInv'
<1> SUFFICES ASSUME IInv, Cancel \/ Interrupt \/ Kill PROVE IInv'
    OBVIOUS
<1>1. CASE Kill
    BY <1>1, LeaveBehindInv DEF Kill, Leaks
<1>2. CASE Cancel
    <2>1. CASE phase # "over" /\ Fail("cancelled")
        BY <2>1, FailInv DEF Outcomes, Leaks
    <2>2. CASE phase = "close" /\ LeaveBehind("closing")
        BY <2>2, NoArchive, LeaveBehindInv DEF Leaks
    <2> QED BY <1>2, <2>1, <2>2 DEF Cancel
<1>3. CASE Interrupt
    <2>1. way # "github" /\ phase # "over"
        BY <1>3 DEF Interrupt
    <2>2. CASE InterruptedInside
        BY <2>2, EndInv
    <2>3. CASE \E why \in {"spawning", "removing"} : LeaveBehind(why)
        BY <2>1, <2>3, NoArchive, LeaveBehindInv DEF Leaks
    <2> QED BY <1>3, <2>1, <2>2, <2>3 DEF Interrupt, InterruptedInside
<1> QED BY <1>1, <1>2, <1>3

-----------------------------------------------------------------------------
(* The invariant *)

LEMMA StepInv == IInv /\ [Next]_vars => IInv'
<1> SUFFICES ASSUME IInv, [Next]_vars PROVE IInv'
    OBVIOUS
<1>1. CASE UNCHANGED vars
    <2> USE <1>1 DEF vars, extraction
    <2>1. TypeOK' /\ Progress' /\ DiskBounded'
        BY DEF IInv, TypeOK, Progress, DiskBounded, files
    <2>2. ArchiveInv' /\ AnalysisInv' /\ RightCommit' /\ WorkspaceReleased' /\ OnlyWorkspacesGo'
        BY DEF IInv, ArchiveInv, AnalysisInv, RightCommit, WorkspaceReleased, OnlyWorkspacesGo
    <2> QED BY <2>1, <2>2 DEF IInv
<1>2. CASE ExtractFails
    BY <1>2, FailInv DEF ExtractFails, Outcomes, Leaks
<1>3. CASE Steps
    BY <1>3, <1>2, ResolveInv, DownloadInv, StreamInv, LookInv, ExtractMemberInv, GitResolveInv,
       SpawnInv, GitMemberInv, DescribeInv, CloseInv, HashInv, VerifyInv, EndInv DEF Steps
<1> QED BY <1>1, <1>3, BreakInv DEF Next

\* The inductive invariant holds on every way and for every archive.
THEOREM Inductive == Spec => []IInv
BY InitInv, StepInv, PTL DEF Spec

\* For any archive and any limits the disk stays bounded at every moment and only
\* members under the root become files (engine/ingestion/archive.py, cli/local.py).
THEOREM DiskIsBounded == Spec => []ExtractionInv
<1>1. IInv => ExtractionInv
    BY DEF IInv, Progress, ExtractionInv, NothingOutside
<1> QED BY <1>1, Inductive, PTL

\* A result is of the requested commit and of a whole tree (service.py,
\* verify_snapshot, the worker's thread).
THEOREM ResultsAreRight == Spec => []ResultIsRight
<1>1. IInv => ResultIsRight
    BY DEF IInv, AnalysisInv, ResultIsRight, WholeTree
<1> QED BY <1>1, Inductive, PTL

\* Only directories the program made are removed, and they are, on every error,
\* cancellation and interrupt but the five ways out of Leaks, which the code leaves
\* outside its try blocks (client.py:79-88, local.py:249-302).
THEOREM WorkspacesAreRemoved == Spec => []CleanUp
<1>1. IInv => CleanUp
    BY DEF IInv, CleanUp
<1> QED BY <1>1, Inductive, PTL

\* However the provider redirects, the token goes to the API and no host that is
\* not on the list is asked (_download, _validate_url).
THEOREM TokenIsKept == Spec => []TokenStaysHome
<1>1. Init => TokenStaysHome
    BY DEF Init, TokenStaysHome
<1>2. TokenStaysHome /\ [Next]_vars => TokenStaysHome'
    <2> SUFFICES ASSUME TokenStaysHome, [Next]_vars PROVE TokenStaysHome'
        OBVIOUS
    <2>1. CASE UNCHANGED sent
        BY <2>1 DEF TokenStaysHome
    <2>2. CASE Ask("api")
        BY <2>2 DEF Ask, TokenStaysHome, Allowed
    <2>3. CASE Allowed(host) /\ Ask(host)
        <3>1. ASSUME NEW s \in sent' PROVE Allowed(s.host) /\ (s.token => s.host = "api")
            <4>1. CASE s \in sent
                BY <4>1 DEF TokenStaysHome
            <4>2. CASE s = [host |-> host, token |-> host = "api"]
                <5>1. s.host = host /\ s.token = (host = "api")
                    BY <4>2
                <5> QED BY <2>3, <5>1, Zenon
            <4> QED BY <2>3, <4>1, <4>2, <3>1 DEF Ask
        <3> QED BY <3>1 DEF TokenStaysHome
    <2>4. UNCHANGED sent \/ Ask("api") \/ (Allowed(host) /\ Ask(host))
        <3>1. CASE Resolve
            BY <3>1 DEF Resolve
        <3>2. CASE Download
            BY <3>2 DEF Download
        <3>3. CASE Look \/ ExtractMember \/ GitMember
            BY <3>3 DEF Look, ExtractMember, GitMember, Moved
        <3>4. CASE Stream \/ ExtractFails \/ Extracted \/ GitResolve \/ GitExtracted \/ OpenTree
            BY <3>4 DEF Stream, ExtractFails, Extracted, GitResolve, GitExtracted, OpenTree
        <3>5. CASE Close \/ Spawn \/ Interrupt \/ Kill
            BY <3>5 DEF Close, Spawn, Interrupt, Kill, LeaveBehind
        <3>6. CASE Hash \/ Verify \/ Analysed \/ ThreadEnds \/ Cancel
            BY <3>6 DEF Hash, Verify, Analysed, ThreadEnds, Cancel, LeaveBehind
        <3>7. CASE UNCHANGED vars
            BY <3>7 DEF vars
        <3> QED BY <3>1, <3>2, <3>3, <3>4, <3>5, <3>6, <3>7 DEF Next, Steps
    <2> QED BY <2>1, <2>2, <2>3, <2>4
<1> QED BY <1>1, <1>2, PTL DEF Spec

=============================================================================
