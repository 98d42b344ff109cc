----------------------------- MODULE Ingestion ------------------------------
(***************************************************************************)
(* From a request to an analysed source tree, on three ways: a commit from *)
(* the provider (integrations/github, engine/ingestion/service.py), a      *)
(* commit from a local repository and a working tree (cli/local.py).       *)
(***************************************************************************)
EXTENDS Archives

CONSTANTS
    Ways,          \* of "github", "git" and "tree"
    MaxMembers,    \* bound: members of an archive
    MaxRedirects,
    None

ASSUME WaysAssumption ==
    /\ Ways \subseteq {"github", "git", "tree"}
    /\ MaxMembers \in Nat /\ MaxRedirects \in Nat
    /\ None \notin Nat

Outcomes ==
    {"result", "unavailable", "not_found", "too_large", "unsafe", "malformed", "usage",
     "os_error", "scan_failed", "hash_failed", "analysis_failed", "cancelled", "interrupted",
     "closing", "spawning", "removing", "killed"}

\* The ways out that leave the workspace on the disk: the process is killed; the
\* count or the hash of the files fails; the client is cancelled, or fails, while
\* it closes; git cannot be started, or is interrupted while it is; the removal
\* itself is interrupted.
Leaks == {"killed", "hash_failed", "closing", "spawning", "removing"}

ASSUME OutcomesAssumption == None \notin Outcomes

Hosts == {"api", "content", "foreign"}   \* foreign: not on the allow-list
Allowed(host) == host # "foreign"

VARIABLES
    way, members,
    phase,       \* resolve, download, stream, spawn, extract, close, hash, verify,
                 \* analyse, over
    resolved,    \* how the SHA of the provider relates to the requested one
    hops, host,  \* requests made for the archive, and where the next one goes
    sent,        \* hosts asked, each with whether the token went along
    archive,     \* chunks in the temporary file; None: there is no such file
    next, written, total,   \* progress of the extraction
    wrote,       \* the members that became files
    tree,        \* none, workspace, user (a working tree), gone
    reading,     \* a thread is analysing the tree
    torn,        \* it read a tree that was not there
    outcome

extraction == <<next, written, total, wrote>>
files == Cardinality(wrote)
vars == <<way, members, phase, resolved, hops, host, sent, archive, extraction, tree,
          reading, torn, outcome>>

Init ==
    /\ way \in Ways
    /\ members \in IF way = "tree" THEN {<< >>} ELSE BoundedSeq(Members, MaxMembers)
    /\ phase = "resolve"
    /\ resolved = None
    /\ hops = 0 /\ host = "api" /\ sent = {}
    /\ archive = None
    /\ next = 0 /\ written = 0 /\ total = 0 /\ wrote = {}
    /\ tree = IF way = "tree" THEN "user" ELSE "none"
    /\ reading = FALSE /\ torn = FALSE
    /\ outcome = None

\* A snapshot of an archive is in a temporary directory of its own.
OwnsTree == tree = "workspace"

\* Defect for CleanUp: a cancellation is no Exception and is not caught.
OverUnlessCancelled(why) ==
    /\ phase' = "over"
    /\ outcome' = why
    /\ tree' = IF OwnsTree /\ why # "cancelled" THEN "gone" ELSE tree
    /\ archive' = None
    /\ torn' = torn

\* Leaving the try blocks: the workspace and the temporary archive go.
Over(why) ==
    /\ phase' = "over"
    /\ outcome' = why
    /\ tree' = IF OwnsTree THEN "gone" ELSE tree
    /\ archive' = None
    /\ torn' = (torn \/ (reading /\ OwnsTree))

Fail(why) ==
    /\ Over(why)
    /\ UNCHANGED <<way, members, resolved, hops, host, extraction, reading>>

\* An exception outside those blocks: what is on the disk stays.
LeaveBehind(why) ==
    /\ phase' = "over"
    /\ outcome' = why
    /\ UNCHANGED <<way, members, resolved, hops, host, sent, archive, extraction, tree, torn>>

-----------------------------------------------------------------------------
(***************************************************************************)
(* The provider.                                                           *)
(***************************************************************************)

\* Defect for TokenStaysHome: the headers of the first request are used again.
AskWithToken(h) == sent' = sent \cup {[host |-> h, token |-> TRUE]}

\* Every request validates its URL before, and carries the token to the API only.
Ask(h) == sent' = sent \cup {[host |-> h, token |-> h = "api"]}

\* The full SHA begins with the requested one; a branch, a tag or another commit
\* does not.
Extends(sha) == sha = "same"

\* _resolve_commit, with _raise_missing for a 404; then the workspace is made.
Resolve ==
    /\ way = "github" /\ phase = "resolve"
    /\ Ask("api")
    /\ \/ \E why \in {"unavailable", "not_found", "os_error"} : Fail(why)
       \/ \E sha \in {"same", "other"} :
              IF Extends(sha)
              THEN /\ resolved' = sha
                   /\ phase' = "download"
                   /\ tree' = "workspace" /\ archive' = 0
                   /\ UNCHANGED <<way, members, hops, host, extraction, reading, torn, outcome>>
              ELSE Fail("unavailable")

Answered ==
    /\ phase' = "stream"
    /\ UNCHANGED <<way, members, resolved, hops, host, archive, extraction, tree, reading,
                   torn, outcome>>

\* Defect for EventuallyOver: the hops are not counted.
RedirectedAgain(h) ==
    /\ host' = h
    /\ UNCHANGED <<way, members, phase, resolved, hops, archive, extraction, tree, reading,
                   torn, outcome>>

\* The loop makes MaxRedirects + 1 requests.
Redirected(h) ==
    IF hops >= MaxRedirects THEN Fail("unavailable")
    ELSE /\ hops' = hops + 1
         /\ host' = h
         /\ UNCHANGED <<way, members, phase, resolved, archive, extraction, tree, reading,
                        torn, outcome>>

\* A request of _download.
Download ==
    /\ phase = "download"
    /\ IF ~Allowed(host) THEN Fail("unavailable") /\ UNCHANGED sent
       ELSE /\ Ask(host)
            /\ \/ Fail("unavailable")
               \/ Answered
               \/ \E h \in Hosts : Redirected(h)

\* _write_stream: the limit is checked before a chunk is written.
Stream ==
    /\ phase = "stream"
    /\ UNCHANGED sent
    /\ \/ Fail("unavailable")
       \/ IF archive + 1 > MaxArchive THEN Fail("too_large")
          ELSE /\ archive' = archive + 1
               /\ UNCHANGED <<way, members, phase, resolved, hops, host, extraction, tree,
                              reading, torn, outcome>>
       \/ /\ phase' = "extract"
          /\ UNCHANGED <<way, members, resolved, hops, host, archive, extraction, tree,
                         reading, torn, outcome>>

-----------------------------------------------------------------------------
(***************************************************************************)
(* extract_zip, member by member and chunk by chunk.                       *)
(***************************************************************************)

Current == members[next]

Moved(n, w, t, made) ==
    /\ next' = n /\ written' = w /\ total' = t /\ wrote' = wrote \cup made
    /\ UNCHANGED <<way, members, phase, resolved, hops, host, sent, archive, tree, reading,
                   torn, outcome>>

Look ==
    /\ way = "github" /\ phase = "extract" /\ next = 0
    /\ IF LooksGood(members) THEN Moved(1, 0, 0, {}) ELSE Fail("unsafe") /\ UNCHANGED sent

\* Defect for ExtractionInv: the limit is for a member, not for all of them.
FitsAlone == written + 1 <= MaxExtracted

\* check_extracted_bytes on the running total: a header may declare too little.
Fits == total + 1 <= MaxExtracted

\* Links are checked and not made; a chunk is written when the total allows it.
ExtractMember ==
    /\ way = "github" /\ phase = "extract" /\ next \in DOMAIN members
    /\ IF Rejected(Current) THEN Fail("unsafe") /\ UNCHANGED sent
       ELSE IF Current.kind # "file" THEN Moved(next + 1, 0, total, {})
       ELSE IF written = Current.size THEN Moved(next + 1, 0, total, {next})
       ELSE IF Fits THEN Moved(next, written + 1, total + 1, {next})
       ELSE Fail("too_large") /\ UNCHANGED sent

\* A bad CRC, a truncated archive, a full disk or a git that fails, at any member.
ExtractFails ==
    /\ phase = "extract"
    /\ Fail("malformed") /\ UNCHANGED sent

Extracted ==
    /\ way = "github" /\ phase = "extract" /\ next > Len(members)
    /\ phase' = "close"
    /\ archive' = None
    /\ UNCHANGED <<way, members, resolved, hops, host, sent, extraction, tree, reading, torn,
                   outcome>>

\* The client closes its connections when its block is left, an await outside the
\* try that removes the workspace.
Close ==
    /\ way = "github" /\ phase = "close"
    /\ UNCHANGED reading
    /\ \/ /\ phase' = "hash"
          /\ UNCHANGED <<way, members, resolved, hops, host, sent, archive, extraction, tree,
                         torn, outcome>>
       \/ LeaveBehind("closing")

-----------------------------------------------------------------------------
(***************************************************************************)
(* cli/local.py: git archive, and a working tree in place.                 *)
(***************************************************************************)

GitResolve ==
    /\ way = "git" /\ phase = "resolve"
    /\ UNCHANGED sent
    /\ \/ \E why \in {"usage", "os_error"} : Fail(why)
       \/ /\ resolved' = "same"
          /\ phase' = "spawn"
          /\ tree' = "workspace"
          /\ UNCHANGED <<way, members, hops, host, archive, extraction, reading, torn, outcome>>

\* git is started after the workspace is made and before the try that removes it.
Spawn ==
    /\ way = "git" /\ phase = "spawn"
    /\ UNCHANGED reading
    /\ \/ /\ phase' = "extract" /\ next' = 1
          /\ UNCHANGED <<way, members, resolved, hops, host, sent, archive, written, total,
                         wrote, tree, torn, outcome>>
       \/ LeaveBehind("spawning")

\* Written whole when it is a regular file within the limits, skipped when it is
\* anything else.
GitMember ==
    /\ way = "git" /\ phase = "extract" /\ next \in DOMAIN members
    /\ IF GitRejects(Current, files, total) THEN Fail("scan_failed") /\ UNCHANGED sent
       ELSE IF Current.kind = "file"
       THEN Moved(next + 1, 0, total + Current.size, {next})
       ELSE Moved(next + 1, 0, total, {})

\* git has left with 0; anything else is ExtractFails.
GitExtracted ==
    /\ way = "git" /\ phase = "extract" /\ next > Len(members)
    /\ phase' = "hash"
    /\ UNCHANGED <<way, members, resolved, hops, host, sent, archive, extraction, tree,
                   reading, torn, outcome>>

OpenTree ==
    /\ way = "tree" /\ phase = "resolve"
    /\ phase' = "hash" /\ resolved' = "same"
    /\ UNCHANGED <<way, members, hops, host, sent, archive, extraction, tree, reading, torn,
                   outcome>>

-----------------------------------------------------------------------------
(***************************************************************************)
(* The snapshot, its analysis and its end.                                 *)
(***************************************************************************)

\* count_files, compute_content_hash and _build_ingestion.  In the provider they
\* come after the try that removes the workspace: when they fail it stays.
Hash ==
    /\ phase = "hash"
    /\ UNCHANGED sent
    /\ \/ /\ phase' = "verify"
          /\ UNCHANGED <<way, members, resolved, hops, host, archive, extraction, tree,
                         reading, torn, outcome>>
       \/ way = "github" /\ LeaveBehind("hash_failed") /\ UNCHANGED reading
       \/ way # "github" /\ Fail("scan_failed")

\* Defect for ResultIsRight: the snapshot is released when it is described.
VerifyAndRelease ==
    /\ phase = "verify"
    /\ phase' = "analyse" /\ reading' = TRUE
    /\ tree' = IF OwnsTree THEN "gone" ELSE tree
    /\ torn' = OwnsTree
    /\ UNCHANGED <<way, members, resolved, hops, host, sent, archive, extraction, outcome>>

\* verify_snapshot and build_result, then the thread of analyze_snapshot.
Verify ==
    /\ phase = "verify"
    /\ UNCHANGED sent
    /\ IF Extends(resolved)
       THEN \/ Fail("scan_failed")
            \/ /\ phase' = "analyse" /\ reading' = TRUE
               /\ UNCHANGED <<way, members, resolved, hops, host, archive, extraction, tree,
                              torn, outcome>>
       ELSE Fail("unavailable")

\* The thread is done; then the context is left and the workspace goes.
Analysed ==
    /\ phase = "analyse"
    /\ reading' = FALSE
    /\ phase' = "over"
    /\ \E why \in {"result", "analysis_failed"} : outcome' = why
    /\ tree' = IF OwnsTree THEN "gone" ELSE tree
    /\ UNCHANGED <<way, members, resolved, hops, host, sent, archive, extraction, torn>>

\* The worker's task is cancelled at an await: the thread goes on, on a tree that
\* is removed under it.  The extraction is no await: a cancellation that falls due
\* meanwhile is delivered while the client closes.
Cancel ==
    /\ way = "github"
    /\ \/ /\ phase \in {"resolve", "download", "stream", "analyse"}
          /\ Fail("cancelled") /\ UNCHANGED sent
       \/ phase = "close" /\ LeaveBehind("closing") /\ UNCHANGED reading

\* Ctrl-C, in the one thread of the command line: anywhere, while git is being
\* started, and in the removal that any way out of the try ends in.
Interrupt ==
    /\ way # "github" /\ phase # "over"
    /\ reading' = FALSE
    /\ \/ /\ phase # "spawn"
          /\ phase' = "over" /\ outcome' = "interrupted"
          /\ tree' = IF OwnsTree THEN "gone" ELSE tree
          /\ UNCHANGED <<way, members, resolved, hops, host, sent, archive, extraction, torn>>
       \/ phase = "spawn" /\ LeaveBehind("spawning")
       \/ phase # "spawn" /\ OwnsTree /\ LeaveBehind("removing")

ThreadEnds ==
    /\ phase = "over" /\ reading
    /\ reading' = FALSE
    /\ UNCHANGED <<way, members, phase, resolved, hops, host, sent, archive, extraction, tree,
                   torn, outcome>>

\* The process is killed: nothing is cleaned up, and no start sweeps it.
Kill ==
    /\ phase # "over"
    /\ reading' = FALSE
    /\ LeaveBehind("killed")

Steps ==
    \/ Resolve \/ Download \/ Stream
    \/ Look \/ ExtractMember \/ ExtractFails \/ Extracted \/ Close
    \/ GitResolve \/ Spawn \/ GitMember \/ GitExtracted \/ OpenTree
    \/ Hash \/ Verify \/ Analysed \/ ThreadEnds

Next == Steps \/ Cancel \/ Interrupt \/ Kill

Spec == Init /\ [][Next]_vars

\* Every request of httpx has a timeout and every other step is local; that a
\* task is cancelled, interrupted or killed is never needed.
LiveSpec == Spec /\ WF_vars(Steps)

-----------------------------------------------------------------------------
(***************************************************************************)
(* Properties.                                                             *)
(***************************************************************************)

\* Type invariant.
TypeOK ==
    /\ phase \in {"resolve", "download", "stream", "spawn", "extract", "close", "hash", "verify",
                  "analyse", "over"}
    /\ hops \in 0..MaxRedirects
    /\ tree \in {"none", "workspace", "user", "gone"}
    /\ archive # None => archive \in Nat /\ way = "github"
    /\ outcome \in IF phase = "over" THEN Outcomes ELSE {None}
    /\ wrote \subseteq 1..next

\* The limits bound what is on the disk at every moment, whatever the headers of
\* an archive declare, not only what is there in the end: the temporary archive,
\* the bytes written and the files.
DiskBounded ==
    /\ archive # None => archive <= MaxArchive
    /\ total <= MaxExtracted
    /\ files <= MaxFiles

\* Only members that stay under the root become files.
NothingOutside == \A i \in wrote : members[i].kind = "file" /\ members[i].inside

\* A result is of the requested revision: neither of the two checks of the SHA,
\* in the provider and in verify_snapshot, lets another commit pass.
RightCommit == outcome = "result" => resolved = "same"

\* No host off the allow-list is asked, and the token of the API goes to no other
\* host, however the provider redirects.
TokenStaysHome == \A s \in sent : Allowed(s.host) /\ (s.token => s.host = "api")

\* A snapshot that is over leaves no workspace, on every error and on a
\* cancellation or an interrupt in the middle of a download, an extraction or an
\* analysis, but for the five ways out that are told to leak; the temporary archive
\* goes on all but a kill.
WorkspaceReleased ==
    phase = "over" =>
        /\ outcome \notin Leaks => tree # "workspace"
        /\ outcome # "killed" => archive = None

\* Only a directory that the program made is removed: a working tree is scanned in
\* place, through the same snapshot type, and stays.
OnlyWorkspacesGo == way = "tree" => tree = "user"

\* A result that is returned was computed on the whole tree: what a thread reads
\* after its tree is gone is never a result.
WholeTree == outcome = "result" => ~torn

\* What is on the disk is bounded and under the root of the workspace.
ExtractionInv == TypeOK /\ DiskBounded /\ NothingOutside

\* A result is of the requested commit and of the whole of it.
ResultIsRight == RightCommit /\ WholeTree

\* Workspaces are removed, on every way out but the five of Leaks, and nothing else is.
CleanUp == WorkspaceReleased /\ OnlyWorkspacesGo

\* However often the provider redirects, an ingestion comes to an end.
EventuallyOver == <>(phase = "over" /\ ~reading)

=============================================================================
