# A TLA+ model of Cryptiq

Cryptiq scans a Git repository at an exact commit for cryptographic constructs.
A client submits a repository and a commit; the backend queues a scan; a worker
in the same server process downloads the source, runs a deterministic engine
over it and stores the findings; a browser client polls the scan, shows its
findings, lets a person review them and may ask for an explanation written by a
language model. The repository is a Python backend (`cryptiq/app`), a React
frontend (`frontend/src`), a command line tool (`cryptiq/app/cli`) and
deployment files.

Paths below are relative to `src/cryptiq/app/` unless they begin with `src/`.

## 1. Inventory

| Component | State it keeps | Operations | Interacts with | What is hard | What makes it correct |
| --- | --- | --- | --- | --- | --- |
| Scan job lifecycle (`services/scan_jobs.py`, `db/models/scan_job.py`) | job status, `attempt_count` | legal transitions, `should_retry` | worker | retries and terminal statuses across transactions | every move is legal, the budget is kept, retries stop |
| Storage and cache (`db/models/scan.py`, `services/scan_cache.py`) | scan rows with SHA and version stamps, findings | `find_completed_scan` | API, worker | rows of two builds and two spellings of one commit side by side | a cached answer is the right scan, and stays the same one |
| Worker (`worker.py`, `services/persistence.py`) | the job it holds, its session | claim, execute, complete, fail, retry, loop | database, provider, engine | claims racing, failure at each step, lost commit answers, cancellation, crash | one execution at a time, findings all or nothing, ended scans untouched, accepted scans end |
| Submission (`services/scans.py`, `api/v1/scans.py`, `api/v1/inspections.py`) | the request in progress | cache lookup, capacity check, insert, answer | database | check-then-act between concurrent requests | in-flight bound, completed commits are answered from the cache, every request is answered |
| Server process (`main.py`, `docker-compose.yml`) | up, stopping, down; the build it runs | start, shutdown, crash, restart, deploy | worker, API | what the previous process leaves behind | no invariant depends on how a process ended |
| Rate limiter (`rate_limit.py`) | ordered table of windows | `check` | every request | window boundary, shared default bucket, table at its cap | at most twice the limit in a window's length, `Retry-After` suffices, table bounded |
| Body size limit (`middleware.py`) | bytes seen of one body | wrap `receive` and `send` | rate limiter, application | the limit reached after the application has begun to read | never more than the limit is delivered; too large is answered 413 |
| Ingestion (`engine/ingestion`, `integrations/github`, `cli/local.py`) | workspace directory, temporary archive, running totals | resolve, download, redirect, stream, extract, hash, verify, clean up | provider, git, worker | limits reached in mid-archive, headers that lie, cancellation under a reading thread, failures outside the `try` blocks | the disk stays bounded and under the root, the right commit, a workspace left behind on the known ways only, the token stays home |
| Parser and rules (`engine/parser`, `engine/rules`) | what is recorded of a file | record, build bindings, evaluate | pipeline | scopes, shadowing, order of assignments, chains of derivations | a claim about a name rests on the scope that binds it, and on grounds there |
| Roles, priority, PQC, impact (`engine/roles`, `priority`, `pqc`, `impact`) | none | pure tables | pipeline, review queue | four tables of points added up | the queue starts with what needs a replacement |
| Persistence and diff (`services/persistence.py`, `cli/diff.py`) | findings by fingerprint | fold, store, compare | worker, CLI | two matches of one fingerprint, code that moved | one row per finding that stands for all its matches, a diff that tells the edit |
| Guardrails (`engine/context`, `services/context_advisor.py`) | none | infer a role, heuristics, correct a reply | Gemini, migration assessments | the roles of model and classifier differ | no category error but where the roles differ, keep means keep, offline advice needs no correction |
| Explanations (`services/explanations.py`, `services/gemini.py`) | cached explanations | look up, insert, call the model, commit | Gemini, database | two requests for one finding, a slow call inside a transaction | events match rows, answers fit the question, at most one per caller |
| Migration assessments (`services/migration_assessments.py`) | cached assessments | as above, with a profile | advisor, database | the settings change between answer and question, a failure after the commit | as above |
| Reviews (`services/reviews.py`) | review items | disposition, patch | database | two first reviews at once, two patches of one item | bounded items, no field overwritten that was not sent |
| CLI (`cli`) | deadline, pages read | scan, diff, poll, read pages, one-shot commands | engine, API | polling against a deadline, page boundaries, late answers | the exit code is the verdict, the report complete, the deadline kept, every command ends |
| Report polling (`src/frontend/src/hooks/useAsyncResource.ts`, the inspection report page) | state of a resource, the requests in flight | load, refresh, reload, poll, final refresh | API | answers out of order, a refresh superseding a load, failed polls, the scan ending between two requests | what is shown belongs to what was asked, never goes back, and the last state is shown in the end |
| Knowledge (`engine/knowledge`) | static corpus | rank | advisor | - | not modelled: wording |
| The other screens, views, migrations, deployment | - | one load per mount, rendering, schema changes, infrastructure | - | - | not modelled (section 7) |

## 2. Plan

What was planned, in order of importance, is built:

1. `ScanJobs`, `ScanStore`, `ScanWorker`, `ScanApi`, `ScanSystem` with its proofs.
2. `RateLimiter`, `RateLimiterHistory`, `BodySizeLimit`, composed by `HttpStack`, with the proofs of
   the stack.
3. `AsyncResource`, `ReportPage` with its proofs, the consumer of the scan status.
4. `FindingRecords`, `Explanations`, `MigrationAssessments`, `Reviews`, composed by
   `FindingRequests` with its proofs: the other writers of the database.
5. `Archives`, `Ingestion` with its proofs.
6. `ParsedFile`, `NameResolution`, composed by `RuleRun` with its proofs.
7. `CryptoFindings`, `MigrationAdvisor`, composed by `Analysis` with its proofs.
8. `RemoteScan` with its proofs, the command line client over `ScanJobs`.

Every safety property of a run has a theorem. What is left: the repository upsert, and a model of
the dashboard's reads.

Two abstract specifications are shared: `ScanJobs` is refined by the scan system and is at the same
time the server `RemoteScan` talks to.

## 3. Modules and the code

### ScanJobs - what the lifecycle promises
One job per scan with `status` and `attempts`. Each action is a row of `LEGAL_TRANSITIONS`;
`Retry` and `Exhaust` ask `should_retry`. `Cancel` is legal though nothing in the repository
cancels yet. It is the abstract specification of the worker.

### ScanStore - the shared tables
Scans and jobs are created in one transaction and never deleted, so one identifier names both:
its rank in `(created_at, id)`. A commit stands for the provider, owner, name and full SHA, a
version for the three version columns. `rows` is the set of findings of a scan, abstracted to
the commit and the build that produced it, which is all the properties need to tell apart.

### ScanWorker - worker.py
A step is one transaction or one `await`. `ClaimSelect` is the SELECT, `ClaimCommit` the update
and its commit; under PostgreSQL (`SkipLocked`) the rows selected by others are skipped, under
SQLite there is one worker (`ClaimAssumption`). `Analyse` ends with the findings flushed into
the open transaction; `Complete` commits them with the status. Every database call may raise
with its effect in the database or not (`ClaimFault`, `CompleteFault`, `FailFault`). `Cancel` is
the `CancelledError` of a shutdown that took more than ten seconds: `except Exception` does not
see it, so only `session.close` runs.

### ScanApi - create_scan
Endpoints run in a thread pool, so lookup, capacity check and insert are separate steps.
`InsertUnanswered` is the commit that reached the database although the client gets a 500.

### ScanSystem - the composition
Adds the processes: `Crash` (sessions gone, transactions rolled back), `Shutdown` (requests
finish, the worker is told to stop), `Exit`, `Restart` under the same build or another.

### ScanHistory - which build a cached answer is by
The look-up compares the version columns, which the endpoint fills when a scan is submitted; the
findings are by the build that claims the job. `overlapped` remembers the scans that were queued or
running beside a process of another build, and `CachedAnswerIsRight` says of all others that the
build that serves the answer is the one that produced it. The module restricts nothing.

### RateLimiter, RateLimiterHistory
`check` runs on the event loop under one lock: one action. The ordered dictionary is a sequence
of keys and a function to windows. `{bucket, "default"}` is iterated in either order. The history
module adds what clients experienced (admissions, refusals); it restricts nothing. A window that is
renewed keeps the position of its key (an assignment to a key of an OrderedDict does not move it;
only the live branch calls `move_to_end`), so the key the cap takes is not always the
least-recently-seen one of the comment at `rate_limit.py:130`. `lost` records what that costs.

### BodySizeLimit, HttpStack - middleware.py under main.py
`Receive` is `limited_receive` on one piece of the body, `Taken` its fold over all of them; the
declared length is any of none, the limit and one more, whatever the body. The piece that
overruns is emptied and made the last one, so the application takes a cut body for the whole and
its answer is dropped (`guarded_send`). `HttpStack` puts it around the limiter in the order of
`create_app`: a declared overrun costs the client nothing, an exempt path is not counted.

### FindingRecords, Explanations, MigrationAssessments, Reviews, FindingRequests
`FindingRecords` has the tables the three services write and what is common to the cached answers:
`LookUp`, `Insert` (row and event flushed, the transaction open while the model answers, hence
`Locked` on SQLite) and `Commit` (the outcome with its events). A cached answer is told by its key
(finding, profile, model), status and author, never by its text. `Explanations` and
`MigrationAssessments` differ in the key, in what a missing API key does (503, or the heuristics)
and in what a failing model does (a row FAILED and 503, or a COMPLETED row by the heuristics).
An assessment is answered in two steps: `CommitAnswer` stores the row and its event, and what
follows inside the same `try` (the refresh, the conversion) may still raise (`RefreshRaises`): the
handler then commits the row again as FAILED, beside the event of its completion.
A review loads its item in one step and writes in another, because another reviewer may come
between; the UPDATE holds the columns that differ from the row as loaded. `FindingRequests` adds
the callers, the lock time-out, failing statements, and a restart that may change the settings.

### Archives, Ingestion - from a request to an analysed tree
An archive is a sequence of members, each with kind, place, declared and real size. Three ways
lead to a tree: the provider (`Resolve`, `Download` with redirects, `Stream`, `Look`,
`ExtractMember` chunk by chunk), a local repository (`GitResolve`, `GitMember`), a working tree
(`OpenTree`). `Over` is what leaving the `try` blocks does, `LeaveBehind` a way out beside them:
`Hash` can fail behind the `try` that removes the workspace, `Close` is the `await` of the client's
`__aexit__` behind it, `Spawn` the start of git before it, and an `Interrupt` can hit the removal.
`Cancel` removes the tree under the thread that reads it, which `torn` remembers; one that falls due
during the extraction, which has no `await`, is delivered at `Close`. `Kill` cleans nothing up. That
`rmtree(ignore_errors=True)` removes what it is given is assumed.

### ParsedFile, NameResolution, RuleRun - names
`ParsedFile` is what the parser keeps: parameters, stores, assignments in source order,
annotations, each with the function and the class around it. A store is an `ast.Name` in a storing
context and nothing else; a return type is an annotation of the function's own name inside it. An
assignment to an attribute of the result of a call (`f().k = ...`), which the parser reports under
the bare name `k` (`python.py:499`), is left out. `NameResolution` has the scope chain
as the set of scopes a walk outwards meets, of which `Innermost` is the first that qualifies; the
two rounds of `_collect_assignments` as `Direct` and `Combined`, a function over the assignments in
source order (`MergeAll`); and what the key, AES and marker rules claim of a name (`Claims`).
`RuleRun` writes a file statement by statement and then evaluates it.

### CryptoFindings, MigrationAdvisor, Analysis
`CryptoFindings` states what each rule may emit, with the api (one algorithm and operation can have
several), and the pure path from a match to a finding: role, review path, impact, score, band,
fingerprint. `MigrationAdvisor` has the inferred role, the
heuristics and `EnforceGuardrails`; a candidate is told by the family its name matches.
`Analysis` stores the findings of a commit, edits it (a line moves, a call is deleted or added),
compares the two, and asks for assessments: `AssessByModel` takes any reply of the schema.

### RemoteScan - cli/main.py over cli/client.py
A command from `main` to its exit code. The server is an instance of `ScanJobs` for one scan, and
`OnPage` its pages. A finding is its rank. `Tick` passes time in a sleep and in a request; `left`
is what remains to the deadline, and stops at the first value that is too late. A failing
request may end the command anywhere, with an exit code of its own or, when an answer of 200 is not
JSON, in a traceback; `create_scan` catches a refused connection only, so a late answer ends in a
traceback too, although the scan may be queued. `Latency` is a parameter: the 30 s of httpx hold for
the connect, the write and each read, not for a request as a whole.

### AsyncResource - the hook
Operators on the record of one resource: what is shown (`view`), the foreground load and the
background refresh in flight, and `newest`, which of the two holds the current run id. Aborted
requests leave the record, because their rejection is ignored; a load superseded by a refresh is
not aborted, so it stays until it is answered. No more than one of each can be alive: `refresh`
aborts the refresh before it, and the clean-up of the effect aborts both.

### ReportPage - the page and the scan it watches
Two resources, the inspection and the findings of the query asked for. `ScanEnds` is the worker's
commit, which brings status and findings together. An answer is abstracted to the status the scan
had when the server read it (`Serve`); when the answer arrives (`Settle`) is a step of its own, so
answers overtake each other and the scan. The step that takes the inspection from running to
ended also starts the final refresh, as the effect of the same render does. `Poll` is a tick of
the interval, `Fail` any rejection, the time-out included, at any moment of a request.

### MCScanSystem, MCFindingRequests, MCRuleRun, MCAnalysis
The first two add symmetry sets (scans are never symmetric: they are ordered by age), the others
the layouts of files and the places of calls.

Operators whose comment begins with "Defect for P" are plausible bugs, kept beside the
definition they replace, to show that the property P would notice them. No specification uses them.

## 4. Runs

| Run | Bounds | What it shows |
| --- | --- | --- |
| scan_faults | 2 scans, 2 attempts, 2 workers, 2 requests, 1 crash or shutdown, 1 database fault, both SHA forms | scan and job agree, exclusive execution, findings of the right scan, `IInv` itself, ended scans untouched, refinement of `ScanJobs` |
| scan_cache | 3 scans, 2 builds, 2 processes, 2 requests, limit 1, 1 stop, both SHA forms | how far the limit can be overshot; cached answers are by the serving build unless two builds overlapped, only abbreviated SHAs miss a finished scan, the canonical scan only gets older |
| scan_live | 2 scans, 3 attempts, 2 workers, 2 requests, no crash, no fault | accepted scans end, requests are answered |
| rate_windows | 1 client, limits 2, 2 and 1, room for 2 keys, window 3, 2 ticks a second, time 5; bodies of 3 pieces of 1 or 2 against a limit of 2 | the table is an ordered dictionary within its cap; burst bound and `Retry-After`, until the cap costs the client an open window; no body over the limit is delivered |
| page_faults | 2 queries, 1 change, 2 failures | what is shown answers what is asked and never goes back; the end of the scan is noticed in spite of failed polls, and without failures its findings are shown |
| finding_requests | 2 callers, 1 finding, 1 profile, 2 models, 3 rows, 1 restart, SQLite | events match rows, answers that fit, as many answers and items as callers at most, no lost update of an unsent field |
| ingestion | any archive of 3 members of 1 or 2 chunks, limits 2 files, 3 chunks, 1 chunk of download, 5 redirects | the disk is bounded at every moment, the right and whole commit, the token stays home, workspaces go but on five ways, everything ends |
| names | 2 names, 5 kinds of value, 3 statements (an annotated assignment counts for two), three layouts of nested functions, classes and methods | names are looked up by scope, and claims about keys have grounds of one step |
| analysis | any file of one call of the rules or two on two lines that can be one finding or compete in the queue (`Compared`), every edit, every reply of a model | the review queue, one row per finding, the diff, the guardrails, the offline advice |
| cli | 3 findings in pages of 2, timeout 4, interval 2, latency 1, 2 attempts | exit code and report, the deadline on both sides, every command ends |
| orphaned_job | 1 scan, 1 crash | a statement the code does not keep, see below |
| name_claimed | as `names` | likewise |

Why the bounds are enough: two workers and two requests are what a race needs, and a third
request only repeats the second. Two attempts separate "retry" from "give up"; one crash and one
fault can each fall between any two steps. Two scans of one commit give an older and a newer;
`scan_cache` has three, so that an older scan can complete after a newer one has become canonical.
Two windows' length of time holds a boundary with a full window on both sides. A page has two
requests per resource at most, so the bounds of its run only limit how often a user or the network
interferes. Two callers are what a lost update or a double generation needs; three rows let both
insert and one ask again. Three members let the totals of the limits be reached by any prefix.
Three statements are a source, a derivation and a disagreement. Findings are folded in pairs, and
a diff is about one edit. Three findings in pages of two give an empty, a half and a full page.
Where a theorem of section 6 states the property, the safety part does not rest on the bounds at all.

Deadlock checking is off in every run: submissions, stops, edits and the clock are bounded, and a
system with nothing left to do simply stops.

### Statements the code does not keep

Two have a run and a finding:

| Run | Statement | What happens |
| --- | --- | --- |
| orphaned_job | readiness report line 482, `db/models/scan_job.py:50` | a job whose process died stays RUNNING for ever, holding a place of the limit |
| name_claimed | `engine/rules/resolution.py:243` | `x = unknown(); x = k` claims `x` as the key `k`; in the other order it does not: in the second round an alias may overwrite the "unknown" of an assignment before it |

Others were met while modelling and shape how the properties are stated:
- `config.py:37`: two submissions pass the check of `max_in_flight_scans` together (`InFlightBound`
  states how far).
- `db/models/scan.py:36` and `services/scan_cache.py:4`: a scan queued before a deployment and run
  after it completes under the old stamp with the findings of the new build, and is served for the
  old one (`CachedAnswerIsRight` excepts the scans of an overlap).
- `src/CACHE_BEHAVIOR.md:28`: a short SHA is looked up as submitted but stored resolved, and never
  hits (`CompletedCommitHits` says that only abbreviated SHAs miss).
- `migration_assessments.py:209-223`: when the refresh or the conversion after the commit fails, the
  row becomes FAILED and its COMPLETED event stays (`EventsMatchRows` allows it for assessments).
- `guardrails.py:109` and `:128`, "must NEVER": the four branches exclude each other, so a signature
  or a cipher keeps ML-KEM when the model says KEY_ESTABLISHMENT, and a cipher keeps a signature
  when the model says DIGITAL_SIGNATURE (`RightForTheOther` is this exception). The alternatives are
  filtered for what is a hash or a cipher to the classifier, not for what only the model calls
  ENCRYPTION.
- `resolution.py:145`, on shadowing: the parser records stores of `ast.Name` only
  (`python.py:239`, `397`). A name bound by `except ... as`, by a parameter of a lambda, by an import,
  a `def` or a `class` inside a function or by a `match` capture does not shadow, and inherits the
  key of an outer scope (`LocalNamesShadow` is about what is recorded). `python.py:330` makes a
  function's return type an annotation of its own name inside it.
- `aes.py:153`, "a name assigned anywhere in its scope from something else is dropped": a context of
  the module is still claimed of a parameter, a loop variable or a local of the same name, because
  the AES rule falls back on the module (`aes.py:108`). No property is about it.
- Workspaces are left on the disk, and swept by nothing, on the five ways out of `Leaks`: a kill
  (`killed`), a failing count or hash of the files (`hash_failed`, `client.py:90`), a cancellation or
  an error while the client closes (`closing`, `client.py:79-88`), git that cannot be started or is
  interrupted then (`spawning`, `local.py:249-255`), and an interrupt in the removal (`removing`,
  `local.py:302`). `CleanUp` says that there are no others.
- `rate_limit.py:19`: a key with an expired window keeps its old place in the order.
- `InspectionReportPage.tsx:126` and `268`: the first findings are read before the scan commits, the
  first inspection after it: the page shows "completed" and an empty list and fetches nothing more.
- `middleware.py:30`: the application is not handed `http.disconnect` but an empty last piece.

## 5. Fairness

`FairSpec` of ScanSystem assumes: the worker loop polls and finishes the step it is in
(`worker_loop` sleeps at most one poll interval, every step is bounded by the provider's
time-outs and the engine's termination); a request handler runs to its answer; a process told to
stop exits; a process that is down is started again (`restart: unless-stopped`). Nothing forces a
submission, a crash, a shutdown, a fault or the success of an analysis: `Analyse` and
`AnalysisRaises` share one weak fairness condition, so a scan may fail every attempt.
`AcceptedScansEnd` is checked without stops and faults, because with them it is false:
`orphaned_job` is that counterexample.

`FairSpec` of ReportPage assumes that scans end (`AcceptedScansEnd`), that the server reads, that
intervals tick and that answers arrive. `Settle` has strong fairness: each tick aborts the refresh
before it, so a latency that stays above the interval for ever (2000 ms for the inspection, 2500
ms for the findings) would starve every poll; the assumption is that it does not. Nobody is
assumed to press retry or to change the query. `StatusCatchesUp` holds with failed requests.
`FindingsCatchUp` is about behaviours without, because the final refresh is not repeated when it
fails; at worst it has just superseded a slow first load, and the list stays loading with nothing
in flight.

`LiveSpec` of Ingestion has weak fairness on the steps of the ingestion itself: every request of
httpx ends and every other step is local. No cancellation, no interrupt and no kill is assumed.

`FairSpec` of RemoteScan has weak fairness on the steps of the client and the clock: its requests
end, within `Latency`. httpx gives that for a server that is silent, not for one that sends a byte
now and then. The worker of the server is not assumed to do anything: the deadline has to end the
wait.

## 6. Proofs

TLAPS checks the proofs of eight modules, each beside the component it is about. Every theorem is
for all values of the constants under the assumptions the component names.

### ScanSystem_proofs
From `StoreAssumption`, `ClaimAssumption`, `ApiAssumption`. The inductive invariant `IInv` is the
conjunction of the type invariant, `StatusesAgree`, `AttemptBudget` and three parts that are not
stated for their own sake:
- `WorkersInv` ties a worker's program counter to its job: a selected job is QUEUED and in no
  other hands, a held one is RUNNING and locked by this process - or COMPLETED, if the worker lost
  the answer to its commit. Without it neither exclusiveness nor `StatusesAgree` survives a claim.
- `RowsInv` says what a row holds at each status; it carries `FindingsAreOfTheScan`.
- `RequestsInv` says that a request in progress belongs to a process that is up, so the build it
  looks up under is the build it inserts under.

`CachedAnswerIsRight` is proved of `HistorySpec` with a second invariant (`HistoryInv`): a scan that
is open and has not overlapped has no process of another build beside it, so what a worker has
flushed, and then what the row holds, is by the build of its stamp.

There is one lemma per action, and under it one step per conjunct the action disturbs. The
action properties (`EndedScansStay`, `CanonicalScanAges`) and the refinement
(`JobLifecycleImplemented`) follow from `IInv` step by step. `OldestIsMember` gives the least
element of a set of scans from the well-foundedness of finite sets under inclusion.

`OvershootIsBounded` needs a second invariant: `CapacityInv` counts the scans in flight together
with the requests that have passed the check and not yet inserted. Passing the check requires
fewer than the limit in flight, and at most all requests are then cleared; an insert moves one
from the second count to the first; nothing else raises either. `OneAtATimeKeepsTheLimit` is its
corollary for a single request.

`CompletedCommitsHit` is for any spellings: the worker writes the full SHA back when it completes
(`RowsInv`), so the identity a request with the full SHA looks up is the one the scan is kept under,
however it was submitted. A request with an abbreviated SHA is the exception the property names.

### ReportPage_proofs
The type invariant, `ShownIsAsked` and `NothingGoesBack` for any set of queries and any number of
changes and failures. Neither is inductive alone. The invariant `AllSound` says of each resource
that every request in flight is about the current query, and that the answer the run id admits
lies between what is shown and the present status of the scan. One lemma per operation of the hook
shows that it keeps a sound record sound and moves no reading back (`LoadedSound` to
`FailedSound`); `AfterKeeps` adds the final refresh; `StepInv` goes through the actions.

### FindingRequests_proofs
`EventsMatchRows`, `AnswersFit` and `UnsentFieldsStay`, for any callers, findings, profiles,
models, restarts, with and without the write lock. The invariant adds to the first two what a
handler carries: the identifiers of handlers in a call are given once and are on no committed row
or event, and the key of a handler is under the model configured now, because a restart that
changes the settings ends every handler.

`GeneratedAtMostPerCaller` and `ItemsBound` are proved by counting. Neither bound is inductive: a
row that is committed was decided on when the handler looked, and others have committed since.
What is inductive is a sum: the completed rows of a key together with the handlers past their miss
for it are at most the callers (`KeyInv`), and the items of a finding together with the handlers
that are to create one (`ItemInv`). A look-up adds a handler only while there is no row; a commit
moves one from the second count to the first (`SumMoves`); everything else shrinks (`SumShrinks`).
A finding with an item of its scan has no handler that is to create one.

### RateLimiter_proofs
`TypeOK` and `RetryAfterSuffices` of the whole stack (`StackSpec`), for any clients, limits, window,
cap and resolution of the clock. The first is a lemma per operation on the ordered dictionary:
`WithoutKeeps` (`move_to_end`), `TouchKeeps`, `EvictKeeps`. The second needs of every window a
client was refused for that it is there and ends by the time the client was told, or has given way
to a later one, or is gone and time has passed (`Told`); `CeilCovers` and `LongerCovers` are the
rounding to whole seconds, `LargestWait` the maximum over the two buckets, and `Goes` what a request
can do to any window. The bounds of the run play no part, but for `MaxTime`, an arbitrary number.

`BurstBound` counts the requests admitted in any stretch as long as a window, as tickets of a set
(`Admissions`). No state of the limiter records them, and the bound on the stretches alone is not
inductive. The invariant `BurstInv` relates the tickets of a client to the table. Of a key with a
window (`Fits`): fewer tickets than its count are later than its start, and what is let through
from less than a window before its start on is at most the limit and its count. Of a key without
one (`Within`): what is let through since less than a window ago is at most the limit. The proviso
`lost` has to name everything that costs a client a count: an open window that the cap takes, and a
window that the very request that opens it cannot keep.

`BodyIsBounded` is about every way to cut a body into pieces. `Size` and `Taken` are recursive
functions over the pieces. A recursive function is a choice of one that meets its equation: that
there is one (`RunExists`) and only one (`RunIsUnique`) is proved from the least counterexample
(`LeastExists`, from the well-foundedness of finite sets), and then what the piecewise count keeps
(`CountedSoFar`): up to the piece that overruns, all that is received is passed on; from it on, nothing.

### Ingestion_proofs
`ExtractionInv`, `ResultIsRight`, `CleanUp` and `TokenStaysHome` for any limits, any archive and
any number of redirects. The invariant says, per phase, what there is of archive, tree and totals,
that a member that became a file passed the checks, and that a tree is torn under its thread only
when the ingestion is over with another outcome than a result. `FailInv` is leaving through the
`try` blocks, `LeaveBehindInv` leaving beside them, which is one of `Leaks` and, but for a kill,
finds the temporary archive gone.

### RuleRun_proofs
`ScopesAreKept` and `ClaimsAreEstablished` for any file: any names, any layout of functions and
classes that nest (`NestingAssumption`), any imports and any number of statements in any order.
- The walk: among the prefixes of a scope there is a longest that qualifies (`InnermostIs`), and
  what a lookup finds is bound in the innermost scope that binds the name at all (`LookupIs`).
- The merge: `MergeRuns` shows that the fold over the assignments is defined and goes through them
  one by one, and `MergeAllIs`, by the least counterexample, what it leaves: a name in the table is
  unknown, or holds what its table or one of its assignments gave it; in the first round, what all
  of them gave it. `DirectIs` and `CombinedIs` are its two uses, `EstablishedIs` and `InferredIs`
  the single step between them.
- The claims: `LookupOfKeys` and `KeysAreSound` for keys; of contexts and markers only that what is
  written in a class body alone is none. The invariant
  `RunInv` says that every reported claim is sound for the file it was made of; `SoundStays`, that
  it remains so while the file does.

The statement of `resolution.py:243` that the code does not keep shows in the proof: the second
round gives no more than "one of its assignments", because `replace_unknown` forgets the unknown.

### Analysis_proofs
All five properties of the run, for any files, any number of matches and any edit. What the proofs
need of a file is that its matches are of the rules and that no two share their place in the order
of `sort_key` (`AnalysisAssumption`); what they need of the names of algorithms is a closed fact
that TLC evaluates (`NamesAssumption`: which names hold which words).
- `GuardrailsHold`, whatever a model replies: the correction removes every category error of the
  branch it takes, and of the other branches all but what `RightForTheOther` names; the filter clears
  the alternatives of a hash and of a cipher; the last step makes "keep" mean it.
- `OfflineAdviceStands`: for each finding of each rule what the heuristics say passes the same three
  steps unchanged.
- `CandidatesLead`: bounds on the sum of four tables (`ScoreBounds`), from either side.
- `RowsAreRight` and `DiffTellsTheEdit`: the sort is a choice of an order, so that one exists is
  proved first, from the smallest keys up (`OrderExists`); then that the rows are
  the first findings of their fingerprints and that the fingerprints of two commits are those of
  their matches. `CommitInv` carries what is stored of the base along the edit.

### RemoteScan_proofs
`DeadlineKept` for any timeout, interval and latency and `ReportTellsTheOutcome` for any number of
findings and any page size, against any server. Three invariants: `JobInv`, what the client holds
for ended has ended that way; `TimeInv`, the time that is left against the time spent since the
last look at the clock, and against what was left when the scan ended; `PageInv`, what has been
read is a prefix of the findings and the page under way continues it. `PageEnds` is the arithmetic
of the last page.

### What is only model-checked
Liveness under fairness is out of the prover's reach: `AcceptedScansEnd`, `RequestsAnswered`,
`StatusCatchesUp`, `FindingsCatchUp`, `EventuallyOver`, `EventuallyExits`. The statements the code
does not keep have their runs only.

The lemmas about computations over a sequence (`LeastExists`, `RunExists`, `RunIsUnique`) stand in
each module of proofs that needs them, so that each can be checked alone.

A remark for whoever extends the proofs: the SMT backend of tlapm 1.4.5 decides the intersection
of two enumerated sets, `{a} \cap {"x", "y"}`, by the look of their elements, and can accept a
false one. No step of these proofs contains such an intersection.

## 7. Not modelled, and why

- Knowledge retrieval: a static corpus and a ranking; only the wording of an answer depends on it.
- The other screens and the views of the frontend: one load per mount through the modelled hook,
  forms and rendering.
- Migrations and deployment: schema changes and scripts; the restart policy is in `ScanSystem`.
- The renderers of the CLI and SARIF: formatting.
- The walk of the Python AST, evidence texts, prompts and the texts of model answers: data no
  property tells apart.
- Within the modelled components: the text of errors and logs, time stamps, `locked_at`, the counters
  of files on the scan row, the list and detail endpoints (reads of one statement), a report page
  that changes to another inspection without unmounting, the repository upsert, the client address
  of the rate limiter, the grammar of repository URLs, the formats of ZIP and tar.
