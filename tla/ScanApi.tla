------------------------------ MODULE ScanApi -------------------------------
(***************************************************************************)
(* POST /api/v1/scans: create_scan of app/services/scans.py.  Endpoints run *)
(* in a thread pool, each with its own session, so every query of a        *)
(* request is a step of its own.                                           *)
(***************************************************************************)
EXTENDS ScanStore

CONSTANTS
    Requests,          \* requests that may be in progress at once
    MaxInFlightScans,  \* settings.max_in_flight_scans
    SubmitForms        \* forms of SHA the clients send: "full", "short"

ASSUME ApiAssumption ==
    /\ IsFiniteSet(Requests)
    /\ Requests # {}
    /\ MaxInFlightScans \in Nat \ {0}

VARIABLES
    rpc,       \* rpc[r]: where the request stands
    rproc,     \* rproc[r]: the process serving it
    rsha,      \* rsha[r]: the normalised SHA it asks for
    rscan      \* rscan[r]: the scan it answers with

apiVars == <<rpc, rproc, rsha, rscan>>

ApiTypeOK ==
    /\ rpc \in [Requests -> {"idle", "lookup", "capacity", "insert",
                             "cached", "queued", "rejected"}]
    /\ rproc \in [Requests -> Procs \cup {None}]
    /\ rsha \in [Requests -> Shas \cup {None}]
    /\ rscan \in [Requests -> Scans \cup {None}]

ApiInit ==
    /\ rpc = [r \in Requests |-> "idle"]
    /\ rproc = [r \in Requests |-> None]
    /\ rsha = [r \in Requests |-> None]
    /\ rscan = [r \in Requests |-> None]

-----------------------------------------------------------------------------

Unused == {s \in Scans : scanStatus[s] = "NONE"}

\* Model bound: a submission starts only if its insert would find room.
RoomToSubmit ==
    Cardinality({r \in Requests : rpc[r] \in {"lookup", "capacity", "insert"}})
        < Cardinality(Unused)

Submittable ==
    {x \in Shas : (IF x \in Commits THEN "full" ELSE "short") \in SubmitForms}

\* The request is routed, its SHA normalised, its repository row upserted.
Submit(r, p, x) ==
    /\ phase[p] = "up"
    /\ rpc[r] = "idle"
    /\ RoomToSubmit
    /\ rpc' = [rpc EXCEPT ![r] = "lookup"]
    /\ rproc' = [rproc EXCEPT ![r] = p]
    /\ rsha' = [rsha EXCEPT ![r] = x]
    /\ UNCHANGED <<storeVars, rscan>>

\* find_completed_scan under the identity of the build serving the request.
LookUp(r) ==
    LET hits == CompletedWith(rsha[r], engine[rproc[r]]) IN
    /\ rpc[r] = "lookup"
    /\ IF hits = {}
       THEN rpc' = [rpc EXCEPT ![r] = "capacity"] /\ UNCHANGED rscan
       ELSE /\ rpc' = [rpc EXCEPT ![r] = "cached"]
            /\ rscan' = [rscan EXCEPT ![r] = Oldest(hits)]
    /\ UNCHANGED <<storeVars, rproc, rsha>>

\* Defect for InFlightBound: only RUNNING scans are counted.
CheckCapacityRunningOnly(r) ==
    LET running == {s \in Scans : scanStatus[s] = "RUNNING"} IN
    /\ rpc[r] = "capacity"
    /\ rpc' = [rpc EXCEPT ![r] = IF Cardinality(running) >= MaxInFlightScans
                                 THEN "rejected" ELSE "insert"]
    /\ UNCHANGED <<storeVars, rproc, rsha, rscan>>

\* _assert_in_flight_capacity
CheckCapacity(r) ==
    /\ rpc[r] = "capacity"
    /\ rpc' = [rpc EXCEPT ![r] = IF Cardinality(InFlight) >= MaxInFlightScans
                                 THEN "rejected" ELSE "insert"]
    /\ UNCHANGED <<storeVars, rproc, rsha, rscan>>

\* The new Scan and its ScanJob, committed together.  created_at is taken
\* when the rows are flushed, so rows need not become visible in its order.
Enqueue(r, s) ==
    /\ scanStatus' = [scanStatus EXCEPT ![s] = "QUEUED"]
    /\ sha' = [sha EXCEPT ![s] = rsha[r]]
    /\ stamp' = [stamp EXCEPT ![s] = engine[rproc[r]]]
    /\ jobStatus' = [jobStatus EXCEPT ![s] = "QUEUED"]
    /\ UNCHANGED <<rows, attempts, lockedBy, procVars>>

Insert(r) ==
    /\ rpc[r] = "insert"
    /\ \E s \in Unused : Enqueue(r, s) /\ rscan' = [rscan EXCEPT ![r] = s]
    /\ rpc' = [rpc EXCEPT ![r] = "queued"]
    /\ UNCHANGED <<dbFaults, rproc, rsha>>

Forget(R) ==
    /\ rpc' = [r \in Requests |-> IF r \in R THEN "idle" ELSE rpc[r]]
    /\ rproc' = [r \in Requests |-> IF r \in R THEN None ELSE rproc[r]]
    /\ rsha' = [r \in Requests |-> IF r \in R THEN None ELSE rsha[r]]
    /\ rscan' = [r \in Requests |-> IF r \in R THEN None ELSE rscan[r]]

\* Defect for RequestsAnswered: the refusal is raised but never answered.
RespondUnlessRejected(r) ==
    /\ rpc[r] \in {"cached", "queued"}
    /\ Forget({r})
    /\ UNCHANGED storeVars

\* 200 with the cached scan, 202 with the queued one, or 429.
Respond(r) ==
    /\ rpc[r] \in {"cached", "queued", "rejected"}
    /\ Forget({r})
    /\ UNCHANGED storeVars

\* A query raises: the session is closed and the client gets a 500.
RequestFault(r) ==
    /\ rpc[r] \in {"lookup", "capacity", "insert"}
    /\ DbFault
    /\ Forget({r})
    /\ UNCHANGED <<scanVars, lockVars, procVars>>

\* The same, but the commit had reached the database: the client that gets the
\* 500 has a scan queued, and will queue another if it tries again.
InsertUnanswered(r) ==
    /\ rpc[r] = "insert"
    /\ DbFault
    /\ \E s \in Unused : Enqueue(r, s)
    /\ Forget({r})

Handle(r) == LookUp(r) \/ CheckCapacity(r) \/ Insert(r) \/ Respond(r)

ApiStep(r) ==
    \/ \E p \in Procs, x \in Submittable : Submit(r, p, x)
    \/ Handle(r)
    \/ RequestFault(r)
    \/ InsertUnanswered(r)

=============================================================================
