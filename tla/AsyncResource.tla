--------------------------- MODULE AsyncResource ---------------------------
(***************************************************************************)
(* useAsyncResource, the hook every screen loads its data with: what the   *)
(* screen shows of a resource and the requests in flight for it, at most   *)
(* one foreground load and one background refresh.  An aborted request     *)
(* leaves the record: its rejection is ignored (useAsyncResource.ts:43).   *)
(* A superseded one stays in flight until it is answered, and `newest`,    *)
(* the current run id, says which of the two may still be shown.           *)
(***************************************************************************)

Kinds == {"load", "poll"}
Unread == "unread"        \* the server has not answered yet
NoCall == [key |-> "none", value |-> "none"]

Call(k) == [key |-> k, value |-> Unread]
InFlight(s, kind) == s[kind] # NoCall

Blank(status) == [status |-> status, key |-> "none", value |-> "none"]
Shown(c) == [status |-> "success", key |-> c.key, value |-> c.value]

\* The effect on mount, on a change of the dependencies and on reload(): the
\* clean-up aborts both requests, then the loader runs in the foreground.
Loaded(k) ==
    [view |-> Blank("loading"), load |-> Call(k), poll |-> NoCall, newest |-> "load"]

\* refresh(): aborts the refresh before it, and only that, and supersedes
\* whatever is in flight.
Refreshed(s, k) == [s EXCEPT !.poll = Call(k), !.newest = "poll"]

\* The server reads the value it will answer with.
Read(s, kind, v) == [s EXCEPT ![kind].value = v]

\* Defect for NothingGoesBack: a late answer of a superseded request counts.
AcceptsAny(s, kind) == kind \in Kinds

\* Only the request with the current run id may be shown.
Accepts(s, kind) == s.newest = kind

Answered(s, kind) ==
    [s EXCEPT ![kind] = NoCall,
              !.view = IF Accepts(s, kind) THEN Shown(s[kind]) ELSE @]

\* Defect for StatusCatchesUp: a failed poll replaces the screen by an error.
FailedLoudly(s, kind) ==
    [s EXCEPT ![kind] = NoCall,
              !.view = IF Accepts(s, kind) THEN Blank("error") ELSE @]

\* Only a foreground load shows its error.
Failed(s, kind) ==
    [s EXCEPT ![kind] = NoCall,
              !.view = IF Accepts(s, kind) /\ kind = "load" THEN Blank("error") ELSE @]

=============================================================================
