------------------------- MODULE ReportPage_proofs -------------------------
(***************************************************************************)
(* The report page always shows what it asked for, and never an older      *)
(* reading after a newer one, for any set of queries and any bounds.  Both *)
(* follow from one invariant on the record of a resource, kept by each     *)
(* operation of the hook.                                                  *)
(***************************************************************************)
EXTENDS ReportPage, TLAPS

Keys == Queries \cup {Inspection}

\* A record s of a resource whose loader asks for k, while the scan is at v:
\* all it shows or waits for is about k, and the answer that may still be
\* shown lies between what is shown and v.
Sound(s, k, v) ==
    /\ s.view.status = "success" => s.view.key = k /\ NotAfter(s.view.value, v)
    /\ \A kind \in Kinds : InFlight(s, kind) => s[kind].key = k
    /\ InFlight(s, s.newest) /\ s[s.newest].value # Unread
         => /\ NotAfter(s[s.newest].value, v)
            /\ s.view.status = "success" => NotAfter(s.view.value, s[s.newest].value)

\* What is shown after a step is not older than what was shown before it.
Forward(s, t) ==
    s.view.status = "success" /\ t.view.status = "success"
        => NotAfter(s.view.value, t.view.value)

AllSound == \A r \in Resources : Sound(res[r], asked[r], scan)

Inv == TypeOK /\ AllSound

-----------------------------------------------------------------------------

\* A fresh load is a record that promises nothing yet.
LEMMA LoadedSound ==
    ASSUME NEW k \in Keys, NEW v \in Statuses
    PROVE  Loaded(k) \in Records /\ Sound(Loaded(k), k, v)
BY DEF Loaded, Blank, Call, NoCall, Unread, Records, Views, Calls, Keys, Values,
       Kinds, Sound, InFlight

\* A refresh takes over the right to be shown, with nothing read.
LEMMA RefreshedSound ==
    ASSUME NEW k \in Keys, NEW v \in Statuses, NEW s \in Records, Sound(s, k, v)
    PROVE  /\ Refreshed(s, k) \in Records
           /\ Sound(Refreshed(s, k), k, v)
           /\ Forward(s, Refreshed(s, k))
<1> DEFINE t == Refreshed(s, k)
<1>1. /\ t.view = s.view /\ t.load = s.load /\ t.poll = Call(k) /\ t.newest = "poll"
      /\ t \in Records
    BY DEF Refreshed, Records, Call, Unread, Calls, Keys, Kinds, Values
<1>2. Sound(t, k, v)
    BY <1>1 DEF Sound, Kinds, InFlight, Call, NoCall, Unread
<1>3. Forward(s, t)
    BY <1>1 DEF Forward, NotAfter, Records, Views, Values
<1> QED BY <1>1, <1>2, <1>3

\* What the server reads is its present status, which nothing shown is after.
LEMMA ReadSound ==
    ASSUME NEW k \in Keys, NEW v \in Statuses, NEW s \in Records, Sound(s, k, v),
           NEW kind \in Kinds, InFlight(s, kind), s[kind].value = Unread
    PROVE  /\ Read(s, kind, v) \in Records
           /\ Sound(Read(s, kind, v), k, v)
           /\ Forward(s, Read(s, kind, v))
<1> DEFINE t == Read(s, kind, v)
<1>1. s[kind] \in [key : Keys, value : Values \cup {Unread}]
    BY DEF Records, Calls, Kinds, InFlight, Keys
<1>2. /\ t.view = s.view /\ t.newest = s.newest /\ t \in Records
      /\ t[kind] = [key |-> s[kind].key, value |-> v]
      /\ \A other \in Kinds \ {kind} : t[other] = s[other]
  <2>1. CASE kind = "load"
      BY <1>1, <2>1 DEF Read, Records, Calls, Kinds, Values, Statuses, Keys
  <2>2. CASE kind = "poll"
      BY <1>1, <2>2 DEF Read, Records, Calls, Kinds, Values, Statuses, Keys
  <2> QED BY <2>1, <2>2 DEF Kinds
<1>3. Sound(t, k, v)
  <2>1. s.newest \in Kinds
      BY DEF Records
  <2>2. \A other \in Kinds : InFlight(t, other) => t[other].key = k
      BY <1>2 DEF Sound, InFlight
  <2>3. CASE s.newest = kind
      BY <1>2, <2>2, <2>3 DEF Sound, InFlight, NotAfter
  <2>4. CASE s.newest # kind
      BY <1>2, <2>1, <2>2, <2>4 DEF Sound, InFlight
  <2> QED BY <2>3, <2>4
<1>4. Forward(s, t)
    BY <1>2 DEF Forward, NotAfter, Records, Views, Values
<1> QED BY <1>2, <1>3, <1>4

\* An answer is shown only when it is the newest request's.
LEMMA AnsweredSound ==
    ASSUME NEW k \in Keys, NEW v \in Statuses, NEW s \in Records, Sound(s, k, v),
           NEW kind \in Kinds, InFlight(s, kind), s[kind].value # Unread
    PROVE  /\ Answered(s, kind) \in Records
           /\ Sound(Answered(s, kind), k, v)
           /\ Forward(s, Answered(s, kind))
<1> DEFINE t == Answered(s, kind)
<1>1. /\ s[kind] \in [key : Keys, value : Values] /\ s[kind].key = k
      /\ s.newest \in Kinds
    BY DEF Records, Calls, Kinds, InFlight, Keys, Sound
<1>2. /\ t.view = IF s.newest = kind THEN Shown(s[kind]) ELSE s.view
      /\ t.newest = s.newest
      /\ t[kind] = NoCall
      /\ \A other \in Kinds \ {kind} : t[other] = s[other]
      /\ t \in Records
  <2>0. Shown(s[kind]) \in Views
      BY <1>1 DEF Shown, Views, Keys
  <2>1. CASE kind = "load"
      BY <2>0, <2>1 DEF Answered, Accepts, Records, Calls, Kinds
  <2>2. CASE kind = "poll"
      BY <2>0, <2>2 DEF Answered, Accepts, Records, Calls, Kinds
  <2> QED BY <2>1, <2>2 DEF Kinds
<1>3. \A other \in Kinds : InFlight(t, other) => t[other].key = k
    BY <1>2 DEF Sound, InFlight
<1>4. CASE s.newest = kind
  <2>1. /\ t.view.status = "success" /\ t.view.key = k
        /\ t.view.value = s[kind].value
        /\ ~InFlight(t, t.newest)
      BY <1>1, <1>2, <1>4 DEF Shown, InFlight
  <2>2. NotAfter(s[kind].value, v) /\ Forward(s, t)
      BY <1>4, <2>1 DEF Sound, Forward
  <2> QED BY <1>2, <1>3, <2>1, <2>2 DEF Sound
<1>5. CASE s.newest # kind
  <2>1. t.view = s.view /\ t[t.newest] = s[s.newest] /\ t.newest = s.newest
      BY <1>1, <1>2, <1>5
  <2>2. Forward(s, t)
      BY <2>1 DEF Forward, NotAfter
  <2> QED BY <1>2, <1>3, <2>1, <2>2 DEF Sound, InFlight
<1> QED BY <1>4, <1>5

\* A failure shows an error or nothing new.
LEMMA FailedSound ==
    ASSUME NEW k \in Keys, NEW v \in Statuses, NEW s \in Records, Sound(s, k, v),
           NEW kind \in Kinds, InFlight(s, kind)
    PROVE  /\ Failed(s, kind) \in Records
           /\ Sound(Failed(s, kind), k, v)
           /\ Forward(s, Failed(s, kind))
<1> DEFINE t == Failed(s, kind)
<1>0. s.newest \in Kinds
    BY DEF Records
<1>1. /\ t.view \in {s.view, Blank("error")}
      /\ t.newest = s.newest
      /\ t[kind] = NoCall
      /\ \A other \in Kinds \ {kind} : t[other] = s[other]
      /\ t \in Records
  <2>0. Blank("error") \in Views
      BY DEF Blank, Views
  <2>1. CASE kind = "load"
      BY <2>0, <2>1 DEF Failed, Records, Calls, Kinds
  <2>2. CASE kind = "poll"
      BY <2>0, <2>2 DEF Failed, Records, Calls, Kinds
  <2> QED BY <2>1, <2>2 DEF Kinds
<1>2. \A other \in Kinds : InFlight(t, other) => t[other].key = k
    BY <1>1 DEF Sound, InFlight
<1>3. t.view = s.view \/ t.view.status # "success"
    BY <1>1 DEF Blank
<1>4. Forward(s, t)
    BY <1>3 DEF Forward, NotAfter
<1>5. InFlight(t, t.newest) => t[t.newest] = s[s.newest]
    BY <1>0, <1>1 DEF InFlight
<1> QED BY <1>1, <1>2, <1>3, <1>4, <1>5 DEF Sound, InFlight

\* The scan only moves from running to its end.
LEMMA EndSound ==
    ASSUME NEW s, NEW k, NEW w, Sound(s, k, "running")
    PROVE  Sound(s, k, w)
BY DEF Sound, NotAfter

-----------------------------------------------------------------------------

\* The initial state is typed and sound.
LEMMA InitInv == Init => Inv
<1> SUFFICES ASSUME Init PROVE Inv
  OBVIOUS
<1>1. asked \in [Resources -> Keys] /\ scan \in Statuses
  BY DEF Init, Resources, Keys
<1>2. \A r \in Resources : res[r] \in Records /\ Sound(res[r], asked[r], scan)
  BY <1>1, LoadedSound DEF Init
<1>3. res \in [Resources -> Records]
  BY <1>2 DEF Init
<1> QED
  BY <1>1, <1>2, <1>3, PageAssumption DEF Init, Inv, TypeOK, AllSound, Keys

\* What a step leaves of the invariant and of the order of readings.
StepKeeps ==
    /\ res' \in [Resources -> Records]
    /\ \A r \in Resources : Sound(res'[r], asked'[r], scan')
    /\ \A r \in Resources : asked'[r] = asked[r] => Forward(res[r], res'[r])

\* A request for r that left it as `now`, in a sound record, leaves the page
\* sound: the refresh of the findings that may follow is one as well.
LEMMA AfterKeeps ==
    ASSUME Inv, NEW r \in Resources, NEW now \in Records,
           Sound(now, asked[r], scan), Forward(res[r], now),
           res' = After(r, now), UNCHANGED <<scan, asked>>
    PROVE  StepKeeps
<1>1. /\ res \in [Resources -> Records] /\ asked \in [Resources -> Keys]
      /\ scan \in Statuses
      /\ \A x \in Resources : Sound(res[x], asked[x], scan)
  BY DEF Inv, TypeOK, AllSound, Keys
<1>2. \A x \in Resources : Forward(res[x], res[x])
  BY DEF Forward, NotAfter
<1>3. CASE r = "inspection"
  <2> DEFINE f == res'["findings"]
  <2>1. /\ res' = [inspection |-> now, findings |-> f]
        /\ \/ f = Refreshed(res["findings"], asked["findings"])
           \/ f = res["findings"]
    BY <1>3 DEF After, AfterInspection
  <2>2. /\ asked["findings"] \in Keys /\ res["findings"] \in Records
        /\ Sound(res["findings"], asked["findings"], scan)
        /\ Forward(res["findings"], res["findings"])
    BY <1>1, <1>2 DEF Resources
  <2>3. f \in Records /\ Sound(f, asked["findings"], scan) /\ Forward(res["findings"], f)
    <3> HIDE DEF f
    <3> QED
      BY <1>1, <2>1, <2>2, RefreshedSound
  <2>4. res'["inspection"] = now
    BY <2>1
  <2>5. res' \in [Resources -> Records]
    <3> HIDE DEF f
    <3> QED
      BY <2>1, <2>3 DEF Resources
  <2> QED
    BY <1>3, <2>3, <2>4, <2>5 DEF StepKeeps, Resources
<1>4. CASE r = "findings"
  <2>1. res' = [res EXCEPT ![r] = now]
    BY <1>4 DEF After
  <2> QED
    BY <1>1, <1>2, <2>1 DEF StepKeeps
<1> QED
  BY <1>3, <1>4 DEF Resources

\* Every step types the counters, keeps the records sound and moves no
\* reading back.
LEMMA StepInv ==
    ASSUME Inv, [Next]_vars
    PROVE  /\ Inv'
           /\ StepKeeps
<1>1. /\ res \in [Resources -> Records] /\ asked \in [Resources -> Keys]
      /\ scan \in Statuses
      /\ changes \in 0..MaxChanges /\ failures \in 0..MaxFailures
      /\ MaxChanges \in Nat /\ MaxFailures \in Nat
      /\ \A x \in Resources : Sound(res[x], asked[x], scan)
  BY PageAssumption DEF Inv, TypeOK, AllSound, Keys
<1>2. \A x \in Resources : Forward(res[x], res[x])
  BY DEF Forward, NotAfter
<1>3. SUFFICES /\ StepKeeps
               /\ scan' \in Statuses /\ asked' \in [Resources -> Keys]
               /\ changes' \in 0..MaxChanges /\ failures' \in 0..MaxFailures
  BY DEF Inv, TypeOK, AllSound, StepKeeps, Keys
<1>4. CASE ScanEnds
  <2>1. scan = "running" /\ scan' \in Statuses
        /\ UNCHANGED <<asked, res, changes, failures>>
    BY <1>4 DEF ScanEnds, Ended, Statuses
  <2>2. \A x \in Resources : Sound(res[x], asked[x], scan')
    BY <1>1, <2>1, EndSound
  <2> QED
    BY <1>1, <1>2, <2>1, <2>2 DEF StepKeeps
<1>5. ASSUME NEW r \in Resources, NEW kind \in Kinds, Serve(r, kind)
      PROVE  StepKeeps /\ UNCHANGED <<scan, asked, changes, failures>>
  <2>1. /\ res' = [res EXCEPT ![r] = Read(res[r], kind, scan)]
        /\ UNCHANGED <<scan, asked, changes, failures>>
        /\ InFlight(res[r], kind) /\ res[r][kind].value = Unread
    BY <1>5 DEF Serve
  <2>2. /\ Read(res[r], kind, scan) \in Records
        /\ Sound(Read(res[r], kind, scan), asked[r], scan)
        /\ Forward(res[r], Read(res[r], kind, scan))
    BY <1>1, <2>1, ReadSound
  <2> QED
    BY <1>1, <1>2, <2>1, <2>2 DEF StepKeeps
<1>6. ASSUME NEW r \in Resources, NEW kind \in Kinds, Settle(r, kind)
      PROVE  StepKeeps /\ UNCHANGED <<scan, asked, changes, failures>>
  <2>1. /\ res' = After(r, Answered(res[r], kind))
        /\ UNCHANGED <<scan, asked, changes, failures>>
        /\ InFlight(res[r], kind) /\ res[r][kind].value # Unread
    BY <1>6 DEF Settle
  <2>2. /\ Answered(res[r], kind) \in Records
        /\ Sound(Answered(res[r], kind), asked[r], scan)
        /\ Forward(res[r], Answered(res[r], kind))
    BY <1>1, <2>1, AnsweredSound
  <2> QED
    BY <2>1, <2>2, AfterKeeps
<1>7. ASSUME NEW r \in Resources, NEW kind \in Kinds, Fail(r, kind)
      PROVE  /\ StepKeeps /\ UNCHANGED <<scan, asked, changes>>
             /\ failures' \in 0..MaxFailures
  <2>1. /\ res' = After(r, Failed(res[r], kind))
        /\ UNCHANGED <<scan, asked, changes>>
        /\ InFlight(res[r], kind)
        /\ failures' \in 0..MaxFailures
    BY <1>1, <1>7 DEF Fail
  <2>2. /\ Failed(res[r], kind) \in Records
        /\ Sound(Failed(res[r], kind), asked[r], scan)
        /\ Forward(res[r], Failed(res[r], kind))
    BY <1>1, <2>1, FailedSound
  <2> QED
    BY <2>1, <2>2, AfterKeeps
<1>8. ASSUME NEW r \in Resources, Poll(r)
      PROVE  StepKeeps /\ UNCHANGED <<scan, asked, changes, failures>>
  <2>1. /\ res' = [res EXCEPT ![r] = Refreshed(res[r], asked[r])]
        /\ UNCHANGED <<scan, asked, changes, failures>>
    BY <1>8 DEF Poll
  <2>2. /\ Refreshed(res[r], asked[r]) \in Records
        /\ Sound(Refreshed(res[r], asked[r]), asked[r], scan)
        /\ Forward(res[r], Refreshed(res[r], asked[r]))
    BY <1>1, RefreshedSound
  <2> QED
    BY <1>1, <1>2, <2>1, <2>2 DEF StepKeeps
<1>9. ASSUME NEW r \in Resources, Reload(r)
      PROVE  StepKeeps /\ UNCHANGED <<scan, asked, changes, failures>>
  <2>1. /\ res' = [res EXCEPT ![r] = Loaded(asked[r])]
        /\ UNCHANGED <<scan, asked, changes, failures>>
    BY <1>9 DEF Reload
  <2>2. Loaded(asked[r]) \in Records /\ Sound(Loaded(asked[r]), asked[r], scan)
    BY <1>1, LoadedSound
  <2>3. Forward(res[r], Loaded(asked[r]))
    BY DEF Forward, Loaded, Blank
  <2> QED
    BY <1>1, <1>2, <2>1, <2>2, <2>3 DEF StepKeeps
<1>10. ASSUME NEW q \in Queries, ChangeQuery(q)
       PROVE  /\ StepKeeps /\ UNCHANGED <<scan, failures>>
              /\ asked' \in [Resources -> Keys] /\ changes' \in 0..MaxChanges
  <2>1. /\ res' = [res EXCEPT !["findings"] = Loaded(q)]
        /\ asked' = [asked EXCEPT !["findings"] = q]
        /\ changes' \in 0..MaxChanges
        /\ UNCHANGED <<scan, failures>>
    BY <1>1, <1>10 DEF ChangeQuery
  <2>2. Loaded(q) \in Records /\ Sound(Loaded(q), q, scan) /\ q \in Keys
    BY <1>1, LoadedSound DEF Keys
  <2>3. Forward(res["findings"], Loaded(q))
    BY DEF Forward, Loaded, Blank
  <2> QED
    BY <1>1, <1>2, <2>1, <2>2, <2>3 DEF StepKeeps
<1>11. CASE UNCHANGED vars
  BY <1>1, <1>2, <1>11 DEF vars, StepKeeps
<1> QED
  BY <1>1, <1>4, <1>5, <1>6, <1>7, <1>8, <1>9, <1>10, <1>11 DEF Next

\* The inductive invariant of the page.
LEMMA PageInvariant == Spec => []Inv
<1>1. Inv /\ [Next]_vars => Inv'
  BY StepInv
<1> QED
  BY InitInv, <1>1, PTL DEF Spec

-----------------------------------------------------------------------------
(* The theorems *)

\* Every reachable state of the page has its type.
THEOREM TypeCorrect == Spec => []TypeOK
<1>1. Inv => TypeOK
  BY DEF Inv
<1> QED
  BY PageInvariant, <1>1, PTL

\* Data on screen always answers the query the page asks now.
THEOREM ShownAnswersAsked == Spec => []ShownIsAsked
<1>1. Inv => ShownIsAsked
  BY DEF Inv, AllSound, Sound, ShownIsAsked
<1> QED
  BY PageInvariant, <1>1, PTL

\* No step replaces a reading on screen by an older one.
THEOREM NeverGoesBack == Spec => NothingGoesBack
<1>1. Inv /\ [Next]_vars
      => [\A r \in Resources :
            /\ res[r].view.status = "success"
            /\ res'[r].view.status = "success"
            /\ asked'[r] = asked[r]
            => NotAfter(res[r].view.value, res'[r].view.value)]_vars
  BY StepInv DEF StepKeeps, Forward
<1> QED
  BY PageInvariant, <1>1, PTL DEF Spec, NothingGoesBack

=============================================================================
