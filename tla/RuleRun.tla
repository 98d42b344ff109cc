------------------------------ MODULE RuleRun -------------------------------
(***************************************************************************)
(* A file from the parser to the observations of the rules: whatever is    *)
(* written in it, what may be claimed of the names it uses.                *)
(***************************************************************************)
EXTENDS NameResolution

VARIABLE matches   \* None, or the observations of every name in every scope

vars == <<fileVars, matches>>

Scopes == FunctionScopes \cup {Module}

Init == FileInit /\ matches = None

RecordStatement ==
    \/ \E place \in FunctionPlaces, name \in Names, kinds \in {{}} \cup {{h} : h \in Halves} :
           RecordParameter(place, name, kinds)
    \/ \E place \in layout, name \in Names, value \in Values : RecordAssignment(place, name, value)
    \/ \E place \in layout, name \in Names, value \in Values, kind \in Halves :
           RecordAnnotatedAssignment(place, name, value, kind)
    \/ \E place \in layout, name \in Names : RecordStore(place, name)
    \/ \E place \in FunctionPlaces, kind \in Halves : RecordReturnType(place, kind)

Record ==
    /\ matches = None
    /\ \/ MayRecord /\ RecordStatement /\ Statements' <= MaxStatements
       \/ RecordError
    /\ UNCHANGED matches

\* evaluate_file: each call once to each rule; the indexes are built from the
\* whole file.
Evaluate ==
    /\ matches = None
    /\ LET bindings == Bindings IN
       matches' = UNION {{[scope |-> s, name |-> n, claim |-> c] : c \in Claims(bindings, s, n)} :
                            s \in Scopes, n \in Names}
    /\ UNCHANGED fileVars

Next == Record \/ Evaluate

Spec == Init /\ [][Next]_vars

-----------------------------------------------------------------------------
(***************************************************************************)
(* Properties.                                                             *)
(***************************************************************************)

\* Type invariant; a file that does not parse supports no observation.
TypeOK ==
    /\ layout \in Layouts
    /\ parameters \cup stores \subseteq Scopes \X Names
    /\ Statements <= MaxStatements
    /\ error => matches \in {None, {}}

Reported == IF matches = None THEN {} ELSE matches
KeyClaims == {m \in Reported : m.claim.rule = "KEY"}

AnnotatedAs(scope, name) ==
    {a.kind : a \in {b \in annotations : Key(b) = <<scope, name>> /\ ~IsClassBody(b.place)}}

\* A scope binds a name when the parser records it as a parameter or as stored
\* there, or when all its annotations there agree.
Binds(scope, name) == name \in LocallyBound(scope) \/ Cardinality(AnnotatedAs(scope, name)) = 1

\* Of the scopes seen from a scope, the innermost one that binds the name, or the module.
HomeOf(scope, name) == Innermost({s \in ScopeChain(scope) : Binds(s, name) \/ s = Module})

Home(m) == HomeOf(m.scope, m.name)

\* A claim about a key rests on the innermost scope that binds the name, on an
\* annotation or an assignment there: a parameter, a loop variable or a local of
\* unknown origin, once the parser records it, never inherits the binding of an
\* outer scope.  A name that Python binds and the parser does not record
\* (RecordStore) does inherit it.
LocalNamesShadow ==
    \A m \in KeyClaims :
        m.claim.kind \in AnnotatedAs(Home(m), m.name) \/ AssignedIn(Home(m), m.name) # {}

\* What an annotation says of a name is what is reported of it in that scope,
\* with high confidence, whatever is assigned to the name.
AnnotationStands ==
    \A m \in KeyClaims :
        LET said == AnnotatedAs(Home(m), m.name) IN
        Cardinality(said) = 1 => said = {m.claim.kind} /\ m.claim.confidence = "HIGH"

\* All that is assigned to a name in a scope is one constructor.
OnlyBuilt(scope, name, kind) == AssignedIn(scope, name) = {[how |-> "call", of |-> kind]}

\* What a derivation or an alias may start from: a name that an annotation in
\* sight says to be of a kind, or that all its assignments in the scope build so.
HeldAs(scope, name, kind) ==
    AnnotatedAs(HomeOf(scope, name), name) = {kind} \/ OnlyBuilt(scope, name, kind)

\* Grounds of one step: all that is assigned to the name builds that half of the
\* pair, or one assignment takes it from a name that is held as that half, or the
\* public half from a name that is held as the private one.
Grounds(scope, name, kind) ==
    \/ OnlyBuilt(scope, name, kind)
    \/ \E v \in AssignedIn(scope, name) :
           \/ v.how = "alias" /\ HeldAs(scope, v.of, kind)
           \/ v.how = "derive" /\ kind = "PUBLIC" /\ HeldAs(scope, v.of, "PRIVATE")

\* What is claimed with medium confidence has grounds of one step.  One assignment
\* that infers the kind is enough, whatever else is assigned to the name in a way
\* that is no constructor (UnknownAssignmentUnbinds).
OneHop ==
    \A m \in KeyClaims :
        m.claim.confidence = "MEDIUM" => Grounds(Home(m), m.name, m.claim.kind)

\* Told by the layout: the place of a class body has the class innermost.
IsBody(place) == place.class # NoClass /\ Len(place.class) > Len(place.function)

\* What is written in a class body alone is never claimed of a bare name: neither
\* as a key nor as an AES context or a marker.
ClassAttributesStayOut ==
    \A m \in Reported :
        \/ \E i \in DOMAIN assignments :
               assignments[i].name = m.name /\ ~IsBody(assignments[i].place)
        \/ \E a \in annotations : a.name = m.name /\ ~IsBody(a.place)

\* What a name may be claimed to be is looked up from the inside out through the
\* scopes of functions, as far as the parser records what they bind, and never in
\* the body of a class.
ScopesAreKept == LocalNamesShadow /\ ClassAttributesStayOut

\* What is claimed of a key is what its annotation says, or has grounds of one step.
ClaimsAreEstablished == TypeOK /\ AnnotationStands /\ OneHop

\* resolution.py says of the assignments of a scope: a name assigned anywhere
\* from something the rule cannot establish is left unbound.
UnknownAssignmentUnbinds ==
    \A m \in KeyClaims :
        m.claim.confidence = "MEDIUM" =>
            [how |-> "call", of |-> "anything"] \notin AssignedIn(Home(m), m.name)

=============================================================================
