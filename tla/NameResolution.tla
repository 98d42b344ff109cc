--------------------------- MODULE NameResolution ---------------------------
(***************************************************************************)
(* What the rules establish of local names (engine/rules/resolution.py and  *)
(* the rules that use it): which names hold which half of a key, an AES    *)
(* context or the marker of an algorithm.                                  *)
(***************************************************************************)
EXTENDS ParsedFile

CONSTANT None

\* Functions and classes nest: the class of a method is outside its function, the
\* class of a class body inside the function around it.
ASSUME NestingAssumption ==
    \A place \in Places :
        /\ place.function \in Seq(STRING)
        /\ place.class # NoClass =>
               /\ place.class \in Seq(STRING)
               /\ \/ IsPrefix(place.class, place.function)
                  \/ IsStrictPrefix(place.function, place.class)

Halves == {"PRIVATE", "PUBLIC"}
Contexts == {"CIPHER", "AEAD"}

ASSUME NoneAssumption == None \notin Halves

\* The import index has one entry for a name: the last import of the file wins,
\* in whichever scope it is.
Resolves == imports # << >> /\ Last(imports) = "crypto"

\* A class attribute is no bare name in the methods; the class of a method is
\* not inside the method's function.
IsClassBody(place) == place.class # NoClass /\ IsStrictPrefix(place.function, place.class)

\* Which of the assignments bind a bare name, by their place in the source.
Candidates == {i \in DOMAIN assignments : ~IsClassBody(assignments[i].place)}

Key(a) == <<a.place.function, a.name>>

\* The parameters of a function and every name that is stored in it: what is
\* assigned is a store as well, in a class body too.
LocallyBound(scope) ==
    {p[2] : p \in {q \in parameters \cup stores : q[1] = scope}}
        \cup {assignments[i].name :
                 i \in {j \in DOMAIN assignments : assignments[j].place.function = scope}}

\* scope_chain: the enclosing functions and the module.
ScopeChain(scope) == {s \in FunctionScopes : IsPrefix(s, scope)} \cup {Module}

\* The first scope of a chain, of those that qualify, in a walk outwards.
Innermost(scopes) == CHOOSE s \in scopes : \A t \in scopes : Len(t) <= Len(s)

\* Defect for ScopesAreKept: the walk goes on past a name bound locally.
LookupThroughLocals(bindings, scope, name) ==
    LET hits == {s \in ScopeChain(scope) : <<s, name>> \in DOMAIN bindings}
    IN IF hits = {} THEN None ELSE bindings[<<Innermost(hits), name>>]

\* The first level that binds the name decides, whether it is established or not.
Lookup(bindings, scope, name) ==
    LET stops == {s \in ScopeChain(scope) :
                     <<s, name>> \in DOMAIN bindings \/ name \in LocallyBound(s)}
        at == <<Innermost(stops), name>>
    IN IF stops # {} /\ at \in DOMAIN bindings THEN bindings[at] ELSE None

-----------------------------------------------------------------------------

\* _collect_annotations: two that disagree cancel each other.
Annotated ==
    LET usable == IF Resolves THEN {a \in annotations : ~IsClassBody(a.place)} ELSE {}
        Of(key) == {a.kind : a \in {b \in usable : Key(b) = key}}
        agreed == {key \in {Key(a) : a \in usable} : Cardinality(Of(key)) = 1}
    IN [key \in agreed |-> CHOOSE kind \in Of(key) : TRUE]

Constructed(a) ==
    IF a.value.how = "call" /\ a.value.of \in Halves /\ Resolves THEN a.value.of ELSE None

\* merge: a disagreement erases the name, but in the second round a name that was
\* left unknown takes what comes.
Merge(table, key, kind, replaceUnknown) ==
    IF key \notin DOMAIN table
    THEN [k \in DOMAIN table \cup {key} |-> IF k = key THEN kind ELSE table[k]]
    ELSE IF table[key] = kind THEN table
    ELSE IF replaceUnknown /\ table[key] = None THEN [table EXCEPT ![key] = kind]
    ELSE [table EXCEPT ![key] = None]

\* In source order, the assignments that a kind is given for.
MergeAll(table, kinds, replaceUnknown) ==
    LET after[n \in 0..Len(assignments)] ==
            IF n = 0 THEN table
            ELSE IF n \notin DOMAIN kinds THEN after[n - 1]
            ELSE Merge(after[n - 1], Key(assignments[n]), kinds[n], replaceUnknown)
    IN after[Len(assignments)]

\* The first round: what is called.
Direct == MergeAll(<< >>, [i \in Candidates |-> Constructed(assignments[i])], FALSE)

\* Defect for ClaimsAreEstablished: a name that another name was derived from counts too.
EstablishedByAny(scope, name) ==
    LET given == Lookup(Annotated, scope, name)
        prior == {i \in Candidates : Key(assignments[i]) = <<scope, name>>}
    IN IF given # None THEN given
       ELSE IF prior # {} /\ Resolves THEN "PRIVATE" ELSE None

\* What a derivation or an alias may start from: an annotation in sight, or a
\* constructor in the same scope.
Established(scope, name) ==
    LET given == Lookup(Annotated, scope, name)
        key == <<scope, name>>
    IN IF given # None THEN given
       ELSE IF key \in DOMAIN Direct THEN Direct[key] ELSE None

Inferred(a) ==
    CASE a.value.how = "derive" ->
             IF Established(a.place.function, a.value.of) = "PRIVATE" THEN "PUBLIC" ELSE None
      [] a.value.how = "alias" -> Established(a.place.function, a.value.of)
      [] OTHER -> None

\* The second round takes up what the first one left.
Combined ==
    LET rest == {i \in Candidates : Constructed(assignments[i]) = None}
    IN MergeAll(Direct, [i \in rest |-> Inferred(assignments[i])], TRUE)

\* An annotation is not overridden.
Bindings ==
    LET annotated == Annotated
        combined == Combined
        assigned == {key \in DOMAIN combined \ DOMAIN annotated : combined[key] # None}
    IN [key \in DOMAIN annotated \cup assigned |->
            IF key \in DOMAIN annotated
            THEN [kind |-> annotated[key], confidence |-> "HIGH"]
            ELSE [kind |-> combined[key], confidence |-> "MEDIUM"]]

-----------------------------------------------------------------------------

AssignedIn(scope, name) ==
    {assignments[i].value :
        i \in {j \in DOMAIN assignments :
                  Key(assignments[j]) = <<scope, name>> /\ ~IsClassBody(assignments[j].place)}}

\* The one call that every assignment of a name in a scope makes, of some kinds:
\* names_assigned_from and the contexts of the AES rule.
AllOf(values, kinds) ==
    IF Resolves /\ \E k \in kinds : values = {[how |-> "call", of |-> k]}
    THEN (CHOOSE v \in values : TRUE).of
    ELSE None

\* The context a name holds: in the function itself, else in the module, whether
\* or not the function binds the name otherwise.
ContextOf(scope, name) ==
    LET own == AllOf(AssignedIn(scope, name), Contexts) IN
    IF own # None THEN own ELSE AllOf(AssignedIn(Module, name), Contexts)

MarkerOf(scope, name) == AllOf(AssignedIn(scope, name), {"MARKER"})

\* What the rules say of a name used in a function, when its use is one that the
\* half of the key, the context or the marker allows.
Claims(bindings, scope, name) ==
    LET binding == Lookup(bindings, scope, name)
        context == ContextOf(scope, name)
        marker == MarkerOf(scope, name)
    IN {[rule |-> "KEY", kind |-> b.kind, confidence |-> b.confidence] : b \in {binding} \ {None}}
         \cup {[rule |-> "AES", kind |-> c, confidence |-> "MEDIUM"] : c \in {context} \ {None}}
         \cup {[rule |-> "MARKER", kind |-> k, confidence |-> "MEDIUM"] : k \in {marker} \ {None}}

=============================================================================
