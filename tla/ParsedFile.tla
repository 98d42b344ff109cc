----------------------------- MODULE ParsedFile -----------------------------
(***************************************************************************)
(* What the parser keeps of a Python file (engine/parser): the imports, the *)
(* functions with their parameters, and, in source order, the assignments, *)
(* the other stores and the annotations, each with the function and the    *)
(* class around it.  A qualified name is the sequence of its parts, << >>  *)
(* for the module; a file that does not parse records nothing.             *)
(***************************************************************************)
EXTENDS Naturals, SequencesExt, FiniteSets

CONSTANTS
    Names,          \* local names
    Calls,          \* what a right-hand side may call
    Layouts,        \* sets of places, each a program's places
    ImportLists,    \* what the root of the rule's calls is imported as, in order
    MaxStatements,  \* bound: recorded statements of a file
    NoClass

ASSUME FileAssumption == MaxStatements \in Nat

Module == << >>

\* A place: the function around it, and the class, when there is one.  A method
\* has both; a class body has the function around the class.
Places == UNION Layouts

ASSUME CallsAssumption ==
    Calls \subseteq {"PRIVATE", "PUBLIC", "CIPHER", "AEAD", "MARKER", "anything"}

\* Right-hand sides: a call through the imported root (a constructor of the
\* rules, or anything else), a derivation, a bare name.
Values ==
    [how : {"call"}, of : Calls] \cup [how : {"derive", "alias"}, of : Names]

VARIABLES
    layout,         \* the places of this file
    imports,        \* what the root was imported as
    parameters,     \* of the functions, as pairs of a scope and a name
    stores,         \* names stored or deleted by anything, as such pairs
    assignments,    \* with one identifier as target, in source order
    annotations,    \* of a name, or of a function's result, with a key class
    error           \* the file could not be read or parsed

fileVars == <<layout, imports, parameters, stores, assignments, annotations, error>>

FunctionScopes == {p.function : p \in layout} \ {Module}

\* The places that are bodies of functions.
FunctionPlaces ==
    {p \in layout : p.function # Module /\ (p.class # NoClass => Len(p.class) < Len(p.function))}

FileInit ==
    /\ layout \in Layouts
    /\ imports \in ImportLists
    /\ parameters = {}
    /\ stores = {}
    /\ assignments = << >>
    /\ annotations = {}
    /\ error = FALSE

Statements ==
    Cardinality(parameters) + Cardinality(stores) + Len(assignments) + Cardinality(annotations)

\* A file goes on until an error or the bound; the records below are of such a file.
MayRecord == ~error /\ Statements < MaxStatements

Annotation(place, name, kind) == [place |-> place, name |-> name, kind |-> kind]

\* A parameter, with a key class as its annotation or without one.
RecordParameter(place, name, kinds) ==
    /\ parameters' = parameters \cup {<<place.function, name>>}
    /\ annotations' = annotations \cup {Annotation(place, name, kind) : kind \in kinds}
    /\ UNCHANGED <<layout, imports, stores, assignments, error>>

\* _record_assignment: also of x := v, and x += v counts as x = v.  The store of
\* the name itself is read off the assignments.
RecordAssignment(place, name, value) ==
    /\ assignments' = Append(assignments, [place |-> place, name |-> name, value |-> value])
    /\ UNCHANGED <<layout, imports, parameters, stores, annotations, error>>

\* An annotated assignment is both.  One without a value assigns nothing that is
\* known, as a call of anything does.
RecordAnnotatedAssignment(place, name, value, kind) ==
    /\ assignments' = Append(assignments, [place |-> place, name |-> name, value |-> value])
    /\ annotations' = annotations \cup {Annotation(place, name, kind)}
    /\ UNCHANGED <<layout, imports, parameters, stores, error>>

\* A store with no assignment to one identifier: for, with ... as, del, the target
\* of a comprehension, a tuple.  Only names are stores.  What else binds a name in
\* Python is none: except ... as, a lambda's parameter, a local import, a nested
\* def or class, a capture of match.
RecordStore(place, name) ==
    /\ stores' = stores \cup {<<place.function, name>>}
    /\ UNCHANGED <<layout, imports, parameters, assignments, annotations, error>>

\* The class of a function's result is kept as an annotation of the function's own
\* name inside it, where nothing else binds that name.
RecordReturnType(place, kind) ==
    /\ annotations' = annotations \cup {Annotation(place, Last(place.function), kind)}
    /\ UNCHANGED <<layout, imports, parameters, stores, assignments, error>>

\* The file is no UTF-8, no Python or too deep: one error instead of a batch that
\* ends, and nothing of the file is kept.
RecordError ==
    /\ ~error
    /\ error' = TRUE
    /\ parameters' = {} /\ stores' = {} /\ assignments' = << >> /\ annotations' = {}
    /\ imports' = << >>
    /\ UNCHANGED layout

=============================================================================
