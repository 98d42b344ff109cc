--------------------------- MODULE RuleRun_proofs ----------------------------
(***************************************************************************)
(* What the rules claim of the names of a file, for any file: the walk     *)
(* through the scopes, the fold that merges the assignments into a table   *)
(* of bindings, and what the two rounds establish.                         *)
(***************************************************************************)
EXTENDS RuleRun, SequenceTheorems, FiniteSetTheorems, WellFoundedInduction, TLAPS

-----------------------------------------------------------------------------
(* Computations over a sequence *)

\* A set of numbers that is not empty has a least one.
LEMMA LeastExists ==
    ASSUME NEW X \in SUBSET Nat, X # {}
    PROVE  \E x \in X : \A y \in X : x <= y
<1> DEFINE Downs == {0..x : x \in X}
<1>1. Downs # {} /\ Downs \subseteq FiniteSubsetsOf(Nat)
    <2>1. \A x \in X : 0..x \in SUBSET Nat
        OBVIOUS
    <2>2. \A x \in X : IsFiniteSet(0..x)
        <3>1. TAKE x \in X
        <3>2. x \in Int /\ 0 \in Int
            OBVIOUS
        <3> QED BY <3>2, FS_Interval
    <2> QED BY <2>1, <2>2 DEF FiniteSubsetsOf
<1>2. PICK P \in Downs : \A Q \in Downs : ~(<<Q, P>> \in StrictSubsetOrdering(Nat))
    <2> HIDE DEF Downs
    <2> QED BY <1>1, FS_StrictSubsetOrderingWellFounded, WFMin
<1>3. PICK x \in X : P = 0..x
    BY <1>2
<1>4. ASSUME NEW y \in X PROVE x <= y
    <2>1. SUFFICES ASSUME y < x PROVE FALSE
        OBVIOUS
    <2>2. 0..y \in Downs /\ 0..y \in SUBSET Nat /\ 0..x \in SUBSET Nat
        OBVIOUS
    <2>3. <<0..y, 0..x>> \notin StrictSubsetOrdering(Nat)
        BY <1>2, <1>3, <2>2
    <2>4. 0..y \subseteq 0..x /\ x \in 0..x /\ x \notin 0..y
        BY <2>1
    <2> QED BY <2>2, <2>3, <2>4 DEF StrictSubsetOrdering
<1> QED BY <1>4

\* f[n] is what a computation over s has reached after n steps.
Run(f, n, S, base, step, s) ==
    /\ f \in [0..n -> S] /\ f[0] = base
    /\ \A m \in 1..n : f[m] = step[<<f[m - 1], s[m]>>]

\* A value that is computed from the one before and the next element of a sequence
\* is defined over all of it.
LEMMA RunExists ==
    ASSUME NEW L \in Nat, NEW S, NEW T, NEW base \in S, NEW step \in [S \X T -> S],
           NEW s \in [1..L -> T]
    PROVE  \E f : Run(f, L, S, base, step, s)
<1> DEFINE Runs(f, m) == Run(f, m, S, base, step, s)
           Bad == {m \in 0..L : ~\E f : Runs(f, m)}
<1>1. \E f : Runs(f, 0)
    <2> DEFINE f == [n \in 0..0 |-> base]
    <2>1. f \in [0..0 -> S] /\ f[0] = base /\ 1..0 = {}
        OBVIOUS
    <2> HIDE DEF f
    <2>2. Runs(f, 0)
        BY <2>1 DEF Run
    <2> QED BY <2>2
<1>2. ASSUME NEW m \in 0..L, m # 0, NEW f, Runs(f, m - 1)
      PROVE  \E g : Runs(g, m)
    <2> DEFINE next == step[<<f[m - 1], s[m]>>]
               g == [n \in 0..m |-> IF n = m THEN next ELSE f[n]]
    <2>1. m - 1 \in 0..L /\ m \in 1..L /\ m - 1 \in 0..(m - 1) /\ 0 \in 0..(m - 1)
        BY <1>2
    <2>2. f[m - 1] \in S /\ s[m] \in T
        BY <1>2, <2>1 DEF Run
    <2>3. next \in S
        BY <2>2
    <2> HIDE DEF next
    <2>4. /\ \A n \in 0..m : n = m \/ n \in 0..(m - 1)
          /\ \A n \in 1..m : n = m \/ n \in 1..(m - 1)
          /\ \A n \in 1..(m - 1) : n \in 0..(m - 1) /\ n - 1 \in 0..(m - 1)
        BY <2>1
    <2>5. g \in [0..m -> S]
        BY <1>2, <2>3, <2>4 DEF Run
    <2>6. g[m] = next /\ \A n \in 0..(m - 1) : g[n] = f[n]
        <3>1. \A n \in 0..(m - 1) : n \in 0..m /\ n # m
            BY <2>1
        <3>2. m \in 0..m
            BY <2>1
        <3> QED BY <3>1, <3>2
    <2> HIDE DEF g
    <2>7. g[m] = step[<<g[m - 1], s[m]>>]
        BY <2>1, <2>6 DEF next
    <2>8. g[0] = base /\ \A n \in 1..(m - 1) : g[n] = step[<<g[n - 1], s[n]>>]
        BY <1>2, <2>1, <2>4, <2>6 DEF Run
    <2>9. Runs(g, m)
        BY <2>4, <2>5, <2>7, <2>8 DEF Run
    <2> QED BY <2>9
<1> HIDE DEF Runs
<1>3. Bad = {}
    <2> SUFFICES ASSUME Bad # {} PROVE FALSE
        OBVIOUS
    <2>1. Bad \in SUBSET Nat
        OBVIOUS
    <2>2. PICK m \in Bad : \A j \in Bad : m <= j
        BY <2>1, LeastExists
    <2>3. m \in 0..L /\ ~\E f : Runs(f, m)
        OBVIOUS
    <2>4. m # 0
        BY <1>1, <2>3
    <2>5. m - 1 \in 0..L /\ m - 1 \notin Bad
        BY <2>2, <2>3, <2>4
    <2>6. \E f : Runs(f, m - 1)
        BY <2>5
    <2> QED BY <1>2, <2>3, <2>4, <2>6
<1> QED BY <1>3 DEF Runs

\* Two such computations are the same one.
LEMMA RunIsUnique ==
    ASSUME NEW L \in Nat, NEW f, NEW g, DOMAIN f = 0..L, DOMAIN g = 0..L,
           f = [n \in 0..L |-> f[n]], g = [n \in 0..L |-> g[n]], f[0] = g[0],
           \A n \in 1..L : f[n - 1] = g[n - 1] => f[n] = g[n]
    PROVE  f = g
<1> DEFINE Bad == {n \in 0..L : f[n] # g[n]}
<1>1. Bad = {}
    <2> SUFFICES ASSUME Bad # {} PROVE FALSE
        OBVIOUS
    <2>1. Bad \in SUBSET Nat
        OBVIOUS
    <2>2. PICK m \in Bad : \A j \in Bad : m <= j
        BY <2>1, LeastExists
    <2>3. m \in 0..L /\ f[m] # g[m] /\ m # 0
        OBVIOUS
    <2>4. m \in 1..L /\ m - 1 \in 0..L /\ ~(m <= m - 1)
        BY <2>3
    <2>5. m - 1 \notin Bad
        BY <2>2, <2>4
    <2>6. f[m - 1] = g[m - 1]
        BY <2>4, <2>5
    <2> QED BY <2>3, <2>4, <2>6
<1>2. \A n \in 0..L : f[n] = g[n]
    BY <1>1
<1> QED BY <1>2

-----------------------------------------------------------------------------
(* Scopes *)

ScopeNames == Seq(STRING)

\* Of the prefixes of a scope that a walk outwards meets, there is a first one.
LEMMA InnermostIs ==
    ASSUME NEW scope \in ScopeNames, NEW S, S # {},
           \A s \in S : s \in ScopeNames /\ IsPrefix(s, scope)
    PROVE  Innermost(S) \in S /\ \A t \in S : Len(t) <= Len(Innermost(S))
<1> DEFINE N == Len(scope)
           Outer == {N - Len(s) : s \in S}
<1>1. N \in Nat /\ \A s \in S : Len(s) \in Nat /\ Len(s) <= N
    BY DEF ScopeNames, IsPrefix
<1>2. Outer \in SUBSET Nat /\ Outer # {}
    BY <1>1
<1>3. PICK d \in Outer : \A e \in Outer : d <= e
    <2> HIDE DEF Outer
    <2> QED BY <1>2, LeastExists
<1>4. PICK s \in S : d = N - Len(s)
    OBVIOUS
<1>5. \A t \in S : N - Len(s) <= N - Len(t)
    BY <1>3, <1>4
<1>6. \A t \in S : Len(t) <= Len(s)
    BY <1>1, <1>5
<1> QED BY <1>6 DEF Innermost

\* Two prefixes of a scope are told by their lengths.
LEMMA PrefixesDiffer ==
    ASSUME NEW scope \in ScopeNames, NEW s \in ScopeNames, NEW t \in ScopeNames,
           IsPrefix(s, scope), IsPrefix(t, scope), Len(s) = Len(t)
    PROVE  s = t
<1>1. \A r \in ScopeNames : IsPrefix(r, scope) => \A i \in 1..Len(r) : r[i] = scope[i]
    <2> SUFFICES ASSUME NEW r \in ScopeNames, IsPrefix(r, scope), NEW i \in 1..Len(r)
                 PROVE  r[i] = scope[i]
        OBVIOUS
    <2>1. SubSeq(r, 1, Len(r)) = SubSeq(scope, 1, Len(r)) /\ Len(r) <= Len(scope)
        BY DEF IsPrefix
    <2>2. SubSeq(r, 1, Len(r))[i] = r[i] /\ SubSeq(scope, 1, Len(r))[i] = scope[i]
        BY <2>1 DEF ScopeNames
    <2> QED BY <2>1, <2>2
<1>2. \A i \in 1..Len(s) : s[i] = t[i]
    BY <1>1
<1> QED BY <1>2, SeqEqual DEF ScopeNames

-----------------------------------------------------------------------------
(* The file *)

Assignments == [place : layout, name : Names, value : Values]

\* What is recorded of a file, and nothing of one that does not parse.
FileInv ==
    /\ layout \in Layouts
    /\ parameters \cup stores \subseteq Scopes \X Names
    /\ assignments \in Seq(Assignments)
    /\ \A a \in annotations : a.place \in layout /\ a.kind \in Halves
    /\ Statements <= MaxStatements
    /\ error => /\ imports = << >> /\ assignments = << >>
                /\ parameters = {} /\ stores = {} /\ annotations = {}

\* A place that the rules take for no class body has no class innermost.
LEMMA PlacesNest ==
    ASSUME NEW place \in Places
    PROVE  /\ place.function \in ScopeNames
           /\ ~IsClassBody(place) => ~IsBody(place)
<1>1. /\ place.function \in Seq(STRING)
      /\ place.class # NoClass =>
             /\ place.class \in Seq(STRING)
             /\ \/ IsPrefix(place.class, place.function)
                \/ IsStrictPrefix(place.function, place.class)
    BY NestingAssumption
<1>2. ASSUME place.class # NoClass, IsPrefix(place.class, place.function)
      PROVE  ~(Len(place.class) > Len(place.function))
    BY <1>1, <1>2 DEF IsPrefix
<1> QED BY <1>1, <1>2 DEF ScopeNames, IsBody, IsClassBody

\* The scopes of a file are qualified names, the module one of them.
LEMMA ScopesAreNames ==
    ASSUME FileInv
    PROVE  /\ Scopes \subseteq ScopeNames /\ Module \in Scopes
           /\ \A s \in FunctionScopes : s # Module
           /\ \A place \in layout : place \in Places /\ place.function \in Scopes
<1>1. layout \subseteq Places
    BY DEF FileInv, Places
<1>2. \A place \in layout : place.function \in ScopeNames
    BY <1>1, PlacesNest
<1>3. Module \in ScopeNames
    BY DEF Module, ScopeNames
<1> QED BY <1>1, <1>2, <1>3 DEF Scopes, FunctionScopes

\* The scopes of a walk are prefixes of the scope it starts from, the module the last.
LEMMA ChainIs ==
    ASSUME FileInv, NEW scope \in Scopes
    PROVE  /\ Module \in ScopeChain(scope) /\ scope \in ScopeNames
           /\ \A s \in ScopeChain(scope) :
                  /\ s \in Scopes /\ s \in ScopeNames /\ IsPrefix(s, scope)
                  /\ s # Module => Len(s) > 0
<1>1. scope \in ScopeNames /\ Scopes \subseteq ScopeNames /\ Module \in Scopes
    BY ScopesAreNames
<1>2. IsPrefix(Module, scope)
    <2>1. SubSeq(<< >>, 1, 0) = << >> /\ SubSeq(scope, 1, 0) = << >> /\ Len(<< >>) = 0
        BY <1>1 DEF ScopeNames
    <2>2. Len(scope) \in Nat
        BY <1>1 DEF ScopeNames
    <2> QED BY <2>1, <2>2 DEF IsPrefix, Module
<1>3. \A s \in ScopeNames : s # Module => Len(s) > 0
    BY DEF ScopeNames, Module
<1> QED BY <1>1, <1>2, <1>3 DEF ScopeChain, Scopes

\* Bindings of names that their scopes bind, among them all that are annotated.
Local(bindings) ==
    /\ \A key \in DOMAIN bindings :
           Resolves /\ \E s \in Scopes : \E n : key = <<s, n>> /\ Binds(s, n)
    /\ Resolves =>
           \A s, n : Cardinality(AnnotatedAs(s, n)) = 1 => <<s, n>> \in DOMAIN bindings

\* A walk ends at a scope it sees.
LEMMA HomeIsSeen ==
    ASSUME FileInv, NEW scope \in Scopes, NEW name
    PROVE  HomeOf(scope, name) \in ScopeChain(scope) /\ HomeOf(scope, name) \in Scopes
<1> DEFINE H == {s \in ScopeChain(scope) : Binds(s, name) \/ s = Module}
<1>1. /\ Module \in ScopeChain(scope) /\ scope \in ScopeNames
      /\ \A s \in ScopeChain(scope) : s \in ScopeNames /\ IsPrefix(s, scope)
    BY ChainIs
<1>2. H # {} /\ \A s \in H : s \in ScopeNames /\ IsPrefix(s, scope)
    BY <1>1
<1> HIDE DEF H
<1>3. Innermost(H) \in H
    BY <1>1, <1>2, InnermostIs
<1> QED BY <1>3, ChainIs DEF H, HomeOf

\* What a lookup finds is bound in the innermost scope that binds the name at all.
LEMMA LookupIs ==
    ASSUME FileInv, NEW scope \in Scopes, NEW name, NEW bindings, Local(bindings),
           Lookup(bindings, scope, name) # None
    PROVE  LET at == <<HomeOf(scope, name), name>>
           IN  at \in DOMAIN bindings /\ Lookup(bindings, scope, name) = bindings[at]
<1> DEFINE chain == ScopeChain(scope)
           H == {s \in chain : Binds(s, name) \/ s = Module}
           stops == {s \in chain : <<s, name>> \in DOMAIN bindings \/ name \in LocallyBound(s)}
           here == Innermost(stops)
           home == Innermost(H)
<1>1. /\ Module \in chain /\ scope \in ScopeNames
      /\ \A s \in chain : s \in ScopeNames /\ IsPrefix(s, scope) /\ (s # Module => Len(s) > 0)
    BY ChainIs
<1>2. stops # {} /\ <<here, name>> \in DOMAIN bindings
      /\ Lookup(bindings, scope, name) = bindings[<<here, name>>]
    BY DEF Lookup
<1>3. stops = {s \in chain : Binds(s, name)}
    <2>1. Resolves
        BY <1>2 DEF Local
    <2>2. ASSUME NEW s PROVE <<s, name>> \in DOMAIN bindings => Binds(s, name)
        BY DEF Local
    <2>3. ASSUME NEW s, Binds(s, name)
          PROVE  <<s, name>> \in DOMAIN bindings \/ name \in LocallyBound(s)
        BY <2>1, <2>3 DEF Local, Binds
    <2>4. \A s : name \in LocallyBound(s) => Binds(s, name)
        BY DEF Binds
    <2> QED BY <2>2, <2>3, <2>4
<1> HIDE DEF chain
<1>4. stops \subseteq H /\ H # {} /\ \A s \in H : s \in stops \/ s = Module
    BY <1>1, <1>3
<1>5. \A s \in H : s \in ScopeNames /\ IsPrefix(s, scope) /\ (s # Module => Len(s) > 0)
    BY <1>1
<1> HIDE DEF H, stops
<1>6. home \in H /\ \A t \in H : Len(t) <= Len(home)
    BY <1>1, <1>4, <1>5, InnermostIs
<1>7. here \in stops /\ \A t \in stops : Len(t) <= Len(here)
    BY <1>1, <1>2, <1>4, <1>5, InnermostIs
<1> HIDE DEF home, here
<1>8. Len(Module) = 0 /\ Len(home) \in Nat /\ Len(here) \in Nat
    BY <1>4, <1>5, <1>6, <1>7 DEF Module, ScopeNames
<1>9. home = here
    <2>1. CASE home \in stops
        <3>1. Len(home) = Len(here)
            BY <1>4, <1>6, <1>7, <1>8, <2>1
        <3> QED BY <1>1, <1>4, <1>5, <1>6, <1>7, <3>1, PrefixesDiffer
    <2>2. CASE home \notin stops
        <3>1. home = Module /\ here # Module
            BY <1>4, <1>6, <1>7, <2>2
        <3>2. Len(here) > 0 /\ Len(here) <= Len(home)
            BY <1>4, <1>5, <1>6, <1>7, <3>1
        <3> QED BY <1>8, <3>1, <3>2
    <2> QED BY <2>1, <2>2
<1> QED BY <1>2, <1>9 DEF HomeOf, home, H, chain

-----------------------------------------------------------------------------
(* Annotations *)

\* Two annotations of a name that disagree cancel each other.
LEMMA AnnotatedIs ==
    ASSUME FileInv
    PROVE  /\ Local(Annotated)
           /\ \A key \in DOMAIN Annotated :
                  \A s, n : key = <<s, n>> =>
                      AnnotatedAs(s, n) = {Annotated[key]} /\ Annotated[key] \in Halves
<1> DEFINE usable == IF Resolves THEN {a \in annotations : ~IsClassBody(a.place)} ELSE {}
           Of(key) == {a.kind : a \in {b \in usable : Key(b) = key}}
           agreed == {key \in {Key(a) : a \in usable} : Cardinality(Of(key)) = 1}
<1>1. Annotated = [key \in agreed |-> CHOOSE kind \in Of(key) : TRUE]
    BY DEF Annotated
<1>2. ASSUME Resolves, NEW s, NEW n PROVE Of(<<s, n>>) = AnnotatedAs(s, n)
    BY <1>2 DEF AnnotatedAs
<1>3. \A key : Of(key) \subseteq Halves
    BY DEF FileInv
<1>4. \A S \in SUBSET Halves : IsFiniteSet(S)
    <2>1. IsFiniteSet({"PRIVATE"} \cup {"PUBLIC"})
        BY FS_Singleton, FS_Union
    <2>2. Halves = {"PRIVATE"} \cup {"PUBLIC"}
        BY DEF Halves
    <2> QED BY <2>1, <2>2, FS_Subset
<1>5. \A key : Cardinality(Of(key)) = 1 => \E kind \in Halves : Of(key) = {kind}
    <2> HIDE DEF Of
    <2> QED BY <1>3, <1>4, FS_Singleton
<1>6. ASSUME NEW a \in usable
      PROVE  Resolves /\ a.place.function \in Scopes /\ Key(a) = <<a.place.function, a.name>>
    <2>1. Resolves /\ a \in annotations /\ a.place \in layout
        BY DEF FileInv
    <2> QED BY <2>1, ScopesAreNames DEF Key
<1> HIDE DEF Of
<1>7. ASSUME NEW key \in DOMAIN Annotated
      PROVE  /\ Resolves /\ \E s \in Scopes : \E n : key = <<s, n>>
             /\ \E kind \in Halves : Of(key) = {kind} /\ Annotated[key] = kind
    <2>1. key \in agreed /\ Annotated[key] = CHOOSE kind \in Of(key) : TRUE
        BY <1>1
    <2>2. PICK a \in usable : key = Key(a)
        BY <2>1
    <2>3. PICK kind \in Halves : Of(key) = {kind}
        BY <1>5, <2>1
    <2>4. Annotated[key] = kind
        BY <2>1, <2>3
    <2> HIDE DEF usable
    <2> QED BY <1>6, <2>2, <2>3, <2>4
<1>8. ASSUME NEW key \in DOMAIN Annotated, NEW s, NEW n, key = <<s, n>>
      PROVE  /\ AnnotatedAs(s, n) = {Annotated[key]} /\ Annotated[key] \in Halves
             /\ Cardinality(AnnotatedAs(s, n)) = 1
    <2>1. Resolves /\ \E kind \in Halves : Of(key) = {kind} /\ Annotated[key] = kind
        BY <1>7
    <2>2. AnnotatedAs(s, n) = Of(key)
        BY <1>2, <1>8, <2>1
    <2> QED BY <2>1, <2>2, FS_Singleton
<1>9. ASSUME Resolves, NEW s, NEW n, Cardinality(AnnotatedAs(s, n)) = 1
      PROVE  <<s, n>> \in DOMAIN Annotated
    <2>1. Cardinality(Of(<<s, n>>)) = 1
        BY <1>2, <1>9
    <2>2. PICK kind \in Halves : Of(<<s, n>>) = {kind}
        BY <1>5, <2>1
    <2>3. PICK a \in usable : Key(a) = <<s, n>>
        BY <2>2 DEF Of
    <2> QED BY <1>1, <2>1, <2>3
<1> HIDE DEF usable, agreed
<1>10. Local(Annotated)
    <2>1. ASSUME NEW key \in DOMAIN Annotated
          PROVE  Resolves /\ \E s \in Scopes : \E n : key = <<s, n>> /\ Binds(s, n)
        <3>1. Resolves /\ \E s \in Scopes : \E n : key = <<s, n>>
            BY <1>7
        <3>2. \A s, n : key = <<s, n>> => Binds(s, n)
            BY <1>8 DEF Binds
        <3> QED BY <3>1, <3>2
    <2> QED BY <1>9, <2>1 DEF Local
<1> QED BY <1>8, <1>10

-----------------------------------------------------------------------------
(* Merging *)

Kinds == Halves \cup {None}

\* What a name in its scope was found to hold, or not to be known to hold.
Tables == UNION {[D -> Kinds] : D \in SUBSET (ScopeNames \X Names)}

\* The name an assignment is of, in its scope.
K(i) == Key(assignments[i])

\* What is recorded of an assignment, whose scope binds its target.
LEMMA AssignmentIs ==
    ASSUME FileInv, NEW i \in DOMAIN assignments
    PROVE  /\ i \in 1..Len(assignments) /\ assignments[i].place \in layout
           /\ assignments[i].name \in Names /\ assignments[i].value \in Values
           /\ K(i) = <<assignments[i].place.function, assignments[i].name>>
           /\ K(i) \in ScopeNames \X Names /\ assignments[i].place.function \in Scopes
           /\ assignments[i].name \in LocallyBound(assignments[i].place.function)
<1>1. i \in 1..Len(assignments) /\ assignments[i] \in Assignments
    BY DEF FileInv
<1>2. assignments[i].place \in layout /\ assignments[i].name \in Names /\ assignments[i].value \in Values
    BY <1>1 DEF Assignments
<1>3. assignments[i].place.function \in Scopes /\ Scopes \subseteq ScopeNames
    BY <1>2, ScopesAreNames
<1>4. assignments[i].name \in LocallyBound(assignments[i].place.function)
    BY DEF LocallyBound
<1> QED BY <1>1, <1>2, <1>3, <1>4 DEF K, Key

\* What a merge of one kind leaves of a table.
MergesInto(new, table, key, kind, replace) ==
    /\ new \in Tables /\ DOMAIN new = DOMAIN table \cup {key}
    /\ \A k \in DOMAIN table : k # key => new[k] = table[k]
    /\ new[key] # None => new[key] = kind
    /\ new[key] # None /\ key \in DOMAIN table =>
           table[key] = kind \/ (replace /\ table[key] = None)

\* A merge touches one name, and either takes the kind or leaves the name unknown.
LEMMA MergeKeeps ==
    ASSUME NEW table \in Tables, NEW key \in ScopeNames \X Names, NEW kind \in Kinds,
           NEW replace \in BOOLEAN
    PROVE  MergesInto(Merge(table, key, kind, replace), table, key, kind, replace)
<1> DEFINE new == Merge(table, key, kind, replace)
<1>1. PICK D \in SUBSET (ScopeNames \X Names) : table \in [D -> Kinds]
    BY DEF Tables
<1>2. None \in Kinds
    BY DEF Kinds
<1>3. CASE key \notin DOMAIN table
    <2>1. new = [k \in DOMAIN table \cup {key} |-> IF k = key THEN kind ELSE table[k]]
        BY <1>3 DEF Merge
    <2> HIDE DEF new
    <2>2. new \in [D \cup {key} -> Kinds] /\ D \cup {key} \in SUBSET (ScopeNames \X Names)
        BY <1>1, <2>1
    <2>3. new \in Tables
        BY <2>2 DEF Tables
    <2>4. /\ DOMAIN new = DOMAIN table \cup {key} /\ new[key] = kind
          /\ \A k \in DOMAIN table : k # key => new[k] = table[k]
        BY <1>1, <2>1
    <2> QED BY <1>3, <2>3, <2>4 DEF MergesInto, new
<1>4. CASE key \in DOMAIN table
    <2>1. PICK v \in {kind, None} :
              /\ (new = table /\ table[key] = v) \/ new = [table EXCEPT ![key] = v]
              /\ v # None => v = kind /\ (table[key] = kind \/ (replace /\ table[key] = None))
        BY <1>4 DEF Merge
    <2> HIDE DEF new
    <2>2. /\ new \in [D -> Kinds] /\ DOMAIN new = D /\ new[key] = v
          /\ \A k \in D : k # key => new[k] = table[k]
        BY <1>1, <1>2, <1>4, <2>1
    <2>3. new \in Tables
        BY <2>2 DEF Tables
    <2>4. /\ new \in Tables /\ DOMAIN new = DOMAIN table \cup {key}
          /\ \A k \in DOMAIN table : k # key => new[k] = table[k]
          /\ new[key] # None => new[key] = kind
          /\ new[key] # None => table[key] = kind \/ (replace /\ table[key] = None)
        BY <1>1, <1>4, <2>1, <2>2, <2>3
    <2> QED BY <2>4 DEF MergesInto, new
<1> QED BY <1>3, <1>4

\* after[n] is the table once the first n assignments are merged, those of I.
Passes(after, table, I, kinds, replace) ==
    /\ after \in [0..Len(assignments) -> Tables]
    /\ MergeAll(table, kinds, replace) = after[Len(assignments)]
    /\ after[0] = table
    /\ \A n \in 1..Len(assignments) :
           after[n] = IF n \in I THEN Merge(after[n - 1], K(n), kinds[n], replace)
                      ELSE after[n - 1]

\* The fold is defined for any file, and goes through the assignments one by one.
LEMMA MergeRuns ==
    ASSUME FileInv, NEW table \in Tables, NEW I \in SUBSET (DOMAIN assignments),
           NEW kinds \in [I -> Kinds], NEW replace \in BOOLEAN
    PROVE  \E after : Passes(after, table, I, kinds, replace)
<1> DEFINE L == Len(assignments)
           Step(t, n) == IF n \in I THEN Merge(t, K(n), kinds[n], replace) ELSE t
           step == [x \in Tables \X (1..L) |-> Step(x[1], x[2])]
           places == [n \in 1..L |-> n]
           Defines(f) ==
               f = [n \in 0..L |-> IF n = 0 THEN table
                                   ELSE IF n \notin DOMAIN kinds THEN f[n - 1]
                                   ELSE Merge(f[n - 1], Key(assignments[n]), kinds[n], replace)]
           after == CHOOSE f : Defines(f)
<1>1. L \in Nat /\ DOMAIN assignments = 1..L /\ DOMAIN kinds = I
    BY DEF FileInv
<1>2. ASSUME NEW t \in Tables, NEW n \in 1..L PROVE Step(t, n) \in Tables
    BY <1>1, AssignmentIs, MergeKeeps DEF MergesInto
<1> HIDE DEF L, Step, after
<1>3. /\ step \in [Tables \X (1..L) -> Tables]
      /\ \A t \in Tables, n \in 1..L : step[<<t, n>>] = Step(t, n)
    BY <1>2
<1>4. places \in [1..L -> 1..L] /\ \A n \in 1..L : places[n] = n
    OBVIOUS
<1> HIDE DEF step, places
<1>5. PICK f : Run(f, L, Tables, table, step, places)
    BY <1>1, <1>3, <1>4, RunExists, ZenonT(60)
<1>6. /\ f \in [0..L -> Tables] /\ f[0] = table
      /\ \A n \in 1..L : f[n] = Step(f[n - 1], n)
    <2>1. /\ f \in [0..L -> Tables] /\ f[0] = table
          /\ \A n \in 1..L : f[n] = step[<<f[n - 1], places[n]>>]
        BY <1>5 DEF Run
    <2>2. ASSUME NEW n \in 1..L PROVE f[n] = Step(f[n - 1], n)
        <3>1. n - 1 \in 0..L /\ n \in 1..L
            BY <1>1
        <3>2. f[n - 1] \in Tables /\ places[n] = n
            BY <1>4, <2>1, <3>1
        <3>3. step[<<f[n - 1], n>>] = Step(f[n - 1], n)
            BY <1>3, <3>2
        <3> QED BY <2>1, <3>2, <3>3
    <2> QED BY <2>1, <2>2
<1>7. Defines(f)
    <2>1. \A n \in 0..L : n = 0 \/ n \in 1..L
        BY <1>1
    <2>2. \A n \in 0..L : f[n] = IF n = 0 THEN table
                                 ELSE IF n \notin DOMAIN kinds THEN f[n - 1]
                                 ELSE Merge(f[n - 1], Key(assignments[n]), kinds[n], replace)
        BY <1>1, <1>6, <2>1 DEF Step, K
    <2> QED BY <1>6, <2>2
<1>8. Defines(after)
    <2> HIDE DEF Defines
    <2> QED BY <1>7 DEF after
<1>9. /\ DOMAIN after = 0..L /\ after = [n \in 0..L |-> after[n]]
      /\ after[0] = table /\ \A n \in 1..L : after[n] = Step(after[n - 1], n)
    <2>1. 0 \in 0..L /\ \A n \in 1..L : n \in 0..L /\ n # 0
        BY <1>1
    <2> QED BY <1>1, <1>8, <2>1 DEF Step, K
<1>10. after = f
    <2>1. DOMAIN f = 0..L /\ f = [n \in 0..L |-> f[n]]
        BY <1>6
    <2>2. \A n \in 1..L : f[n - 1] = after[n - 1] => f[n] = after[n]
        BY <1>6, <1>9
    <2> HIDE DEF Defines
    <2> QED BY <1>1, <1>6, <1>9, <2>1, <2>2, RunIsUnique
<1>11. MergeAll(table, kinds, replace) = after[L]
    BY DEF MergeAll, after, L
<1>12. Passes(f, table, I, kinds, replace)
    BY <1>6, <1>10, <1>11 DEF Passes, L, Step
<1> QED BY <1>12

\* What the first n assignments of I leave in the table.
Merged(t, table, I, n, kinds, replace) ==
    /\ t \in Tables
    /\ \A key : key \in DOMAIN t <=> key \in DOMAIN table \/ \E i \in I : i <= n /\ K(i) = key
    /\ \A key \in DOMAIN t : t[key] # None =>
           \/ key \in DOMAIN table /\ table[key] = t[key]
           \/ \E i \in I : i <= n /\ K(i) = key /\ kinds[i] = t[key]
    /\ ~replace /\ DOMAIN table = {} =>
           \A key \in DOMAIN t, i \in I :
               t[key] # None /\ i <= n /\ K(i) = key => kinds[i] = t[key]

\* The next assignment.
LEMMA MergesOne ==
    ASSUME FileInv, NEW table \in Tables, NEW I \in SUBSET (DOMAIN assignments),
           NEW kinds \in [I -> Kinds], NEW replace \in BOOLEAN,
           NEW n \in 1..Len(assignments), NEW t, Merged(t, table, I, n - 1, kinds, replace)
    PROVE  Merged(IF n \in I THEN Merge(t, K(n), kinds[n], replace) ELSE t,
                  table, I, n, kinds, replace)
<1>1. n \in Nat /\ \A i \in I : i \in Nat /\ (i <= n <=> i <= n - 1 \/ i = n)
    BY DEF FileInv
<1>2. CASE n \notin I
    <2>1. \A i \in I : i <= n <=> i <= n - 1
        BY <1>1, <1>2
    <2>2. Merged(t, table, I, n, kinds, replace)
        BY <2>1 DEF Merged
    <2> QED BY <1>2, <2>2
<1>3. CASE n \in I
    <2> DEFINE key == K(n)
               kind == kinds[n]
               new == Merge(t, key, kind, replace)
    <2>1. t \in Tables /\ key \in ScopeNames \X Names /\ kind \in Kinds
        BY <1>3, AssignmentIs DEF Merged
    <2> HIDE DEF key, kind
    <2> HIDE DEF new
    <2>2. /\ new \in Tables /\ DOMAIN new = DOMAIN t \cup {key}
          /\ \A k \in DOMAIN t : k # key => new[k] = t[k]
          /\ new[key] # None => new[key] = kind
          /\ new[key] # None /\ key \in DOMAIN t =>
                 t[key] = kind \/ (replace /\ t[key] = None)
        <3>1. MergesInto(new, t, key, kind, replace)
            BY <2>1, MergeKeeps DEF new
        <3> QED BY <3>1 DEF MergesInto
    <2>3. \A k : k \in DOMAIN new <=> k \in DOMAIN table \/ \E i \in I : i <= n /\ K(i) = k
        BY <1>1, <1>3, <2>2 DEF Merged, key
    <2>4. ASSUME NEW k \in DOMAIN new, new[k] # None
          PROVE  \/ k \in DOMAIN table /\ table[k] = new[k]
                 \/ \E i \in I : i <= n /\ K(i) = k /\ kinds[i] = new[k]
        <3>1. CASE k = key
            BY <1>1, <1>3, <2>2, <2>4, <3>1 DEF kind, key
        <3>2. CASE k # key
            BY <1>1, <2>2, <2>4, <3>2 DEF Merged
        <3> QED BY <3>1, <3>2
    <2>5. ASSUME ~replace, DOMAIN table = {}, NEW k \in DOMAIN new, NEW i \in I,
                 new[k] # None, i <= n, K(i) = k
          PROVE  kinds[i] = new[k]
        <3>1. CASE i = n
            BY <2>2, <2>5, <3>1 DEF kind, key
        <3>2. CASE i # n /\ k # key
            BY <1>1, <2>2, <2>5, <3>2 DEF Merged
        <3>3. CASE i # n /\ k = key
            <4>1. i <= n - 1 /\ key \in DOMAIN t
                BY <1>1, <2>5, <3>3 DEF Merged
            <4>2. t[key] = kind /\ new[key] = kind
                BY <2>2, <2>5, <3>3, <4>1
            <4> QED BY <2>5, <3>3, <4>1, <4>2 DEF Merged
        <3> QED BY <3>1, <3>2, <3>3
    <2>6. Merged(new, table, I, n, kinds, replace)
        BY <2>2, <2>3, <2>4, <2>5 DEF Merged
    <2> QED BY <1>3, <2>6 DEF new, kind, key
<1> QED BY <1>2, <1>3

\* A name is unknown in the end, or holds what its table or one of its assignments
\* gave it, and, without a second chance, what every one of them gave it.
LEMMA MergeAllIs ==
    ASSUME FileInv, NEW table \in Tables, NEW I \in SUBSET (DOMAIN assignments),
           NEW kinds \in [I -> Kinds], NEW replace \in BOOLEAN
    PROVE  Merged(MergeAll(table, kinds, replace), table, I, Len(assignments), kinds, replace)
<1> DEFINE L == Len(assignments)
<1>1. PICK after : Passes(after, table, I, kinds, replace)
    BY MergeRuns, ZenonT(60)
<1> DEFINE Good(n) == Merged(after[n], table, I, n, kinds, replace)
           Bad == {n \in 0..L : ~Good(n)}
<1>2. L \in Nat /\ \A i \in I : i \in Nat /\ ~(i <= 0)
    BY DEF FileInv
<1>3. Good(0)
    <2>1. \A key \in DOMAIN table : key \in DOMAIN table
        OBVIOUS
    <2> QED BY <1>1, <1>2 DEF Merged, Passes
<1>4. ASSUME NEW n \in 1..L, Good(n - 1) PROVE Good(n)
    <2>1. after[n] = IF n \in I THEN Merge(after[n - 1], K(n), kinds[n], replace)
                     ELSE after[n - 1]
        BY <1>1 DEF Passes
    <2> QED BY <1>4, <2>1, MergesOne
<1> HIDE DEF L, Good
<1>5. Bad = {}
    <2> SUFFICES ASSUME Bad # {} PROVE FALSE
        OBVIOUS
    <2>1. Bad \in SUBSET Nat
        BY <1>2
    <2>2. PICK m \in Bad : \A j \in Bad : m <= j
        BY <2>1, LeastExists
    <2>3. m \in 0..L /\ ~Good(m) /\ m # 0
        BY <1>3
    <2>4. m \in 1..L /\ m - 1 \in 0..L /\ ~(m <= m - 1)
        BY <1>2, <2>3
    <2>5. Good(m - 1)
        BY <2>2, <2>4
    <2> QED BY <1>4, <2>3, <2>4, <2>5
<1>6. L \in 0..L
    BY <1>2
<1>7. Good(L)
    BY <1>5, <1>6
<1> QED BY <1>1, <1>7 DEF Good, L, Passes

-----------------------------------------------------------------------------
(* The two rounds *)

\* The assignments of a name in its scope, by place and by value.
LEMMA CandidatesAre ==
    ASSUME FileInv
    PROVE  /\ Candidates \in SUBSET (DOMAIN assignments)
           /\ \A i \in Candidates : i \in 1..Len(assignments)
           /\ \A i \in Candidates : \A s, n : K(i) = <<s, n>> => assignments[i].value \in AssignedIn(s, n)
           /\ \A s, n : \A v \in AssignedIn(s, n) :
                  \E i \in Candidates : K(i) = <<s, n>> /\ assignments[i].value = v
<1>1. \A i \in DOMAIN assignments : i \in 1..Len(assignments)
    BY AssignmentIs
<1> QED BY <1>1 DEF Candidates, AssignedIn, K

\* A constructor counts only through the import.
LEMMA ConstructedIs ==
    ASSUME FileInv, NEW i \in DOMAIN assignments
    PROVE  LET c == Constructed(assignments[i])
           IN  /\ c \in Kinds
               /\ c # None => /\ Resolves /\ c \in Halves
                              /\ assignments[i].value = [how |-> "call", of |-> c]
<1> DEFINE v == assignments[i].value
<1>1. v \in Values
    BY AssignmentIs
<1>2. v.how = "call" => v = [how |-> "call", of |-> v.of]
    BY <1>1 DEF Values
<1> QED BY <1>2 DEF Constructed, Kinds

\* After the first round a name is known when every assignment to it is a call of
\* the same constructor.
LEMMA DirectIs ==
    ASSUME FileInv
    PROVE  /\ Direct \in Tables
           /\ \A key \in DOMAIN Direct : Direct[key] # None =>
                  /\ Resolves /\ Direct[key] \in Halves
                  /\ \E i \in Candidates : K(i) = key
                  /\ \A i \in Candidates : K(i) = key => Constructed(assignments[i]) = Direct[key]
<1> DEFINE kinds == [i \in Candidates |-> Constructed(assignments[i])]
           none == << >>
<1>1. kinds \in [Candidates -> Kinds] /\ \A i \in Candidates : kinds[i] = Constructed(assignments[i])
    BY CandidatesAre, ConstructedIs
<1>2. none \in Tables /\ DOMAIN none = {}
    <2>1. DOMAIN none = {} /\ none \in [{} -> Kinds]
        OBVIOUS
    <2> QED BY <2>1 DEF Tables
<1>3. Direct = MergeAll(none, kinds, FALSE)
    BY DEF Direct
<1> HIDE DEF kinds, none
<1>4. Merged(Direct, none, Candidates, Len(assignments), kinds, FALSE)
    BY <1>1, <1>2, <1>3, CandidatesAre, MergeAllIs
<1>5. Direct \in Tables
    BY <1>4 DEF Merged
<1>6. ASSUME NEW key \in DOMAIN Direct, Direct[key] # None
      PROVE  /\ Resolves /\ Direct[key] \in Halves
             /\ \E i \in Candidates : K(i) = key
             /\ \A i \in Candidates : K(i) = key => Constructed(assignments[i]) = Direct[key]
    <2>1. PICK i \in Candidates : K(i) = key
        BY <1>2, <1>4 DEF Merged
    <2>2. \A j \in Candidates : j <= Len(assignments)
        BY CandidatesAre DEF FileInv
    <2>3. \A j \in Candidates : K(j) = key => Constructed(assignments[j]) = Direct[key]
        BY <1>1, <1>2, <1>4, <1>6, <2>2 DEF Merged
    <2>4. Constructed(assignments[i]) = Direct[key] /\ i \in DOMAIN assignments
        BY <2>1, <2>3, CandidatesAre
    <2>5. Resolves /\ Direct[key] \in Halves
        BY <1>6, <2>4, ConstructedIs
    <2> QED BY <2>1, <2>3, <2>5
<1> QED BY <1>5, <1>6

\* A name that the first round knows is built by all that is assigned to it.
LEMMA DirectIsBuilt ==
    ASSUME FileInv, NEW s, NEW n, <<s, n>> \in DOMAIN Direct, Direct[<<s, n>>] # None
    PROVE  OnlyBuilt(s, n, Direct[<<s, n>>])
<1> DEFINE key == <<s, n>>
           built == [how |-> "call", of |-> Direct[key]]
           values == AssignedIn(s, n)
<1>1. /\ \E i \in Candidates : K(i) = key
      /\ \A i \in Candidates : K(i) = key => Constructed(assignments[i]) = Direct[key]
    BY DirectIs
<1>2. ASSUME NEW v \in values PROVE v = built
    <2>1. PICK i \in Candidates : K(i) = key /\ assignments[i].value = v
        BY CandidatesAre
    <2>2. Constructed(assignments[i]) = Direct[key] /\ i \in DOMAIN assignments
        BY <1>1, <2>1, CandidatesAre
    <2> QED BY <2>1, <2>2, ConstructedIs
<1>3. values # {}
    BY <1>1, CandidatesAre
<1> HIDE DEF values
<1>4. values = {built}
    BY <1>2, <1>3
<1> QED BY <1>4 DEF OnlyBuilt, values

\* What a derivation or an alias starts from is held as what it is taken for.
LEMMA EstablishedIs ==
    ASSUME FileInv, NEW scope \in Scopes, NEW name
    PROVE  /\ Established(scope, name) \in Kinds
           /\ Established(scope, name) # None =>
                  /\ Resolves /\ Established(scope, name) \in Halves
                  /\ HeldAs(scope, name, Established(scope, name))
<1> DEFINE given == Lookup(Annotated, scope, name)
           key == <<scope, name>>
           e == Established(scope, name)
<1>1. e = IF given # None THEN given ELSE IF key \in DOMAIN Direct THEN Direct[key] ELSE None
    BY DEF Established
<1> HIDE DEF given, e
<1>2. ASSUME given # None
      PROVE  Resolves /\ given \in Halves /\ HeldAs(scope, name, given)
    <2> DEFINE home == HomeOf(scope, name)
               at == <<home, name>>
    <2>1. Local(Annotated)
        BY AnnotatedIs
    <2>2. at \in DOMAIN Annotated /\ given = Annotated[at]
        BY <1>2, <2>1, LookupIs DEF given
    <2>3. AnnotatedAs(home, name) = {given} /\ given \in Halves
        BY <2>2, AnnotatedIs
    <2>4. Resolves
        BY <2>1, <2>2 DEF Local
    <2> QED BY <2>3, <2>4 DEF HeldAs
<1>3. ASSUME key \in DOMAIN Direct, Direct[key] # None
      PROVE  Resolves /\ Direct[key] \in Halves /\ HeldAs(scope, name, Direct[key])
    <2>1. Resolves /\ Direct[key] \in Halves
        BY <1>3, DirectIs
    <2> QED BY <1>3, <2>1, DirectIsBuilt DEF HeldAs
<1> HIDE DEF key
<1>4. e = None \/ (Resolves /\ e \in Halves /\ HeldAs(scope, name, e))
    BY <1>1, <1>2, <1>3
<1> QED BY <1>4 DEF e, Kinds

\* What an inference takes a name for, from a name that is held.
Takes(scope, v, kind) ==
    \/ v.how = "alias" /\ HeldAs(scope, v.of, kind)
    \/ v.how = "derive" /\ kind = "PUBLIC" /\ HeldAs(scope, v.of, "PRIVATE")

\* An inference takes one step.
LEMMA InferredIs ==
    ASSUME FileInv, NEW i \in DOMAIN assignments
    PROVE  LET a == assignments[i]
               q == Inferred(a)
           IN  /\ q \in Kinds
               /\ q # None => Resolves /\ q \in Halves /\ Takes(a.place.function, a.value, q)
<1> DEFINE a == assignments[i]
           q == Inferred(a)
           e == Established(a.place.function, a.value.of)
<1>1. a.place.function \in Scopes /\ None \in Kinds /\ "PUBLIC" \in Kinds /\ "PUBLIC" \in Halves
    BY AssignmentIs DEF Kinds, Halves
<1>2. e \in Kinds /\ (e # None => Resolves /\ e \in Halves /\ HeldAs(a.place.function, a.value.of, e))
    BY <1>1, EstablishedIs
<1>3. "PRIVATE" # None
    BY NoneAssumption DEF Halves
<1>4. CASE a.value.how = "derive"
    <2>1. q = IF e = "PRIVATE" THEN "PUBLIC" ELSE None
        BY <1>4 DEF Inferred
    <2> QED BY <1>1, <1>2, <1>3, <1>4, <2>1 DEF Takes
<1>5. CASE a.value.how = "alias"
    <2>1. q = e
        BY <1>5 DEF Inferred
    <2> QED BY <1>1, <1>2, <1>5, <2>1 DEF Takes
<1>6. CASE a.value.how # "derive" /\ a.value.how # "alias"
    <2>1. q = None
        BY <1>6 DEF Inferred
    <2> QED BY <1>1, <2>1
<1> QED BY <1>4, <1>5, <1>6

\* After the second round a name is unknown, or keeps what the first one gave it, or
\* was taken from a name that is established.
LEMMA CombinedIs ==
    ASSUME FileInv
    PROVE  \A key \in DOMAIN Combined : Combined[key] # None =>
               /\ Resolves /\ Combined[key] \in Halves
               /\ \/ key \in DOMAIN Direct /\ Direct[key] = Combined[key]
                  \/ \E i \in Candidates : K(i) = key /\ Inferred(assignments[i]) = Combined[key]
<1> DEFINE rest == {i \in Candidates : Constructed(assignments[i]) = None}
           kinds == [i \in rest |-> Inferred(assignments[i])]
<1>1. rest \in SUBSET (DOMAIN assignments) /\ rest \subseteq Candidates
    BY CandidatesAre
<1>2. Combined = MergeAll(Direct, kinds, TRUE)
    BY DEF Combined
<1> HIDE DEF rest
<1>3. kinds \in [rest -> Kinds] /\ \A i \in rest : kinds[i] = Inferred(assignments[i])
    BY <1>1, InferredIs
<1> HIDE DEF kinds
<1>4. Merged(Combined, Direct, rest, Len(assignments), kinds, TRUE)
    BY <1>1, <1>2, <1>3, DirectIs, MergeAllIs
<1>5. ASSUME NEW key \in DOMAIN Combined, Combined[key] # None
      PROVE  /\ Resolves /\ Combined[key] \in Halves
             /\ \/ key \in DOMAIN Direct /\ Direct[key] = Combined[key]
                \/ \E i \in Candidates : K(i) = key /\ Inferred(assignments[i]) = Combined[key]
    <2>1. \/ key \in DOMAIN Direct /\ Direct[key] = Combined[key]
          \/ \E i \in rest : K(i) = key /\ kinds[i] = Combined[key]
        BY <1>4, <1>5 DEF Merged
    <2>2. CASE key \in DOMAIN Direct /\ Direct[key] = Combined[key]
        BY <1>5, <2>2, DirectIs
    <2>3. CASE \E i \in rest : K(i) = key /\ kinds[i] = Combined[key]
        <3>1. PICK i \in rest : K(i) = key /\ kinds[i] = Combined[key]
            BY <2>3
        <3>2. i \in Candidates /\ i \in DOMAIN assignments /\ Inferred(assignments[i]) = Combined[key]
            BY <1>1, <1>3, <3>1
        <3>3. Resolves /\ Combined[key] \in Halves
            BY <1>5, <3>2, InferredIs
        <3> QED BY <3>1, <3>2, <3>3
    <2> QED BY <2>1, <2>2, <2>3
<1> QED BY <1>5

\* What is reported of a name as a key: its annotation, with high confidence, or
\* what the two rounds found of a name that has none.
LEMMA LookupOfKeys ==
    ASSUME FileInv, NEW scope \in Scopes, NEW name, Lookup(Bindings, scope, name) # None
    PROVE  LET b == Lookup(Bindings, scope, name)
               home == HomeOf(scope, name)
               at == <<home, name>>
           IN  /\ Resolves /\ home \in Scopes
               /\ \/ /\ b = [kind |-> b.kind, confidence |-> "HIGH"]
                     /\ AnnotatedAs(home, name) = {b.kind}
                  \/ /\ b = [kind |-> b.kind, confidence |-> "MEDIUM"]
                     /\ Cardinality(AnnotatedAs(home, name)) # 1
                     /\ at \in DOMAIN Combined /\ Combined[at] = b.kind /\ b.kind # None
<1> DEFINE assigned == {key \in DOMAIN Combined \ DOMAIN Annotated : Combined[key] # None}
           b == Lookup(Bindings, scope, name)
           home == HomeOf(scope, name)
           at == <<home, name>>
<1>1. Bindings = [key \in DOMAIN Annotated \cup assigned |->
                     IF key \in DOMAIN Annotated
                     THEN [kind |-> Annotated[key], confidence |-> "HIGH"]
                     ELSE [kind |-> Combined[key], confidence |-> "MEDIUM"]]
    BY DEF Bindings
<1>2. ASSUME NEW key \in assigned
      PROVE  Resolves /\ \E s \in Scopes : \E n : key = <<s, n>> /\ Binds(s, n)
    <2>1. PICK i \in Candidates : K(i) = key
        BY CombinedIs, DirectIs, <1>2
    <2>2. Resolves
        BY CombinedIs, <1>2
    <2>3. i \in DOMAIN assignments
        BY CandidatesAre
    <2>4. /\ K(i) = <<assignments[i].place.function, assignments[i].name>>
          /\ assignments[i].place.function \in Scopes
          /\ Binds(assignments[i].place.function, assignments[i].name)
        BY <2>3, AssignmentIs DEF Binds
    <2> QED BY <2>1, <2>2, <2>4
<1> HIDE DEF assigned
<1>3. DOMAIN Bindings = DOMAIN Annotated \cup assigned
    BY <1>1
<1>4. Local(Bindings)
    BY <1>2, <1>3, AnnotatedIs DEF Local
<1>5. at \in DOMAIN Bindings /\ b = Bindings[at]
    BY <1>4, LookupIs
<1> HIDE DEF b, home
<1>6. home \in Scopes /\ Resolves
    BY <1>4, <1>5, HomeIsSeen DEF Local, home
<1>7. CASE at \in DOMAIN Annotated
    <2>1. b = [kind |-> Annotated[at], confidence |-> "HIGH"]
        BY <1>1, <1>5, <1>7
    <2>2. AnnotatedAs(home, name) = {Annotated[at]}
        BY <1>7, AnnotatedIs
    <2> QED BY <1>6, <2>1, <2>2 DEF b, home
<1>8. CASE at \notin DOMAIN Annotated
    <2>1. at \in assigned /\ b = [kind |-> Combined[at], confidence |-> "MEDIUM"]
        BY <1>1, <1>3, <1>5, <1>8
    <2>2. at \in DOMAIN Combined /\ Combined[at] # None
        BY <2>1 DEF assigned
    <2>3. Cardinality(AnnotatedAs(home, name)) # 1
        BY <1>6, <1>8, AnnotatedIs DEF Local
    <2> QED BY <1>6, <2>1, <2>2, <2>3 DEF b, home
<1> QED BY <1>7, <1>8

-----------------------------------------------------------------------------
(* The claims *)

\* What a claim of a key in the scope a walk ended in has to meet.
KeySound(home, name, claim) ==
    /\ claim.kind \in AnnotatedAs(home, name) \/ AssignedIn(home, name) # {}
    /\ Cardinality(AnnotatedAs(home, name)) = 1 =>
           AnnotatedAs(home, name) = {claim.kind} /\ claim.confidence = "HIGH"
    /\ claim.confidence = "MEDIUM" => Grounds(home, name, claim.kind)

\* Something outside the class bodies is said of a name.
Outside(name) ==
    \/ \E i \in DOMAIN assignments :
           assignments[i].name = name /\ ~IsBody(assignments[i].place)
    \/ \E a \in annotations : a.name = name /\ ~IsBody(a.place)

\* The conditions of the properties, claim by claim.
Sound(m) ==
    /\ m.claim.rule = "KEY" => \A home : home = Home(m) => KeySound(home, m.name, m.claim)
    /\ Outside(m.name)

\* A claim of a key meets all three conditions.
LEMMA KeysAreSound ==
    ASSUME FileInv, NEW scope \in Scopes, NEW name, NEW b,
           b = Lookup(Bindings, scope, name), b # None, NEW claim,
           claim.kind = b.kind, claim.confidence = b.confidence
    PROVE  Resolves /\ KeySound(HomeOf(scope, name), name, claim)
<1> DEFINE home == HomeOf(scope, name)
           at == <<home, name>>
           values == AssignedIn(home, name)
           said == AnnotatedAs(home, name)
<1>1. /\ Resolves /\ home \in Scopes
      /\ \/ b = [kind |-> b.kind, confidence |-> "HIGH"] /\ said = {b.kind}
         \/ /\ b = [kind |-> b.kind, confidence |-> "MEDIUM"] /\ Cardinality(said) # 1
            /\ at \in DOMAIN Combined /\ Combined[at] = b.kind /\ b.kind # None
    BY LookupOfKeys
<1> HIDE DEF home
<1>2. CASE b = [kind |-> b.kind, confidence |-> "HIGH"] /\ said = {b.kind}
    <2>1. claim.confidence = "HIGH" /\ said = {claim.kind}
        BY <1>2
    <2>2. claim.confidence # "MEDIUM" /\ claim.kind \in said
        BY <2>1
    <2>3. KeySound(home, name, claim)
        BY <2>1, <2>2 DEF KeySound
    <2> QED BY <1>1, <2>3 DEF home
<1>3. CASE /\ b = [kind |-> b.kind, confidence |-> "MEDIUM"] /\ Cardinality(said) # 1
           /\ at \in DOMAIN Combined /\ Combined[at] = b.kind /\ b.kind # None
    <2>1. claim.confidence = "MEDIUM" /\ claim.kind = b.kind
        BY <1>3
    <2>2. CASE at \in DOMAIN Direct /\ Direct[at] = b.kind
        <3>1. OnlyBuilt(home, name, b.kind)
            BY <1>3, <2>2, DirectIsBuilt
        <3>2. values # {}
            BY <3>1 DEF OnlyBuilt
        <3>3. KeySound(home, name, claim)
            BY <1>3, <2>1, <3>1, <3>2 DEF KeySound, Grounds
        <3> QED BY <1>1, <3>3 DEF home
    <2>3. CASE \E i \in Candidates : K(i) = at /\ Inferred(assignments[i]) = b.kind
        <3>1. PICK i \in Candidates : K(i) = at /\ Inferred(assignments[i]) = b.kind
            BY <2>3
        <3>2. i \in DOMAIN assignments /\ assignments[i].value \in values
            BY <3>1, CandidatesAre
        <3>3. Takes(assignments[i].place.function, assignments[i].value, b.kind)
            BY <1>3, <3>1, <3>2, InferredIs
        <3>4. assignments[i].place.function = home
            BY <3>1, <3>2, AssignmentIs
        <3>5. Grounds(home, name, b.kind)
            BY <3>2, <3>3, <3>4 DEF Grounds, Takes
        <3>6. KeySound(home, name, claim)
            BY <1>3, <2>1, <3>2, <3>5 DEF KeySound
        <3> QED BY <1>1, <3>6 DEF home
    <2> QED BY <1>3, <2>2, <2>3, CombinedIs
<1> QED BY <1>1, <1>2, <1>3

\* A call that every assignment of a name makes.
LEMMA AllOfIs ==
    ASSUME NEW values, NEW kinds, AllOf(values, kinds) # None
    PROVE  /\ Resolves /\ AllOf(values, kinds) \in kinds
           /\ values = {[how |-> "call", of |-> AllOf(values, kinds)]}
<1>1. PICK k \in kinds : values = {[how |-> "call", of |-> k]} /\ Resolves
    BY DEF AllOf
<1>2. (CHOOSE v \in values : TRUE) = [how |-> "call", of |-> k]
    BY <1>1
<1>3. AllOf(values, kinds) = (CHOOSE v \in values : TRUE).of
    BY <1>1 DEF AllOf
<1> QED BY <1>1, <1>2, <1>3

\* What binds a name, other than a store or a parameter, is outside the class bodies.
LEMMA SaidOutside ==
    ASSUME FileInv, NEW s, NEW name, AnnotatedAs(s, name) # {} \/ AssignedIn(s, name) # {}
    PROVE  Outside(name)
<1>1. CASE AnnotatedAs(s, name) # {}
    <2>1. PICK a \in annotations : Key(a) = <<s, name>> /\ ~IsClassBody(a.place)
        BY <1>1 DEF AnnotatedAs
    <2>2. a.name = name /\ a.place \in layout
        BY <2>1 DEF Key, FileInv
    <2>3. ~IsBody(a.place)
        BY <2>1, <2>2, ScopesAreNames, PlacesNest
    <2> QED BY <2>2, <2>3 DEF Outside
<1>2. CASE AssignedIn(s, name) # {}
    <2>1. PICK i \in Candidates : K(i) = <<s, name>>
        BY <1>2, CandidatesAre
    <2>2. i \in DOMAIN assignments /\ ~IsClassBody(assignments[i].place)
        BY DEF Candidates
    <2>3. assignments[i].name = name /\ assignments[i].place \in layout
        BY <2>1, <2>2, AssignmentIs
    <2>4. ~IsBody(assignments[i].place)
        BY <2>2, <2>3, ScopesAreNames, PlacesNest
    <2> QED BY <2>2, <2>3, <2>4 DEF Outside
<1> QED BY <1>1, <1>2

\* Whatever the file, every claim is sound.
LEMMA ClaimsAreSound ==
    ASSUME FileInv, NEW scope \in Scopes, NEW name \in Names, NEW claim \in Claims(Bindings, scope, name)
    PROVE  Resolves /\ Sound([scope |-> scope, name |-> name, claim |-> claim])
<1> DEFINE m == [scope |-> scope, name |-> name, claim |-> claim]
           binding == Lookup(Bindings, scope, name)
           context == ContextOf(scope, name)
           marker == MarkerOf(scope, name)
<1>1. \/ /\ binding # None
         /\ claim = [rule |-> "KEY", kind |-> binding.kind, confidence |-> binding.confidence]
      \/ context # None /\ claim = [rule |-> "AES", kind |-> context, confidence |-> "MEDIUM"]
      \/ marker # None /\ claim = [rule |-> "MARKER", kind |-> marker, confidence |-> "MEDIUM"]
    BY DEF Claims
<1>2. m.scope = scope /\ m.name = name /\ m.claim = claim
    OBVIOUS
<1>3. Home(m) = HomeOf(scope, name)
    BY DEF Home
<1> HIDE DEF m, binding, context, marker
<1>4. CASE /\ binding # None
           /\ claim = [rule |-> "KEY", kind |-> binding.kind, confidence |-> binding.confidence]
    <2>1. Resolves /\ KeySound(HomeOf(scope, name), name, claim)
        BY <1>4, KeysAreSound DEF binding
    <2>2. Outside(name)
        <3>1. \/ AnnotatedAs(HomeOf(scope, name), name) # {}
              \/ AssignedIn(HomeOf(scope, name), name) # {}
            BY <2>1 DEF KeySound
        <3> QED BY <3>1, SaidOutside
    <2> QED BY <1>2, <1>3, <2>1, <2>2 DEF Sound, m
<1>5. CASE context # None /\ claim = [rule |-> "AES", kind |-> context, confidence |-> "MEDIUM"]
    <2>1. PICK s \in {scope, Module} :
              AllOf(AssignedIn(s, name), Contexts) # None /\ context = AllOf(AssignedIn(s, name), Contexts)
        BY <1>5 DEF context, ContextOf
    <2>2. Resolves /\ AssignedIn(s, name) = {[how |-> "call", of |-> context]}
        BY <2>1, AllOfIs
    <2>3. Outside(name)
        BY <2>2, SaidOutside
    <2>4. claim.rule # "KEY"
        BY <1>5
    <2> QED BY <1>2, <2>2, <2>3, <2>4 DEF Sound, m
<1>6. CASE marker # None /\ claim = [rule |-> "MARKER", kind |-> marker, confidence |-> "MEDIUM"]
    <2>1. Resolves /\ AssignedIn(scope, name) = {[how |-> "call", of |-> marker]}
        BY <1>6, AllOfIs DEF marker, MarkerOf
    <2>2. Outside(name)
        BY <2>1, SaidOutside
    <2>3. claim.rule # "KEY"
        BY <1>6
    <2> QED BY <1>2, <2>1, <2>2, <2>3 DEF Sound, m
<1> QED BY <1>1, <1>4, <1>5, <1>6

-----------------------------------------------------------------------------
(* The file and its observations *)

\* The inductive invariant.
RunInv ==
    /\ FileInv
    /\ error => matches \in {None, {}}
    /\ \A m \in Reported : Sound(m)

\* The invariant carries both properties.
LEMMA InvIsEnough ==
    ASSUME RunInv
    PROVE  ScopesAreKept /\ ClaimsAreEstablished
<1>1. TypeOK
    BY DEF RunInv, FileInv, TypeOK
<1>2. \A m \in Reported : Outside(m.name) /\ (m \in KeyClaims => KeySound(Home(m), m.name, m.claim))
    BY DEF RunInv, Sound, KeyClaims
<1>3. KeyClaims \subseteq Reported
    BY DEF KeyClaims
<1>4. LocalNamesShadow
    BY <1>2, <1>3 DEF LocalNamesShadow, KeySound
<1>5. ClassAttributesStayOut
    BY <1>2 DEF ClassAttributesStayOut, Outside
<1>6. AnnotationStands
    BY <1>2, <1>3 DEF AnnotationStands, KeySound
<1>7. OneHop
    BY <1>2, <1>3 DEF OneHop, KeySound
<1> QED BY <1>1, <1>4, <1>5, <1>6, <1>7 DEF ScopesAreKept, ClaimsAreEstablished

\* A statement, or the end of the file in an error.
LEMMA RecordKeeps ==
    ASSUME FileInv, Record
    PROVE  FileInv' /\ matches' = None
<1>1. matches' = None
    BY DEF Record
<1>2. Module \in Scopes /\ \A place \in layout : place.function \in Scopes
    BY ScopesAreNames
<1>3. CASE RecordError
    <2>1. /\ layout' = layout /\ error' /\ imports' = << >> /\ assignments' = << >>
          /\ parameters' = {} /\ stores' = {} /\ annotations' = {}
        BY <1>3 DEF RecordError
    <2>2. Cardinality({}) = 0 /\ Len(<< >>) = 0
        BY FS_EmptySet
    <2>3. Statements' = 0 /\ 0 <= MaxStatements
        BY <2>1, <2>2, FileAssumption DEF Statements
    <2>4. << >> \in Seq(Assignments')
        OBVIOUS
    <2> QED BY <1>1, <2>1, <2>3, <2>4 DEF FileInv, Scopes, FunctionScopes
<1>4. ASSUME ~error, layout' = layout, imports' = imports, error' = error,
             parameters' \cup stores' \subseteq Scopes \X Names, assignments' \in Seq(Assignments),
             \A a \in annotations' : a.place \in layout /\ a.kind \in Halves,
             Statements' <= MaxStatements
      PROVE  FileInv'
    <2>1. Scopes' = Scopes /\ Assignments' = Assignments
        BY <1>4 DEF Scopes, FunctionScopes, Assignments
    <2> QED BY <1>4, <2>1 DEF FileInv
<1>5. ASSUME MayRecord, RecordStatement, Statements' <= MaxStatements
      PROVE  FileInv'
    <2>1. ~error
        BY <1>5 DEF MayRecord
    <2>2. FunctionPlaces \subseteq layout
        BY DEF FunctionPlaces
    <2>3. \A place, name : \A kind \in Halves :
              LET a == Annotation(place, name, kind) IN a.place = place /\ a.kind \in Halves
        BY DEF Annotation
    <2>4. ASSUME NEW place \in layout, NEW name \in Names,
                 NEW kinds \in {{}} \cup {{h} : h \in Halves}, RecordParameter(place, name, kinds)
          PROVE  FileInv'
        <3>1. /\ parameters' = parameters \cup {<<place.function, name>>}
              /\ annotations' = annotations \cup {Annotation(place, name, kind) : kind \in kinds}
              /\ UNCHANGED <<layout, imports, stores, assignments, error>>
            BY <2>4 DEF RecordParameter
        <3>2. kinds \subseteq Halves
            OBVIOUS
        <3>3. \A a \in annotations' : a.place \in layout /\ a.kind \in Halves
            BY <2>3, <3>1, <3>2 DEF FileInv
        <3>4. parameters' \cup stores' \subseteq Scopes \X Names
            BY <1>2, <3>1 DEF FileInv
        <3> QED BY <1>4, <1>5, <2>1, <3>1, <3>3, <3>4 DEF FileInv
    <2>5. ASSUME NEW place \in layout, NEW name \in Names, NEW value \in Values,
                 assignments' = Append(assignments, [place |-> place, name |-> name, value |-> value])
          PROVE  assignments' \in Seq(Assignments)
        <3>1. [place |-> place, name |-> name, value |-> value] \in Assignments
            BY DEF Assignments
        <3> QED BY <2>5, <3>1 DEF FileInv
    <2>6. ASSUME NEW place \in layout, NEW name \in Names, NEW value \in Values,
                 RecordAssignment(place, name, value)
          PROVE  FileInv'
        <3>1. /\ assignments' = Append(assignments, [place |-> place, name |-> name, value |-> value])
              /\ UNCHANGED <<layout, imports, parameters, stores, annotations, error>>
            BY <2>6 DEF RecordAssignment
        <3> QED BY <1>4, <1>5, <2>1, <2>5, <3>1 DEF FileInv
    <2>7. ASSUME NEW place \in layout, NEW name \in Names, NEW value \in Values, NEW kind \in Halves,
                 RecordAnnotatedAssignment(place, name, value, kind)
          PROVE  FileInv'
        <3>1. /\ assignments' = Append(assignments, [place |-> place, name |-> name, value |-> value])
              /\ annotations' = annotations \cup {Annotation(place, name, kind)}
              /\ UNCHANGED <<layout, imports, parameters, stores, error>>
            BY <2>7 DEF RecordAnnotatedAssignment
        <3>2. \A a \in annotations' : a.place \in layout /\ a.kind \in Halves
            BY <2>3, <3>1 DEF FileInv
        <3> QED BY <1>4, <1>5, <2>1, <2>5, <3>1, <3>2 DEF FileInv
    <2>8. ASSUME NEW place \in layout, NEW name \in Names, RecordStore(place, name)
          PROVE  FileInv'
        <3>1. /\ stores' = stores \cup {<<place.function, name>>}
              /\ UNCHANGED <<layout, imports, parameters, assignments, annotations, error>>
            BY <2>8 DEF RecordStore
        <3>2. parameters' \cup stores' \subseteq Scopes \X Names
            BY <1>2, <3>1 DEF FileInv
        <3> QED BY <1>4, <1>5, <2>1, <3>1, <3>2 DEF FileInv
    <2>9. ASSUME NEW place \in layout, NEW kind \in Halves, RecordReturnType(place, kind)
          PROVE  FileInv'
        <3>1. /\ annotations' = annotations \cup
                     {Annotation(place, Last(place.function), kind)}
              /\ UNCHANGED <<layout, imports, parameters, stores, assignments, error>>
            BY <2>9 DEF RecordReturnType
        <3>2. \A a \in annotations' : a.place \in layout /\ a.kind \in Halves
            BY <2>3, <3>1 DEF FileInv
        <3> QED BY <1>4, <1>5, <2>1, <3>1, <3>2 DEF FileInv
    <2> QED BY <1>5, <2>2, <2>4, <2>6, <2>7, <2>8, <2>9 DEF RecordStatement
<1> QED BY <1>1, <1>3, <1>5 DEF Record

\* A claim is of a file, so that it stands as long as the file does.
LEMMA SoundStays ==
    ASSUME UNCHANGED fileVars, NEW m
    PROVE  Sound(m)' <=> Sound(m)
<1>1. /\ layout' = layout /\ imports' = imports /\ parameters' = parameters /\ stores' = stores
      /\ assignments' = assignments /\ annotations' = annotations /\ error' = error
    BY DEF fileVars
<1>2. Candidates' = Candidates /\ FunctionScopes' = FunctionScopes
    BY <1>1 DEF Candidates, FunctionScopes
<1>3. ASSUME NEW s, NEW n
      PROVE  /\ AssignedIn(s, n)' = AssignedIn(s, n) /\ AnnotatedAs(s, n)' = AnnotatedAs(s, n)
             /\ ScopeChain(s)' = ScopeChain(s) /\ LocallyBound(s)' = LocallyBound(s)
    <2>1. AssignedIn(s, n)' = AssignedIn(s, n)
        BY <1>1, <1>2 DEF AssignedIn
    <2>2. AnnotatedAs(s, n)' = AnnotatedAs(s, n)
        BY <1>1 DEF AnnotatedAs
    <2>3. ScopeChain(s)' = ScopeChain(s)
        BY <1>2 DEF ScopeChain
    <2>4. LocallyBound(s)' = LocallyBound(s)
        BY <1>1 DEF LocallyBound
    <2> QED BY <2>1, <2>2, <2>3, <2>4
<1>4. ASSUME NEW s, NEW n
      PROVE  HomeOf(s, n)' = HomeOf(s, n) /\ \A k : OnlyBuilt(s, n, k)' <=> OnlyBuilt(s, n, k)
    <2>1. \A r : Binds(r, n)' <=> Binds(r, n)
        BY <1>3 DEF Binds
    <2>2. HomeOf(s, n)' = HomeOf(s, n)
        BY <1>3, <2>1 DEF HomeOf
    <2>3. \A k : OnlyBuilt(s, n, k)' <=> OnlyBuilt(s, n, k)
        BY <1>3 DEF OnlyBuilt
    <2> QED BY <2>2, <2>3
<1>5. ASSUME NEW home, NEW n, NEW c PROVE KeySound(home, n, c)' <=> KeySound(home, n, c)
    <2>1. \A o, k : HeldAs(home, o, k)' <=> HeldAs(home, o, k)
        BY <1>3, <1>4 DEF HeldAs
    <2>2. Grounds(home, n, c.kind)' <=> Grounds(home, n, c.kind)
        BY <1>3, <1>4, <2>1 DEF Grounds
    <2> QED BY <1>3, <2>2 DEF KeySound
<1>7. ASSUME NEW n PROVE Outside(n)' <=> Outside(n)
    BY <1>1 DEF Outside
<1>8. Home(m)' = Home(m)
    BY <1>4 DEF Home
<1> QED BY <1>5, <1>7, <1>8 DEF Sound

LEMMA InitHolds == Init => RunInv
<1> SUFFICES ASSUME Init PROVE RunInv
    OBVIOUS
<1>1. /\ layout \in Layouts /\ parameters = {} /\ stores = {} /\ assignments = << >>
      /\ annotations = {} /\ error = FALSE /\ matches = None
    BY DEF Init, FileInit
<1>2. IsFiniteSet({}) /\ Cardinality({}) = 0 /\ Len(<< >>) = 0
    BY FS_EmptySet
<1>3. Statements = 0 /\ 0 <= MaxStatements
    BY <1>1, <1>2, FileAssumption DEF Statements
<1>4. << >> \in Seq(Assignments)
    OBVIOUS
<1>5. FileInv
    BY <1>1, <1>2, <1>3, <1>4 DEF FileInv
<1> QED BY <1>1, <1>5 DEF RunInv, Reported

LEMMA NextKeeps == RunInv /\ [Next]_vars => RunInv'
<1> SUFFICES ASSUME RunInv, [Next]_vars PROVE RunInv'
    OBVIOUS
<1>1. FileInv /\ (error => matches \in {None, {}}) /\ \A m \in Reported : Sound(m)
    BY DEF RunInv
<1>2. ASSUME UNCHANGED fileVars
      PROVE  FileInv' /\ (error' <=> error) /\ \A m : Sound(m)' <=> Sound(m)
    <2>1. FileInv'
        BY <1>1, <1>2 DEF FileInv, fileVars, Scopes, FunctionScopes, Assignments,
                          Statements
    <2>2. error' = error
        BY <1>2 DEF fileVars
    <2> QED BY <1>2, <2>1, <2>2, SoundStays
<1>3. CASE Record
    BY <1>1, <1>3, RecordKeeps DEF RunInv, Reported
<1>4. CASE Evaluate
    <2>1. UNCHANGED fileVars /\ matches' = UNION {{[scope |-> s, name |-> n, claim |-> c] :
                                                      c \in Claims(Bindings, s, n)} : s \in Scopes, n \in Names}
        BY <1>4 DEF Evaluate
    <2>2. ASSUME NEW m \in matches' PROVE Resolves /\ Sound(m)
        <3>1. PICK s \in Scopes, n \in Names :
                  m \in {[scope |-> s, name |-> n, claim |-> c] : c \in Claims(Bindings, s, n)}
            BY <2>1
        <3>2. PICK c \in Claims(Bindings, s, n) : m = [scope |-> s, name |-> n, claim |-> c]
            BY <3>1
        <3> QED BY <1>1, <3>2, ClaimsAreSound
    <2>3. \A m \in Reported' : Sound(m)'
        BY <1>2, <2>1, <2>2 DEF Reported
    <2>4. error => matches' = {}
        <3>1. error => ~Resolves
            BY <1>1 DEF FileInv, Resolves
        <3> QED BY <2>2, <3>1
    <2> QED BY <1>2, <2>1, <2>3, <2>4 DEF RunInv
<1>5. CASE UNCHANGED vars
    <2>1. UNCHANGED fileVars /\ matches' = matches
        BY <1>5 DEF vars
    <2>2. Reported' = Reported
        BY <2>1 DEF Reported
    <2> QED BY <1>1, <1>2, <2>1, <2>2 DEF RunInv
<1> QED BY <1>3, <1>4, <1>5 DEF Next

LEMMA RunInvHolds == Spec => []RunInv
<1> QED BY InitHolds, NextKeeps, PTL DEF Spec

\* What a name is claimed to be is looked up from the inside out: a parameter, a loop
\* variable or a local of unknown origin that the parser records as bound never
\* inherits what an outer scope knows of the name, and the body of a class says
\* nothing of a bare name (BindingIndex.lookup in engine/rules/resolution.py),
\* whatever the file.
THEOREM NamesAreScoped == Spec => []ScopesAreKept
<1>1. RunInv => ScopesAreKept
    BY InvIsEnough
<1> QED BY <1>1, RunInvHolds, PTL

\* A claim of a key is what the annotations of the name agree on, where they do; or
\* all that is assigned to the name builds that half of the pair; or one
\* assignment takes it, in one step, from a name that is annotated or built so
\* (_collect_annotations, _collect_assignments), whatever the file.
THEOREM ClaimsAreBacked == Spec => []ClaimsAreEstablished
<1>1. RunInv => ClaimsAreEstablished
    BY InvIsEnough
<1> QED BY <1>1, RunInvHolds, PTL
=============================================================================
