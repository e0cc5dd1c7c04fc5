------------------------------ MODULE Resolver ------------------------------
(***************************************************************************)
(* sema/name_resolution.rs over the statement tree, with the scope stack   *)
(* of sema/symbol_table.rs: which definition each name of a body stands    *)
(* for.  Scopes are a sequence of functions from names to the path of the  *)
(* statement that defines them, the innermost last.                        *)
(***************************************************************************)
EXTENDS Syntax, SequencesExt

CONSTANT Params     \* the names of the function's parameters

Parameter == <<0>>  \* the path that stands for a parameter
Undefined == <<>>

\* The depth of the innermost scope that has n; 0 when none has.
DepthOf(scopes, n) ==
    LET has == { d \in DOMAIN scopes : n \in DOMAIN scopes[d] }
    IN  IF has = {} THEN 0 ELSE CHOOSE d \in has : \A e \in has : e <= d

ResolveName(scopes, n) ==
    IF DepthOf(scopes, n) = 0 THEN Undefined ELSE scopes[DepthOf(scopes, n)][n]

\* ScopeStack::define: the first definition of a name in a scope stays.
Declare(scopes, n, p) ==
    IF n = NoName \/ n \in DOMAIN Last(scopes) THEN scopes
    ELSE Append(Front(scopes), (n :> p) @@ Last(scopes))

Opened(scopes) == Append(scopes, <<>>)

\* What the resolver records: the use of n at p, in the part `part`.
Recorded(scopes, p, part, acc) ==
    { [at |-> p, part |-> part, n |-> n, def |-> ResolveName(scopes, n)] : n \in NamesIn(acc) }

Duplicate(scopes, n, p) ==
    IF n # NoName /\ n \in DOMAIN Last(scopes)
    THEN {[at |-> p, part |-> "duplicate", n |-> n, def |-> Undefined]} ELSE {}

RECURSIVE ResolveFrom(_, _, _, _)

ResolveBlock(scopes, block, at) == ResolveFrom(Opened(scopes), block, at, 1)

ResolveBodies(scopes, s, here, js) ==
    UNION { ResolveBlock(scopes, s.bodies[j], here \o <<j>>) : j \in js }

\* The scopes a statement's bodies are resolved in, under their own.
Inside(scopes, s, here) ==
    IF s.k \in {"match", "for", "using"} THEN Declare(Opened(scopes), s.def, here) ELSE scopes

ResolveStmt(scopes, s, here) ==
    CASE s.k = "try" ->
           ResolveBodies(scopes, s, here, {1}) \cup
           ResolveBodies(Declare(Opened(scopes), s.def, here), s, here, DOMAIN s.bodies \ {1})
      [] s.k = "with" -> ResolveBodies(scopes, s, here, {1})
      [] s.k = "match" ->
           Recorded(scopes, here, "acc", s.acc) \cup
           Recorded(Inside(scopes, s, here), here, "hid", s.hid) \cup
           ResolveBodies(Inside(scopes, s, here), s, here, DOMAIN s.bodies)
      [] s.k = "using" ->
           Recorded(Opened(scopes), here, "acc", s.acc) \cup
           ResolveBodies(Inside(scopes, s, here), s, here, {1})
      [] OTHER ->
           Recorded(scopes, here, "acc", s.acc) \cup Recorded(scopes, here, "hid", s.hid) \cup
           (IF s.k = "assign" THEN Recorded(scopes, here, "target", <<[n |-> s.def, h |-> "read"]>>) ELSE {}) \cup
           (IF s.k = "let" THEN Duplicate(scopes, s.def, here) ELSE {}) \cup
           ResolveBodies(Inside(scopes, s, here), s, here, DOMAIN s.bodies)

ResolveFrom(scopes, block, at, i) ==
    IF i > Len(block) THEN {}
    ELSE LET s    == block[i]
             here == Append(at, i)
         IN  ResolveStmt(scopes, s, here) \cup
             ResolveFrom(IF s.k = "let" THEN Declare(scopes, s.def, here) ELSE scopes,
                         block, at, i + 1)

\* The parameters have a scope, the body has its own under it.
ResolveFunction(block) == ResolveBlock(<<[n \in Params |-> Parameter]>>, block, <<>>)

Resolves(block) == \A r \in ResolveFunction(block) : r.def # Undefined
=============================================================================
