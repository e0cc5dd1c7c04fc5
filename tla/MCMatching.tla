----------------------------- MODULE MCMatching -----------------------------
(***************************************************************************)
(* Matches for Matching: for values of a dozen types, up to three arms out of  *)
(* the patterns that could be written for them, with and without guards.   *)
(***************************************************************************)
EXTENDS Matching, TLC

T(kind) == [k |-> kind]
Of(kind, t) == [k |-> kind, of |-> <<t>>]
Named(name, types) == [k |-> "named", def |-> name, args |-> types]
V(name, shape, fields, types) == [name |-> name, shape |-> shape, fields |-> fields, of |-> types]

F == Named("F", << >>)
E(t) == Named("E", <<t>>)

Pair == [k |-> "tuple", of |-> <<F, T("int")>>]

\* F has variants without values, E<T> of every kind, S a field of type F; G is another name of F.
MCEnums == [e \in {"E", "F"} |->
    IF e = "F" THEN {V("P", "none", << >>, << >>), V("Q", "none", << >>, << >>)}
    ELSE {V("A", "none", << >>, << >>), V("B", "tuple", << >>, <<[k |-> "param", i |-> 1]>>), V("C", "struct", <<"x">>, <<T("int")>>)}]
MCStructs == [s \in {"S"} |-> [fields |-> <<"f", "n">>, of |-> <<F, T("int")>>]]
MCAliases == [a \in {"G"} |-> "F"]
MCFits(kind) == CASE kind = "int" -> 0..2 [] kind = "u8" -> 0..1 [] OTHER -> {0}

P(kind) == [k |-> kind, of |-> << >>]
Wild == P("wild")
Name(n) == P("ident") @@ [name |-> n, fields |-> << >>]
Short(n) == P("short") @@ [name |-> n]
Lit(kind, n, suffix) == P("literal") @@ [lit |-> kind, n |-> n, suffix |-> suffix]
Span(over, lo, hi) == P("range") @@ [over |-> over, lo |-> lo, hi |-> hi]
Either(ps) == [k |-> "or", of |-> ps]
Tuple(ps) == [k |-> "tuple", of |-> ps]
Array(ps, rest) == [k |-> "array", of |-> ps, rest |-> rest]
Braced(name, fields, ps) == [k |-> "struct", name |-> name, fields |-> fields, of |-> ps]
Extract(fields, ps) == [k |-> "extract", fields |-> fields, of |-> ps]
Path(type, name) == [k |-> "enum", type |-> type, name |-> name, payload |-> "none", fields |-> << >>, of |-> << >>]
Call(type, name, ps) == [k |-> "enum", type |-> type, name |-> name, payload |-> "tuple", fields |-> << >>, of |-> ps]
Rec(type, name, fields, ps) == [k |-> "enum", type |-> type, name |-> name, payload |-> "struct", fields |-> fields, of |-> ps]

Always == {Wild, Name("x")}
One == Lit("int", 1, "")
ForF == Always \cup {Name("P"), Name("Q"), Path("F", "P"), Path("G", "Q"), Path("E", "P"), Path("F", "A"),
                  Either(<<Name("P"), Path("F", "Q")>>), Either(<<Path("F", "P"), Name("x")>>), Either(<<Name("P"), Name("P")>>)}
ForE == Always \cup {Name("A"), Name("B"), Path("E", "A"), Call("", "B", <<Wild>>), Call("", "B", <<Name("x")>>), Call("E", "B", <<Name("P")>>),
                  Call("", "B", << >>), Braced("C", <<"x">>, <<Short("x")>>), Braced("C", <<"x">>, <<One>>), Braced("C", <<"y">>, <<Short("y")>>),
                  Rec("E", "C", <<"x">>, <<Name("y")>>), Either(<<Name("A"), Call("", "B", <<Wild>>)>>)}
ForNumber == Always \cup {One, Lit("int", 2, ""), Lit("int", 0, "u8"), Span("int", 0, 2), Lit("char", 0, ""), Either(<<One, Lit("int", 0, "")>>)}
ForNested == {Call("", "B", <<p>>) : p \in {One, Span("int", 0, 3), Name("x"), Lit("null", 0, "")}}
             \cup {Path("E", "A"), Braced("C", <<"x">>, <<Span("int", 1, 3)>>), Either(<<Call("", "B", <<Name("x")>>), Name("x")>>), Wild}
ForOptional == Always \cup {Lit("null", 0, ""), Name("P"), Path("F", "P"), Path("G", "Q"), One}
ForTuple == Always \cup {Tuple(<<Name("P"), Name("x")>>), Tuple(<<Name("x"), One>>), Tuple(<<Path("F", "Q"), Wild>>), Tuple(<<Name("P"), Name("P")>>),
                      Array(<<Name("x")>>, "y"), Tuple(<<Wild>>)}
ForList == Always \cup {Array(<<Name("P")>>, ""), Array(<<Name("x")>>, "y"), Array(<<Path("F", "P"), Name("x")>>, "_"), Array(<< >>, ""),
                     Tuple(<<Name("x")>>), Extract(<<"f">>, <<Wild>>)}
ForS == Always \cup {Braced("S", <<"f", "n">>, <<Short("f"), Short("n")>>), Braced("", <<"n">>, <<One>>), Extract(<<"f">>, <<Name("P")>>),
                  Braced("S", <<"f">>, <<Path("F", "P")>>), Braced("S", <<"z">>, <<Short("z")>>), Braced("E", <<"n">>, <<Name("x")>>)}

Arms(patterns, guards) == {[pat |-> p, guarded |-> g] : p \in patterns, g \in guards}
Match2(t, patterns) == {[type |-> t, arms |-> <<a, b>>] : a \in Arms(patterns, BOOLEAN), b \in Arms(patterns, BOOLEAN)}
Match3(t, patterns) == {[type |-> t, arms |-> <<a, b, c>>] : a \in Arms(patterns, BOOLEAN), b, c \in Arms(patterns, {FALSE})}
MCMatches ==
    Match2(F, ForF) \cup Match3(E(F), ForE) \cup Match3(E(T("int")), ForNested)
    \cup Match2(T("int"), ForNumber) \cup Match2(T("u8"), ForNumber) \cup Match2(T("char"), ForNumber)
    \cup Match2(Of("opt", F), ForOptional) \cup Match2(Of("opt", T("int")), ForOptional) \cup Match2(Of("arena", F), ForOptional)
    \cup Match2(Of("arena", Of("opt", F)), ForOptional)
    \cup Match2(Pair, ForTuple) \cup Match2(Of("list", F), ForList) \cup Match2(Named("S", << >>), ForS)

Apart == {Name("x"), Tuple(<<Name("x"), Wild>>), Tuple(<<Name("x")>>), Tuple(<<Name("x"), Name("y"), Name("z")>>), Tuple(<<Name("x"), Name("x")>>),
          Tuple(<<Wild, Tuple(<<Name("x"), Name("y")>>)>>), Array(<<Name("x")>>, "y"), Array(<<Name("x"), Name("y")>>, ""), Braced("", <<"f", "n">>, <<Short("f"), Name("y")>>),
          Braced("", <<"z">>, <<Short("z")>>), Braced("", <<"z", "f">>, <<Tuple(<<Name("x")>>), Name("y")>>),
          Braced("", <<"n">>, <<Tuple(<<Name("x"), Name("y")>>)>>)}
MCLets == {[type |-> t, pat |-> p] : t \in {F, Pair, Of("list", F), Of("list", Pair), Of("opt", Pair), Named("S", << >>),
                                           [k |-> "tuple", of |-> <<F, Pair>>], [k |-> "tuple", of |-> <<T("int")>>]}, p \in Apart}
=============================================================================
