------------------------------ MODULE MCNative ------------------------------
(***************************************************************************)
(* Small functions: every expression in every place it may stand, loops    *)
(* and arenas left in every way, values handed out of an arena in every    *)
(* way.                                                                    *)
(***************************************************************************)
EXTENDS Native

F == Call(<<>>)
Say(n) == Do(Call(<<Lit(n)>>))
X == Name("x")
Pv == Field(Name("p"))

\* Expressions of type int, around the variable x and the field of p.
Leaves == {Lit(0), X, Pv, F}
Operators == {Op(k, l, r) : k \in {"add", "div", "and", "or"}, l \in {X, F}, r \in Leaves}
             \cup {Op(k, Op(j, F, X), F) : k, j \in {"add", "div", "and", "or"}}
Branches == {Plain(Lit(2)), Plain(F), Block(<<Do(AddTo("x", Lit(1))), Do(X)>>), Block(<<Let("x", Lit(3)), Do(X)>>)}
IfValues == {IfOf(<<Arm(F, a)>>, <<b>>) : a, b \in Branches \cup {Block(<<>>)}}
            \cup {IfOf(<<Arm(F, a), Arm(F, b)>>, <<Plain(Pv)>>) : a, b \in Branches}
            \cup {IfOf(<<Arm(F, Plain(X))>>, <<>>)}
Patterns == {Exactly(0), Exactly(1), Binding("x"), Wildcard}
MatchValues == {MatchOf(of, F, <<Case(p, a), Case(q, b)>>) : of \in {"enum", "str"}, p, q \in Patterns,
                    a \in {Plain(X), Block(<<Do(AddTo("x", Lit(1))), Do(X)>>)}, b \in {Plain(F), Block(<<Say(1), Return(Lit(3))>>)}}
Ints == Leaves \cup Operators \cup IfValues \cup MatchValues

\* The places for an expression, in a function of type int.
Uses(e) == { <<Let("y", e), Return(Op("add", Name("y"), X))>>, <<Do(AddTo("x", e)), Return(X)>>,
             <<Do(FieldAdd(Name("p"), e)), Return(e)>>, <<Do(Call(<<e, X>>)), Do(e)>> }
Values == {<<Let("x", F)>> \o u : u \in UNION {Uses(e) : e \in Ints}}
\* Statements, in a function of type int: the last need not have a value.
Ends_ == {Return(X), Do(X), Do(SetTo("x", F)), Do(Name("p")), If(<<Arm(F, Block(<<Return(X)>>))>>, <<Block(<<Do(X)>>)>>),
          Match("enum", F, <<Case(Exactly(0), Block(<<Return(X)>>)), Case(Exactly(1), Block(<<Return(F)>>))>>),
          Do(MatchOf("enum", F, <<Case(Exactly(0), Plain(X)), Case(Exactly(1), Plain(F))>>)), Loop(<<Return(F)>>)}
Middles == {Let("x", Op("add", X, Lit(1))), If(<<Arm(F, Plain(SetTo("x", Lit(0))))>>, <<>>),
            If(<<Arm(F, Block(<<Let("x", Lit(2)), Do(AddTo("x", Lit(1)))>>)), Arm(F, Block(<<Return(Lit(2))>>))>>, <<Plain(F)>>),
            Match("str", F, <<Case(Exactly(0), Plain(SetTo("x", Lit(1)))), Case(Exactly(0), Plain(F))>>),
            Do(FieldTo(Name("p"), IfOf(<<Arm(F, Block(<<Do(SetTo("p", New("N", X))), Do(X)>>))>>, <<Plain(Lit(1))>>)))}
Statements == {<<Let("x", Lit(1)), If(<<Arm(F, Plain(Declare("y", F)))>>, <<>>), Return(Name("y"))>>,
               <<Let("x", Lit(3)), Let("y", Op("add", X, F)), Return(Name("y"))>>}
              \cup {<<Let("x", F), s, e>> : s \in Middles, e \in Ends_}

\* Loops left in every way, inside and around an arena, in a function without a
\* result.
Q == Name("q")
Jumps == {Break, Continue, ReturnVoid}
Leaving == {If(<<Arm(F, Block(<<j>>))>>, <<>>) : j \in Jumps}
           \cup {Match("enum", F, <<Case(Exactly(0), Block(<<j>>)), Case(Wildcard, Plain(F))>>) : j \in Jumps}
LoopOf(b) == {While(F, b), Loop(b), For("i", Lit(0), Lit(1), TRUE, b), For("i", F, Lit(2), FALSE, b)}
Arena(b) == With(<<Let("q", New("N", Lit(2)))>> \o b)
Rounds_ == {<<l>> : l \in Leaving} \cup {<<Arena(<<l>>), Say(2)>> : l \in Leaving \cup {Break, ReturnVoid}}
           \cup {<<l, Arena(<<Do(Call(<<Field(Q)>>))>>)>> : l \in Leaving}
           \cup {<<Arena(<<With(<<Let("b", New("B", Q)), l, Do(Call(<<Field(Field(Name("b")))>>))>>)>>)>> : l \in Leaving}
Loopings == UNION { UNION {{<<l, Say(1)>>, <<Arena(<<l>>)>>, <<Arena(<<l, Do(Call(<<Field(Q)>>))>>)>>} : l \in LoopOf(b)} : b \in Rounds_ }
            \cup {<<While(F, <<l, Let("y", F)>>)>> : l \in LoopOf(<<If(<<Arm(F, Block(<<Continue>>))>>, <<>>)>>)}
            \cup {<<For("i", Lit(0), Lit(1), TRUE, <<If(<<Arm(Op("add", Name("i"), Lit(1)), Block(<<Continue>>))>>, <<>>)>>)>>}
            \cup {<<For("i", F, Lit(1), TRUE, <<Let("i", F), Do(Call(<<Name("i")>>))>>)>>}
            \cup {<<For("i", Lit(2), Lit(3), incl, <<Do(Call(<<Name("i")>>))>>)>> : incl \in BOOLEAN}

\* Values taken out of an arena, and used after it.
O == Name("o")
Given(v) == {v, IfOf(<<Arm(F, Plain(v))>>, <<Plain(O)>>), IfOf(<<Arm(F, Plain(O)), Arm(F, Plain(v))>>, <<Plain(O)>>),
             MatchOf("enum", F, <<Case(Exactly(0), Plain(v)), Case(Wildcard, Plain(O))>>)}
Handed == Given(Q) \cup {O, Field(Name("b")), Field(New("B", O)), Field(New("B", Q))}
Fill == {<<>>, <<Do(FieldTo(Name("b"), Q))>>}
Escapes_ ==
    {<<Let("o", Name("p")), With(<<Let("q", New("N", Lit(2))), Let("b", New("B", O))>> \o f \o <<w>>), Do(Call(<<Field(O)>>)), Return(O)>> :
         f \in Fill, w \in {Do(SetTo("o", e)) : e \in Handed} \cup {Return(e) : e \in Handed}}
    \cup {<<Let("o", Name("p")), With(<<Let("b", New("B", O)), With(<<Let("q", New("N", Lit(3)))>> \o f \o <<Do(SetTo("o", e))>>),
                 Do(Call(<<Field(Field(Name("b")))>>)), Return(O)>>)>> : f \in Fill, e \in Handed}
    \cup {<<With(<<Let("o", New("N", Lit(1))), With(<<Let("q", New("N", Lit(3))), Do(SetTo("o", e))>>), Do(Call(<<Field(O)>>)), Return(Name("p"))>>)>> :
              e \in {O, Q}}

MCBodies ==
    {Function("high", "int", b) : b \in Values \cup Statements}
    \cup {Function("mid", "void", b) : b \in Loopings}
    \cup {Function("mid", "N", b) : b \in Escapes_}
    \cup {Function("high", "N", <<Let("o", New("B", New("N", F))), Return(Field(O))>>)}
    \cup {Function("high", "void", <<Let("b", New("B", Name("p"))), Do(FieldTo(Field(Name("b")), F)), Do(Call(<<Pv>>))>>)}

MCPrograms == {Program(f) : f \in MCBodies}
=============================================================================
