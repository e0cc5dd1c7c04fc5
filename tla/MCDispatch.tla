----------------------------- MODULE MCDispatch -----------------------------
(***************************************************************************)
(* Small programs about one thing each: every order of some of a family's  *)
(* structs and blocks, after the family's traits.                          *)
(***************************************************************************)
EXTENDS Coherence

M(n, tier) == [n |-> n, self |-> TRUE, ret |-> Ty("void"), tier |-> tier, default |-> FALSE]
Static1(n) == [M(n, "low") EXCEPT !.self = FALSE]
Returning(n, ret) == [M(n, "") EXCEPT !.ret = ret]
Trait(id, params, bounds, supers, methods) ==
    [kind |-> "trait", id |-> id, of |-> "user", params |-> params, bounds |-> bounds, supers |-> supers, methods |-> methods]
Struct(id, bounds, derives, methods) == [kind |-> "struct", id |-> id, bounds |-> bounds, derives |-> derives, methods |-> methods]
ExtendBlock(id, target, bounds, methods) ==
    [kind |-> "extend", id |-> id, target |-> target, param |-> target.a = <<Param>>, bounds |-> bounds, methods |-> methods]
Impl(id, trait, targs, target, bounds, methods) ==
    [kind |-> "impl", trait |-> trait, targs |-> targs] @@ [ExtendBlock(id, target, bounds, methods) EXCEPT !.kind = "impl"]

Is(t) == Bound(t, << >>)
IntT == Ty("int")
LongT == Ty("long")
Dbl == Ty("double")
S == Ty("S")
R == Ty("R")
BoxOf(t) == App("Box", <<t>>)
ListOf(t) == App("List", <<t>>)
Pair(t, u) == App("tuple", <<t, u>>)
Unique(t) == App("Unique", <<t>>)

\* Every order of base and at most Longest of the others.
CONSTANT Longest
Orders(traits, base, more) ==
    UNION {{traits \o p : p \in SetToSeqs(base \cup extra)} : extra \in {e \in SUBSET more : Cardinality(e) <= Longest}}

Show == Trait("Show", << >>, << >>, << >>, <<M("show", "low")>>)
Also == Trait("Also", << >>, << >>, << >>, <<[M("show", "mid") EXCEPT !.default = TRUE]>>)
Loud == Trait("Loud", << >>, << >>, <<Is("Show")>>, <<[M("loud", "low") EXCEPT !.default = TRUE]>>)
Conv == Trait("Conv", <<"X">>, << >>, << >>, <<Returning("conv", Ty("X"))>>)
Wide == Trait("Wide", <<"Y">>, <<Is("Show")>>, <<Bound("Conv", <<Ty("Y")>>)>>, <<Returning("wide", Ty("Y"))>>)
SS == Struct("S", << >>, {}, << >>)
RS == Struct("R", << >>, {}, << >>)
BoxS == Struct("Box", << >>, {}, << >>)

\* Methods of one name, from the struct, two extend blocks and two traits, at different tiers.
OneName == Orders(<<Show, Also>>, {SS},
    {ExtendBlock("e1", S, << >>, <<M("show", "low")>>), ExtendBlock("e2", S, << >>, <<M("show", "mid")>>),
     ExtendBlock("e3", S, << >>, <<Static1("show")>>),
     Impl("i1", "Show", << >>, S, << >>, <<M("show", "")>>), Impl("i2", "Also", << >>, S, << >>, << >>)})

\* Blocks for a generic struct: with and without bounds, for one argument, with a supertrait.
Guards == Orders(<<Show, Loud, BoxS, SS, RS>>, {},
    {Impl("i1", "Show", << >>, S, << >>, <<M("show", "")>>),
     Impl("i2", "Show", << >>, BoxOf(Param), <<Is("Show")>>, <<M("show", "")>>),
     Impl("i3", "Show", << >>, BoxOf(S), << >>, <<M("show", "")>>),
     Impl("i4", "Loud", << >>, BoxOf(Param), <<Is("Loud")>>, << >>),
     Impl("i5", "Loud", << >>, BoxOf(Param), << >>, << >>),
     ExtendBlock("e1", BoxOf(Param), <<Is("Show")>>, <<M("show", "low")>>),
     ExtendBlock("e2", BoxOf(S), << >>, <<M("show", "low")>>)})

\* Built-in types, of which the run time only sees the kind.
Kinds == Orders(<<Show, Also, SS, RS>>, {},
    {ExtendBlock("e1", IntT, << >>, <<M("show", "low")>>), ExtendBlock("e2", LongT, << >>, <<M("show", "low"), M("to_string", "low")>>),
     ExtendBlock("e3", ListOf(Param), << >>, <<M("show", "low"), M("len", "low")>>), ExtendBlock("e4", ListOf(IntT), << >>, <<M("show", "low")>>),
     Impl("i1", "Show", << >>, IntT, << >>, <<M("show", "")>>), Impl("i2", "Also", << >>, LongT, << >>, << >>),
     Impl("i3", "Show", << >>, Pair(S, IntT), << >>, <<M("show", "")>>), Impl("i4", "Show", << >>, ListOf(Param), <<Is("Show")>>, <<M("show", "")>>)})

\* Operator traits, one impl for each right operand.
Operators == Orders(<<Show, SS, RS>>, {},
    {Impl("i1", "Add", <<S, S>>, S, << >>, <<Returning("add", S)>>), Impl("i2", "Add", <<IntT, R>>, S, << >>, <<Returning("add", R)>>),
     Impl("i3", "Add", <<S, S>>, IntT, << >>, <<Returning("add", S)>>), Impl("i4", "Neg", <<S>>, S, << >>, <<Returning("neg", S)>>),
     ExtendBlock("e1", S, << >>, <<M("add", "low")>>)})
BoxOperators == Orders(<<Show, BoxS, SS, RS>>, {},
    {Impl("i1", "Show", << >>, S, << >>, <<M("show", "")>>),
     Impl("i2", "Add", <<BoxOf(Param), BoxOf(Param)>>, BoxOf(Param), <<Is("Show")>>, <<Returning("add", BoxOf(Param))>>)})

\* The prelude: derived, by hand, natively, and each trait with what it builds on.
Preludes == UNION {Orders(<<Struct("S", << >>, derives, << >>), RS>>, {},
    {     Impl("i1", "PartialEq", << >>, S, << >>, <<Returning("eq", Ty("bool"))>>), Impl("i2", "Eq", << >>, S, << >>, << >>),
     Impl("i3", "Hash", << >>, S, << >>, <<M("hash", "")>>), Impl("i4", "Eq", << >>, Dbl, << >>, << >>),
     Impl("i5", "Hash", << >>, Dbl, << >>, <<M("hash", "")>>),
     Impl("i6", "PartialEq", << >>, Pair(S, IntT), << >>, <<Returning("eq", Ty("bool"))>>),
     Impl("i7", "Display", << >>, S, << >>, <<Returning("to_string", Ty("string"))>>),
     Impl("i8", "PartialOrd", << >>, S, << >>, <<Returning("partial_cmp", Ty("order"))>>)}) : derives \in {{}, {"PartialEq"}}}

\* Traits with arguments, bounds on them, and a supertrait that passes its own argument on.
Arguments == Orders(<<Show, Conv, Wide, SS, RS>>, {},
    {Impl("i1", "Conv", <<IntT>>, S, << >>, <<Returning("conv", IntT)>>), Impl("i2", "Conv", <<R>>, S, << >>, <<Returning("conv", R)>>),
     Impl("i3", "Wide", <<R>>, S, << >>, <<Returning("wide", R)>>), Impl("i4", "Wide", <<IntT>>, S, << >>, <<Returning("wide", IntT)>>),
     Impl("i5", "Show", << >>, R, << >>, <<M("show", "")>>), Impl("i6", "Iterator", <<R>>, S, << >>, <<Returning("next", R)>>),
     ExtendBlock("e1", S, << >>, <<M("conv", "low")>>)})

\* A trait that asks something of its argument, for an argument with a parameter.
Held == Trait("Held", <<"Y">>, <<Is("Show")>>, << >>, << >>)
Holding == Orders(<<Show, Held, BoxS, SS>>, {},
    {Impl("i1", "Show", << >>, BoxOf(Param), <<Is("Show")>>, <<M("show", "")>>), Impl("i2", "Show", << >>, S, << >>, <<M("show", "")>>),
     Impl("i3", "Held", <<BoxOf(Param)>>, BoxOf(Param), <<Is("Show")>>, << >>), Impl("i4", "Held", <<Param>>, BoxOf(Param), <<Is("Show")>>, << >>),
     Impl("i5", "Held", <<S>>, S, << >>, << >>)})

\* A struct that asks something of its argument, and what is written for it.
Asking == Orders(<< >>, {Struct("Box", <<Is("PartialEq")>>, {}, << >>), Struct("S", << >>, {"PartialEq"}, << >>)},
    {ExtendBlock("e1", BoxOf(S), << >>, <<M("show", "low")>>),
     ExtendBlock("e2", BoxOf(Param), <<Is("Eq")>>, <<M("show", "low")>>), ExtendBlock("e3", BoxOf(Param), << >>, <<M("show", "low")>>)})

\* A trait of the program's own under a name of the prelude's, and traits that cannot stand.
Shadowing == Orders(<<Trait("Display", << >>, << >>, << >>, <<M("draw", "low")>>), SS>>, {},
    {Impl("i1", "Display", << >>, IntT, << >>, <<M("draw", "")>>), Impl("i2", "Display", << >>, S, << >>, <<M("draw", "")>>),
     ExtendBlock("e1", S, << >>, <<M("draw", "low")>>), Impl("i3", "Hash", << >>, IntT, << >>, <<M("hash", "")>>)})
Impossible == {<<Trait("Show", << >>, << >>, <<Is("Also")>>, << >>), Trait("Also", << >>, << >>, <<Is("Show")>>, << >>)>>,
               <<Trait("Show", << >>, << >>, <<Is("S")>>, << >>), SS>>,
               <<Conv, Trait("Show", << >>, << >>, <<Is("Conv")>>, << >>)>>,
               <<Conv, Struct("Box", <<Bound("Conv", <<S>>), Bound("Conv", <<R>>)>>, {}, << >>), SS, RS>>}

MCPrograms == OneName \cup Guards \cup Kinds \cup Operators \cup BoxOperators \cup Preludes \cup Arguments \cup Asking \cup Holding \cup Shadowing \cup Impossible

(***************************************************************************)
(* The values a program's calls are tried on, and what they are asked for. *)
(***************************************************************************)
Own(its) == {i \in ToSet(its) : i.kind # "trait" \/ i.of = "user"}
Targets(its) == {i.target : i \in {x \in Own(its) : x.kind \in {"extend", "impl"}}}
Ground(its) ==
    LET heads == {t.h : t \in Targets(its)} \cup {i.id : i \in {x \in Own(its) : x.kind = "struct"}}
    IN (IF "S" \in heads THEN {S, Unique(S)} ELSE {}) \cup (IF "Box" \in heads THEN {S, R, BoxOf(S), BoxOf(R), BoxOf(BoxOf(S))} ELSE {})
       \cup (IF heads \cap {"int", "long"} # {} THEN {IntT, LongT} ELSE {}) \cup (IF "double" \in heads THEN {Dbl} ELSE {})
       \cup (IF "tuple" \in heads THEN {Pair(S, IntT), Pair(IntT, IntT)} ELSE {}) \cup (IF "List" \in heads THEN {ListOf(IntT), ListOf(R)} ELSE {})
Asked(its) == {t \in {i.id : i \in {x \in ToSet(its) : x.kind = "trait"}} :
                 \/ \E i \in Own(its) : i.kind = "trait" /\ i.id = t
                 \/ \E i \in Own(its) : i.kind = "impl" /\ i.trait = t
                 \/ \E i \in Own(its) : i.kind = "struct" /\ t \in i.derives}
TraitOf(its, t) == CHOOSE i \in ToSet(its) : i.kind = "trait" /\ i.id = t
Bounds(its, t) == IF TraitOf(its, t).params = << >> THEN {Is(t)}
                  ELSE {Bound(t, i.targs) : i \in {x \in Own(its) : x.kind = "impl" /\ x.trait = t /\ x.target.h # "Box"}}
Names(its) == UNION {{m.n : m \in ToSet(i.methods)} : i \in {x \in Own(its) : x.kind # "trait"} \cup {TraitOf(its, t) : t \in Asked(its)}}
MCProbes(its) == Ground(its) \X UNION {Bounds(its, t) : t \in Asked(its)}

Plain(form, v, n, tier) == [form |-> form, recv |-> v, n |-> n, tier |-> tier, trait |-> "", bounds |-> << >>, rhs |-> v]
MCCalls(its) ==
    LET values == Ground(its)
        rhs == IF "Add" \in Asked(its) THEN values \cap {IntT, S, R, BoxOf(S), BoxOf(R)} ELSE {IntT}
        bounds == UNION {Bounds(its, t) : t \in Asked(its)}
        lists == {<<b>> : b \in bounds} \cup {<<p[1], p[2]>> : p \in {q \in bounds \X bounds : q[1] # q[2] /\ rhs = {IntT}}}
    IN {Plain("direct", v, n, tier) : v \in values, n \in Names(its), tier \in {"low", "mid"}}
       \cup {Plain("static", v, n, "mid") : v \in {x \in values : IsUser(x)}, n \in Names(its)}
       \cup {[Plain("through", v, n, "mid") EXCEPT !.bounds = bs, !.rhs = w] : v \in values, n \in Names(its), bs \in lists, w \in rhs}
       \cup {[Plain("inside", v, n, "mid") EXCEPT !.bounds = <<b>>, !.trait = t, !.rhs = w] : v \in values, n \in Names(its), b \in bounds, t \in Asked(its), w \in rhs}
       \cup {[Plain("qualified", v, n, "mid") EXCEPT !.trait = t, !.rhs = w] : v \in values, n \in Names(its), t \in Asked(its), w \in rhs}
       \cup (IF "Add" \in Asked(its) THEN {[Plain("operator", v, "add", "mid") EXCEPT !.rhs = w] : v \in values, w \in rhs} ELSE {})
=============================================================================
