------------------------------- MODULE Traits -------------------------------
(***************************************************************************)
(* Traits as the type checker reads them: which types implement which      *)
(* traits, and which method a name stands for on each type.                *)
(*                                                                         *)
(* A type is a head with its arguments.  "T" is the one parameter a block  *)
(* or a struct declares, "Self" the type a trait is implemented for, and a *)
(* trait's own parameters are heads of their own.  A bound is a trait with *)
(* arguments.  A struct, an extend block, a trait and an impl block are    *)
(* the items of a program; sema keeps what it learns of them in one        *)
(* record.  An item that is refused refuses the program: what is still     *)
(* recorded after the first error, so that later messages read well, is    *)
(* left out.                                                               *)
(***************************************************************************)
EXTENDS Naturals, Sequences, SequencesExt, FiniteSets, TLC

Ty(h) == [h |-> h, a |-> << >>]
App(h, ts) == [h |-> h, a |-> ts]
Param == Ty("T")
Bound(t, args) == [t |-> t, args |-> args]

Structs == {"S", "R", "Box"}
Generic == {"Box", "List"}
Arity(h) == IF h \in Generic THEN 1 ELSE 0

RECURSIVE Peel(_), Sub(_, _)

\* A bound is about the value, not about who owns it.
Peel(t) == IF t.h = "Unique" THEN Peel(t.a[1]) ELSE t

\* t with each parameter env names replaced.
Sub(t, env) == IF t.h \in DOMAIN env THEN env[t.h] ELSE [t EXCEPT !.a = [i \in DOMAIN t.a |-> Sub(t.a[i], env)]]
SubAll(ts, env) == [i \in DOMAIN ts |-> Sub(ts[i], env)]
SubBound(b, env) == Bound(b.t, SubAll(b.args, env))
HeadEnv(ts) == IF ts = << >> THEN << >> ELSE ("T" :> ts[1])
TraitEnv(trait, args, self) ==
    [p \in ToSet(trait.params) \cup {"Self"} |-> IF p = "Self" THEN self ELSE args[CHOOSE i \in DOMAIN args : trait.params[i] = p]]

\* The kind of value a built-in type is at run time: int and long are one, tuples of a length are one.
Kind(t) == CASE t.h \in {"int", "long"} -> "int"
             [] t.h \in {"double", "string", "List"} -> t.h
             [] t.h = "tuple" -> "tuple2"
             [] OTHER -> ""
IsScalar(kind) == kind \in {"int", "double", "string"}
IsUser(t) == t.h \in Structs

\* What methods and impls are filed under: a generic head whatever its arguments, any other type itself.
Def(t) == IF t.h \in Generic THEN Ty(t.h) ELSE t

(***************************************************************************)
(* The prelude's traits stand in front of every program.  A program that   *)
(* declares one of the names itself loses that one and what builds on it.  *)
(***************************************************************************)
Sig(n, ret) == [n |-> n, self |-> TRUE, ret |-> ret, tier |-> "low", default |-> FALSE]
Default(n, ret) == [Sig(n, ret) EXCEPT !.default = TRUE]
PreludeTrait(name, of, params, supers, methods) ==
    [kind |-> "trait", id |-> name, of |-> of, params |-> params, bounds |-> << >>,
     supers |-> [i \in DOMAIN supers |-> Bound(supers[i], << >>)], methods |-> methods]

Prelude == <<
    PreludeTrait("PartialEq", "prelude", << >>, << >>, <<Sig("eq", Ty("bool")), Default("ne", Ty("bool"))>>),
    PreludeTrait("Eq", "prelude", << >>, <<"PartialEq">>, << >>),
    PreludeTrait("PartialOrd", "prelude", << >>, <<"PartialEq">>, <<Sig("partial_cmp", Ty("order")), Default("lt", Ty("bool"))>>),
    PreludeTrait("Ord", "prelude", << >>, <<"PartialOrd", "Eq">>, <<Sig("cmp", Ty("order"))>>),
    PreludeTrait("Display", "prelude", << >>, << >>, <<Sig("to_string", Ty("string"))>>),
    PreludeTrait("Iterator", "iterator", <<"X">>, << >>, <<Sig("next", Ty("X"))>>),
    PreludeTrait("Add", "operator", <<"Rhs", "Out">>, << >>, <<Sig("add", Ty("Out"))>>),
    PreludeTrait("Neg", "operator", <<"Out">>, << >>, <<Sig("neg", Ty("Out"))>>),
    PreludeTrait("Hash", "prelude", << >>, <<"Eq">>, <<Sig("hash", Ty("void"))>>) >>

RECURSIVE Lost(_, _)
Lost(names, from) == IF from = << >> THEN names
    ELSE Lost(names \cup {x \in {Head(from).id} : \E i \in DOMAIN Head(from).supers : Head(from).supers[i].t \in names}, Tail(from))
Inject(items) == LET lost == Lost({items[i].id : i \in DOMAIN items}, Prelude)
                 IN SelectSeq(Prelude, LAMBDA t : t.id \notin lost) \o items

(***************************************************************************)
(* What sema knows.  methods is the table of each type in order, each      *)
(* entry with the trait that put it there ("" for an inherent method) and  *)
(* the block its body is in; operators are the impls of operator traits,   *)
(* one per kind of right operand; pending are the requirements that wait   *)
(* for every impl to be known.                                             *)
(***************************************************************************)
NoMap == [x \in {} |-> x]
Named(items, kind) == {i \in ToSet(items) : i.kind = kind}
Empty(items) == [
    traits |-> [t \in {i.id : i \in Named(items, "trait")} |-> CHOOSE i \in Named(items, "trait") : i.id = t],
    structs |-> [t \in {i.id : i \in Named(items, "struct")} |-> CHOOSE i \in Named(items, "struct") : i.id = t],
    filed |-> {}, methods |-> << >>, origins |-> {}, ambiguous |-> {}, impls |-> NoMap,
    keyMethods |-> {}, keyImpls |-> {}, operators |-> << >>, patterns |-> NoMap,
    pending |-> {}, registered |-> FALSE, wrong |-> FALSE]

NoGuard == [concrete |-> << >>, bounds |-> << >>]
IsA(s, t, of) == t \in DOMAIN s.traits /\ s.traits[t].of = of

\* One bound per trait, except that an operator trait is one per right operand.
SameSlot(s, b, c) == b.t = c.t /\ (IsA(s, b.t, "operator") => b.args[1] = c.args[1])

\* A supertrait named twice counts once, as first written.
Supers(s, t) == LET all == s.traits[t].supers
                IN SelectSeq(all, LAMBDA b : b = all[CHOOSE i \in DOMAIN all : all[i].t = b.t /\ \A j \in 1..(i - 1) : all[j].t # b.t])

RECURSIVE Widen(_, _, _, _)
Widen(s, out, queue, self) ==
    IF queue = << >> THEN out
    ELSE LET b == Head(queue)
             supers == Supers(s, b.t)
         IN IF \E i \in DOMAIN out : SameSlot(s, out[i], b) THEN Widen(s, out, Tail(queue), self)
            ELSE Widen(s, Append(out, b), Tail(queue) \o [i \in DOMAIN supers |-> SubBound(supers[i], TraitEnv(s.traits[b.t], b.args, self))], self)

\* bounds and every trait they build on, level by level.
Closure(s, bounds, self) == Widen(s, << >>, bounds, self)

(***************************************************************************)
(* Whether a type implements a trait: "yes", "no", or "later" while an     *)
(* impl that is not yet registered may still say so.  scope is what the    *)
(* parameter T is known to implement where the question is asked.          *)
(***************************************************************************)
Answer(b) == IF b THEN "yes" ELSE "no"
Unless(s) == IF s.registered THEN "no" ELSE "later"
All(answers) == IF "no" \in answers THEN "no" ELSE IF "later" \in answers THEN "later" ELSE "yes"
InScope(scope, t) == \E i \in DOMAIN scope : scope[i].t = t

NativeOperator(t, v) == CASE t = "Add" -> v.h \in {"int", "long", "double", "string"}
                          [] t = "Neg" -> v.h \in {"int", "long", "double"}
                          [] OTHER -> FALSE
LeftKey(v) == CASE IsUser(v) -> <<"user", v.h>>
                [] IsScalar(Kind(v)) -> <<"builtin", Kind(v)>>
                [] OTHER -> << >>
RhsKey(t) == IF IsUser(Peel(t)) THEN Peel(t).h ELSE Kind(Peel(t))

\* The arguments of each impl or bound that could answer operator trait t on v, native arithmetic first.
Candidates(s, scope, t, v) ==
    LET own == SelectSeq(s.operators, LAMBDA o : o.t = t /\ o.left = LeftKey(v))
        native == IF NativeOperator(t, v) THEN <<[i \in DOMAIN s.traits[t].params |-> v]>> ELSE << >>
        bounds == SelectSeq(scope, LAMBDA b : b.t = t)
    IN IF v.h = "T" THEN [i \in DOMAIN bounds |-> bounds[i].args]
       ELSE native \o [i \in DOMAIN own |-> SubAll(own[i].args, HeadEnv(v.a))]

RECURSIVE Status(_, _, _, _), PreludeStatus(_, _, _, _), PreludeNative(_, _, _, _), ImplStatus(_, _, _, _), BoundStatus(_, _, _, _), GuardStatus(_, _, _, _)

\* (mutant) what a block asks of its argument is not asked of the type at hand.
GuardByHead(s, scope, g, args) == Answer(g.concrete = << >> \/ args = g.concrete)

GuardStatus(s, scope, g, args) ==
    IF g.concrete # << >> /\ args # g.concrete THEN "no"
    ELSE All({BoundStatus(s, scope, args[1], SubBound(g.bounds[i], HeadEnv(args))) : i \in DOMAIN g.bounds})

ImplStatus(s, scope, t, v) == GuardStatus(s, scope, s.impls[<<t, Def(v)>>].guard, v.a)

\* What a value of the type has of a prelude trait without any impl, and a struct by deriving or by an impl.
PreludeNative(s, scope, t, v) ==
    LET eqLike == t \in {"PartialEq", "Eq", "Hash"}
    IN CASE v.h \in {"int", "long", "string"} -> "yes"
         [] v.h = "double" -> Answer(t \in {"PartialEq", "PartialOrd", "Display"})
         [] v.h = "tuple" -> IF eqLike THEN All({PreludeStatus(s, scope, t, Peel(v.a[i])) : i \in DOMAIN v.a}) ELSE "no"
         [] v.h = "T" -> Answer(InScope(scope, t))
         [] IsUser(v) -> LET derived == v.h \in s.filed /\ t \in s.structs[v.h].derives
                             written == IF <<t, Def(v)>> \in DOMAIN s.impls THEN ImplStatus(s, scope, t, v) ELSE "no"
                         IN IF derived \/ written = "yes" THEN "yes" ELSE IF written = "later" THEN "later" ELSE Unless(s)
         [] OTHER -> "no"

PreludeStatus(s, scope, t, v) ==
    LET native == PreludeNative(s, scope, t, v)
    IN IF native # "no" \/ Kind(v) = "" THEN native
       ELSE IF <<t, Def(v)>> \in DOMAIN s.impls THEN "yes" ELSE Unless(s)

Status(s, scope, ty, t) ==
    LET v == Peel(ty)
    IN CASE IsA(s, t, "prelude") -> PreludeStatus(s, scope, t, v)
         [] IsA(s, t, "operator") /\ NativeOperator(t, v) -> "yes"
         [] v.h = "T" -> Answer(InScope(scope, t))
         [] OTHER -> IF <<t, Def(v)>> \in DOMAIN s.impls THEN ImplStatus(s, scope, t, v) ELSE Unless(s)

\* The arguments v has for trait t, of which it has one impl or bound.
ArgsOf(s, scope, v, t) == IF v.h = "T" THEN scope[CHOOSE i \in DOMAIN scope : scope[i].t = t /\ \A j \in 1..(i - 1) : scope[j].t # t].args
                          ELSE SubAll(s.impls[<<t, Def(v)>>].args, HeadEnv(v.a))

\* Status, and the trait's arguments are the ones asked for.
BoundStatus(s, scope, ty, b) ==
    LET v == Peel(ty)
        has == Status(s, scope, ty, b.t)
        cands == Candidates(s, scope, b.t, v)
    IN IF has # "yes" \/ b.args = << >> THEN has
       ELSE IF IsA(s, b.t, "operator") THEN Answer(cands = << >> \/ b.args \in ToSet(cands))
       ELSE Answer(ArgsOf(s, scope, v, b.t) = b.args)

\* ty must meet b.  What can be told is told at once, in the scope it was written in; the rest waits.
Require(s, scope, ty, b) ==
    LET has == BoundStatus(s, scope, ty, b)
    IN CASE has = "yes" -> s
         [] has = "no" -> [s EXCEPT !.wrong = TRUE]
         [] OTHER -> [s EXCEPT !.pending = @ \cup {[ty |-> ty, b |-> b]}]
RECURSIVE RequireAll(_, _, _, _)
RequireAll(s, scope, ty, bs) == IF bs = << >> THEN s ELSE RequireAll(Require(s, scope, ty, Head(bs)), scope, ty, Tail(bs))
=============================================================================
