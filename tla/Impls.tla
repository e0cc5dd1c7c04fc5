------------------------------- MODULE Impls -------------------------------
(***************************************************************************)
(* How the type checker takes a program's traits, structs, extend blocks   *)
(* and impl blocks in: the passes over its items, in the file's order.     *)
(***************************************************************************)
EXTENDS Traits

Fail(s) == [s EXCEPT !.wrong = TRUE]

\* What is wrong with the bounds written on one parameter, or on a trait for its own.
BadBounds(s, bs) == \E i \in DOMAIN bs :
    \/ bs[i].t \notin DOMAIN s.traits
    \/ Len(bs[i].args) # Len(s.traits[bs[i].t].params)
    \/ \E j \in 1..(i - 1) : SameSlot(s, bs[i], bs[j]) /\ bs[i].args # bs[j].args

\* The traits t builds on, directly or through others.
RECURSIVE Above(_, _)
Above(s, ts) == LET more == ts \cup {b.t : b \in UNION {ToSet(s.traits[t].supers) : t \in ts}}
                IN IF more = ts THEN ts ELSE Above(s, more)
OwnSuper(s, t) == t \in Above(s, {b.t : b \in ToSet(s.traits[t].supers)})

(***************************************************************************)
(* The names of supertraits and bounds, then their arguments, for every    *)
(* declaration before any signature is collected.                          *)
(***************************************************************************)
DeclareNames(s) ==
    IF \/ \E t \in DOMAIN s.traits : \E b \in ToSet(s.traits[t].supers \o s.traits[t].bounds) : b.t \notin DOMAIN s.traits
       \/ \E t \in DOMAIN s.traits : OwnSuper(s, t)
       \/ \E d \in DOMAIN s.structs : \E b \in ToSet(s.structs[d].bounds) : b.t \notin DOMAIN s.traits
    THEN Fail(s) ELSE s

FillBounds(s) ==
    IF \/ \E t \in DOMAIN s.traits : BadBounds(s, s.traits[t].bounds)
       \/ \E t \in DOMAIN s.traits : \E b \in ToSet(Supers(s, t)) : Len(b.args) # Len(s.traits[b.t].params)
       \/ \E d \in DOMAIN s.structs : BadBounds(s, s.structs[d].bounds)
    THEN Fail(s) ELSE s

(***************************************************************************)
(* A block for a generic head, or with a parameter of its own, is read as  *)
(* a pattern: the head with its parameter, or with one concrete argument.  *)
(***************************************************************************)
IsImpl(i) == i.kind = "impl"
NeedsPattern(i) == i.param \/ i.target.h \in {"List", "opt"} \/ (i.target.a # << >> /\ IsUser(i.target)) \/ (i.target.h = "Box" /\ IsImpl(i))
GoodTarget(i) == /\ i.target.h \in Generic
                 /\ IF i.param THEN i.target.a = <<Param>>
                    ELSE IF i.target.a = << >> THEN i.target.h = "List" /\ ~IsImpl(i) ELSE Len(i.target.a) = 1

\* What a struct asks of its argument holds for every block written for it.
HeadBounds(s, i) == IF i.target.h \in DOMAIN s.structs THEN s.structs[i.target.h].bounds ELSE << >>
Pattern(s, i) ==
    [head |-> Def(i.target), builtin |-> i.target.h = "List",
     self |-> IF i.target.a = << >> THEN App(i.target.h, <<Param>>) ELSE i.target,
     scope |-> Closure(s, i.bounds, Param),
     guard |-> [concrete |-> IF i.param THEN << >> ELSE i.target.a, bounds |-> i.bounds]]

CollectBlock(s, i) ==
    IF ~NeedsPattern(i) THEN s
    ELSE IF ~GoodTarget(i) \/ BadBounds(s, i.bounds) THEN Fail(s)
    ELSE LET p == Pattern(s, i)
             filed == [s EXCEPT !.patterns = @ @@ (i.id :> p)]
         IN IF ~i.param THEN (IF p.guard.concrete = << >> THEN filed
                              ELSE RequireAll(filed, << >>, i.target.a[1], [j \in DOMAIN HeadBounds(s, i) |-> SubBound(HeadBounds(s, i)[j], HeadEnv(i.target.a))]))
            ELSE IF \E b \in ToSet(HeadBounds(s, i)) : ~InScope(p.scope, b.t) THEN Fail(s) ELSE filed

Entry(def, m, guard, by, body) == [def |-> def, n |-> m.n, self |-> m.self, ret |-> m.ret, tier |-> m.tier, guard |-> guard, by |-> by, body |-> body]

CollectStruct(s, i) == [s EXCEPT !.filed = @ \cup {i.id},
    !.methods = @ \o [j \in DOMAIN i.methods |-> Entry(Def(Ty(i.id)), i.methods[j], NoGuard, "", <<i.id, i.methods[j].n>>)]]

Collect(s, i) == CASE i.kind = "struct" -> CollectStruct(s, i)
                   [] i.kind = "trait" -> s
                   [] OTHER -> CollectBlock(s, i)

(***************************************************************************)
(* Inherent methods.  A generic head has one of a name, and so has a kind  *)
(* of built-in value: a call cannot tell its types apart.                  *)
(***************************************************************************)
Filed(s, def, n) == {k \in DOMAIN s.methods : s.methods[k].def = def /\ s.methods[k].n = n}
GuardOf(s, i) == IF i.id \in DOMAIN s.patterns THEN s.patterns[i.id].guard ELSE NoGuard

Taken(s, i, def, n) ==
    \/ (i.id \in DOMAIN s.patterns \/ def.h = "Box") /\ \E k \in Filed(s, def, n) : s.methods[k].by = ""
    \/ \E other \in {e[3] : e \in {x \in s.keyMethods : x[1] = Kind(def) /\ x[2] = n}} : other # def

ExtendBy(s, i, m) ==
    LET def == Def(i.target)
    IN IF Taken(s, i, def, m.n) THEN Fail(s)
       ELSE [s EXCEPT !.keyMethods = IF Kind(def) = "" THEN @ ELSE @ \cup {<<Kind(def), m.n, def>>},
                      !.methods = Append(@, Entry(def, m, GuardOf(s, i), "", <<i.id, m.n>>))]
Extend(s, i) == FoldLeft(LAMBDA x, m : ExtendBy(x, i, m), s, i.methods)

(***************************************************************************)
(* Impl blocks.  Each is checked against its trait, and puts the trait's   *)
(* methods (its own, or the trait's defaults) in the table of its type.    *)
(***************************************************************************)
ScopeOf(s, i) == IF i.id \in DOMAIN s.patterns THEN s.patterns[i.id].scope ELSE << >>
SelfOf(s, i) == IF i.id \in DOMAIN s.patterns THEN s.patterns[i.id].self ELSE i.target
Written(i, n) == {m \in ToSet(i.methods) : m.n = n}
TheOne(S) == CHOOSE x \in S : TRUE

\* An impl repeats each method of its trait exactly; a tier it does not write is the trait's.
BadMethods(s, i) ==
    LET trait == s.traits[i.trait]
        env == TraitEnv(trait, i.targs, SelfOf(s, i))
    IN \/ \E tm \in ToSet(trait.methods) :
            \/ Written(i, tm.n) = {} /\ ~tm.default
            \/ \E m \in Written(i, tm.n) : m.self # tm.self \/ m.ret # Sub(tm.ret, env) \/ m.tier \notin {"", tm.tier}
       \/ \E m \in ToSet(i.methods) : ~ \E tm \in ToSet(trait.methods) : tm.n = m.n

\* One impl of an operator trait for each kind of right operand.
OperatorSlot(i) == [left |-> LeftKey(i.target), rhs |-> IF Len(i.targs) = 2 THEN RhsKey(i.targs[1]) ELSE ""]
BadOperator(s, i) ==
    LET slot == OperatorSlot(i)
    IN \/ slot.left = << >>
       \/ slot.left[1] = "builtin" /\ ~(Len(i.targs) = 2 /\ IsUser(Peel(i.targs[1])))
       \/ Len(i.targs) = 2 /\ slot.rhs = ""
       \/ \E o \in ToSet(s.operators) : o.t = i.trait /\ o.left = slot.left /\ o.rhs = slot.rhs

\* (mutant) two impls of one trait clash only when they are written for the very same type.
OverlapsAsWritten(s, i) == <<i.trait, i.target>> \in DOMAIN s.impls

Overlaps(s, i) ==
    \/ <<i.trait, Def(i.target)>> \in DOMAIN s.impls
    \/ \E e \in s.keyImpls : e[1] = Kind(i.target) /\ e[2] = i.trait

\* What a built-in type has of the prelude natively cannot be written again, and its text is its own.
BadPrelude(s, i) ==
    \/ IsUser(i.target) /\ i.trait \in s.structs[i.target.h].derives
    \/ i.target.h = "List"
    \/ Kind(i.target) # "" /\ (PreludeNative(s, ScopeOf(s, i), i.trait, i.target) = "yes" \/ i.trait = "Display")
BadIterator(i) == Kind(i.target) # "" \/ i.targs[1].h = "opt"

Refused(s, i) ==
    \/ i.trait \notin DOMAIN s.traits
    \/ Len(i.targs) # Len(s.traits[i.trait].params)
    \/ IF IsA(s, i.trait, "operator") THEN BadOperator(s, i) ELSE Overlaps(s, i)
    \/ IsA(s, i.trait, "prelude") /\ BadPrelude(s, i)
    \/ IsA(s, i.trait, "iterator") /\ BadIterator(i)
    \/ BadMethods(s, i)

\* An inherent method of the name wins; a second trait with the name makes it ambiguous.
AddTraitMethod(s, e) ==
    LET seen == [s EXCEPT !.origins = @ \cup {<<e.def, e.n, e.by>>}]
    IN IF \E k \in Filed(s, e.def, e.n) : s.methods[k].by = "" THEN seen
       ELSE IF \E o \in s.origins : o[1] = e.def /\ o[2] = e.n THEN [seen EXCEPT !.ambiguous = @ \cup {<<e.def, e.n>>}]
       ELSE [seen EXCEPT !.methods = Append(@, e)]

TraitEntry(s, i, tm) ==
    Entry(Def(i.target), [tm EXCEPT !.ret = Sub(@, TraitEnv(s.traits[i.trait], i.targs, SelfOf(s, i)))], GuardOf(s, i), i.trait,
          <<IF Written(i, tm.n) # {} THEN i.id ELSE i.trait, tm.n>>)

\* What the trait asks of its own arguments.
OwnBounds(s, i) == LET trait == s.traits[i.trait]
                   IN [j \in DOMAIN trait.bounds |-> SubBound(trait.bounds[j], TraitEnv(trait, i.targs, SelfOf(s, i)))]

Register(s, i) ==
    LET operator == IsA(s, i.trait, "operator")
        first == ~operator \/ ~ \E o \in ToSet(s.operators) : o.t = i.trait /\ o.left = OperatorSlot(i).left
        impl == [args |-> i.targs, guard |-> GuardOf(s, i), block |-> i.id, own |-> {m.n : m \in ToSet(i.methods)}]
        filed == [s EXCEPT !.operators = IF operator THEN Append(@, [t |-> i.trait, args |-> i.targs, block |-> i.id] @@ OperatorSlot(i)) ELSE @,
                           !.keyImpls = IF operator \/ Kind(i.target) = "" THEN @ ELSE @ \cup {<<Kind(i.target), i.trait, Def(i.target)>>},
                           !.impls = IF first THEN @ @@ (<<i.trait, Def(i.target)>> :> impl) ELSE @]
        asked == IF s.traits[i.trait].bounds = << >> THEN filed ELSE RequireAll(filed, ScopeOf(s, i), i.targs[1], OwnBounds(s, i))
    IN IF ~first THEN asked ELSE FoldLeft(LAMBDA x, tm : AddTraitMethod(x, TraitEntry(s, i, tm)), asked, s.traits[i.trait].methods)

Implement(s, i) == IF Refused(s, i) THEN Fail(s) ELSE Register(s, i)

(***************************************************************************)
(* With every impl known: an impl needs what its trait builds on, read in  *)
(* the scope of its own block, and what signatures left open is settled.   *)
(***************************************************************************)
Missing(s, t, def) ==
    LET impl == s.impls[<<t, def>>]
        pattern == impl.block \in DOMAIN s.patterns
        self == IF pattern THEN s.patterns[impl.block].self ELSE def
        needs == Tail(Closure(s, <<Bound(t, impl.args)>>, self))
    IN \E b \in ToSet(needs) : BoundStatus(s, IF pattern THEN s.patterns[impl.block].scope ELSE << >>, self, b) # "yes"

CheckSupers(s) == IF \E k \in DOMAIN s.impls : Missing(s, k[1], k[2]) THEN Fail(s) ELSE s
Settle(s) == IF \E o \in s.pending : BoundStatus(s, << >>, o.ty, o.b) = "no" THEN Fail(s) ELSE [s EXCEPT !.pending = {}]
=============================================================================
