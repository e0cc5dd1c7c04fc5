------------------------------ MODULE Dispatch ------------------------------
(***************************************************************************)
(* Calls: which body the type checker takes a call to mean, and which one  *)
(* the interpreter runs.  The checker knows types, and files methods under *)
(* the type a block is written for; the interpreter has values only, and   *)
(* files them under a kind of value, generics erased.  A program is        *)
(* checked pass by pass, loaded item by item into the interpreter's        *)
(* tables, and then any call is checked and, if it is accepted, run.       *)
(***************************************************************************)
EXTENDS Impls

CONSTANTS
  Programs,     \* sequences of items, without the prelude
  Calls(_),     \* the calls tried in a program
  Probes(_)     \* the types and bounds asked about in a program

VARIABLES items, pass, sema, tables, call, checked, outcome
vars == <<items, pass, sema, tables, call, checked, outcome>>

(***************************************************************************)
(* What a call is checked to mean: refused, or the body it stands for and  *)
(* whether a receiver is passed.  site is the trait the call is recorded   *)
(* under when it was resolved through one.                                 *)
(***************************************************************************)
Body(at) == [ok |-> TRUE, at |-> at, receiver |-> TRUE, site |-> ""]
Native(n) == Body(<<"native", n>>)
No == [ok |-> FALSE, at |-> << >>, receiver |-> FALSE, site |-> ""]

TierCallForbidden(caller, callee) == <<caller, callee>> \in {<<"mid", "high">>, <<"low", "high">>, <<"low", "mid">>}

MethodOf(s, t, n) == {m \in ToSet(s.traits[t].methods) : m.n = n /\ m.self}
Meets(s, scope, v, bs, env) == \A b \in ToSet(bs) : BoundStatus(s, scope, v, SubBound(b, env)) # "no"

\* A struct written with an argument asks of it what it declares.
RECURSIVE WellFormed(_, _, _)
WellFormed(s, scope, v) ==
    /\ \A i \in DOMAIN v.a : WellFormed(s, scope, v.a[i])
    /\ v.h \in DOMAIN s.structs /\ v.a # << >> => Meets(s, scope, v.a[1], s.structs[v.h].bounds, HeadEnv(v.a))

\* The body trait t's method n has on v: an impl's own or the trait's default, or what the run time does by itself.
Supplied(s, v, b, n) ==
    LET own == SelectSeq(s.operators, LAMBDA o : o.t = b.t /\ o.left = LeftKey(v) /\ SubAll(o.args, HeadEnv(v.a)) = b.args)
    IN IF IsA(s, b.t, "operator") THEN (IF own = << >> THEN Native(n) ELSE Body(<<own[1].block, n>>))
       ELSE IF <<b.t, Def(v)>> \in DOMAIN s.impls THEN LET impl == s.impls[<<b.t, Def(v)>>] IN Body(<<IF n \in impl.own THEN impl.block ELSE b.t, n>>)
       ELSE Native(n)

\* A binary operator's method takes a right operand of the type b names.
Takes(s, b, c) == IsA(s, b.t, "operator") /\ Len(b.args) = 2 => Peel(c.rhs) = b.args[1]

\* A method of the first entry of that name that takes a receiver, if its block is written for these arguments.
Instance(s, v, n) == {k \in Filed(s, Def(v), n) : s.methods[k].self}
First(ks) == CHOOSE k \in ks : \A j \in ks : k <= j

\* (mutant) a block for one argument serves them all.
AnyArgument(e, v) == FALSE

WrongArgument(e, v) == e.guard.concrete # << >> /\ v.a # e.guard.concrete
CallEntry(s, e, v, tier) ==
    IF TierCallForbidden(tier, e.tier) \/ ~Meets(s, << >>, IF v.a = << >> THEN v ELSE v.a[1], e.guard.bounds, HeadEnv(v.a)) THEN No ELSE Body(e.at)

\* A prelude method on a value whose type has the trait and no method of that name.
PreludeOf(s, n) == {t \in DOMAIN s.traits : IsA(s, t, "prelude") /\ MethodOf(s, t, n) # {}}
TryPrelude(s, v, n, tier) ==
    LET t == TheOne(PreludeOf(s, n))
    IN IF PreludeOf(s, n) = {} \/ (IsUser(v) /\ Filed(s, Def(v), n) # {}) THEN No
       ELSE IF PreludeStatus(s, << >>, t, v) # "yes" THEN No
       ELSE [Supplied(s, v, Bound(t, << >>), n) EXCEPT !.site = t]

\* v.n(): a built-in's own methods, then the blocks', then the prelude's.
Direct(s, c) ==
    LET v == Peel(c.recv)
        entries == Instance(s, v, c.n)
        e == s.methods[First(entries)]
        entry == [tier |-> e.tier, guard |-> e.guard, at |-> e.body]
        prelude == TryPrelude(s, v, c.n, c.tier)
    IN CASE v.h \in {"List", "string", "tuple"} /\ c.n = "len" -> Native("len")
         [] IsUser(v) /\ prelude.ok -> prelude
         [] <<Def(v), c.n>> \in s.ambiguous -> No
         [] entries # {} /\ ~WrongArgument(entry, v) -> CallEntry(s, entry, v, c.tier)
         [] OTHER -> IF IsUser(v) THEN No ELSE prelude

\* fn f<T: bounds>(x: T) { x.n() } called with a value of the type: one bound has to supply the name.
Through(s, c) ==
    LET scope == Closure(s, c.bounds, Param)
        found == SelectSeq(scope, LAMBDA b : MethodOf(s, b.t, c.n) # {})
        b == SubBound(found[1], "T" :> c.recv)
    IN IF BadBounds(s, c.bounds) THEN No
       ELSE IF Len(found) # 1 THEN No
       ELSE IF TierCallForbidden(c.tier, TheOne(MethodOf(s, found[1].t, c.n)).tier) THEN No
       ELSE IF ~Meets(s, << >>, c.recv, c.bounds, "T" :> c.recv) \/ ~Takes(s, b, c) THEN No
       ELSE [Supplied(s, Peel(c.recv), b, c.n) EXCEPT !.site = b.t]

\* fn f<T: bounds>(x: T) { Trait.n(x) }, and Trait.n(v): the trait is named, so only it is asked.
Inside(s, c) ==
    LET scope == Closure(s, c.bounds, Param)
        b == SubBound(scope[CHOOSE i \in DOMAIN scope : scope[i].t = c.trait /\ \A j \in 1..(i - 1) : scope[j].t # c.trait], "T" :> c.recv)
    IN IF BadBounds(s, c.bounds) \/ c.trait \notin DOMAIN s.traits THEN No
       ELSE IF ~InScope(scope, c.trait) \/ MethodOf(s, c.trait, c.n) = {} THEN No
       ELSE IF TierCallForbidden(c.tier, TheOne(MethodOf(s, c.trait, c.n)).tier) THEN No
       ELSE IF ~Meets(s, << >>, c.recv, c.bounds, "T" :> c.recv) \/ ~Takes(s, b, c) THEN No
       ELSE Supplied(s, Peel(c.recv), b, c.n)

\* Wrappers are not looked through here, except for the prelude's traits.
TypeImplements(s, v, t) ==
    IF IsA(s, t, "prelude") THEN PreludeStatus(s, << >>, t, Peel(v)) # "no"
    ELSE <<t, Def(v)>> \in DOMAIN s.impls /\ ImplStatus(s, << >>, t, v) # "no"
Qualified(s, c) ==
    IF c.trait \notin DOMAIN s.traits THEN No
    ELSE IF MethodOf(s, c.trait, c.n) = {} \/ ~TypeImplements(s, c.recv, c.trait) THEN No
    ELSE IF TierCallForbidden(c.tier, TheOne(MethodOf(s, c.trait, c.n)).tier) THEN No
    ELSE LET v == Peel(c.recv)
             b == Bound(c.trait, IF IsA(s, c.trait, "operator") THEN ArgsOf(s, << >>, v, c.trait) ELSE << >>)
         IN IF Takes(s, b, c) THEN Supplied(s, v, b, c.n) ELSE No

\* S.n(): a function of the type; without one the name is read as a value of the type.
Static(s, c) ==
    LET found == {k \in Filed(s, Def(c.recv), c.n) : ~s.methods[k].self}
        e == s.methods[First(found)]
    IN IF found = {} THEN Direct(s, [c EXCEPT !.recv = IF Arity(@.h) = 1 THEN App(@.h, <<Param>>) ELSE @])
       ELSE IF TierCallForbidden(c.tier, e.tier) THEN No ELSE [Body(e.body) EXCEPT !.receiver = FALSE]

\* v + w, which goes through Add when one side is a struct.
Operator(s, c) ==
    LET v == Peel(c.recv)
        w == Peel(c.rhs)
        chosen == SelectSeq(Candidates(s, << >>, "Add", v), LAMBDA a : a[1] = w)
    IN IF ~IsUser(v) /\ ~(IsUser(w) /\ LeftKey(v) # << >>) THEN (IF v = w /\ NativeOperator("Add", v) THEN Native("add") ELSE No)
       ELSE IF chosen = << >> THEN No ELSE Supplied(s, v, Bound("Add", chosen[1]), "add")

Check(s, c) ==
    IF ~WellFormed(s, << >>, c.recv) THEN No
    ELSE CASE c.form = "direct" -> Direct(s, c)
           [] c.form = "through" -> Through(s, c)
           [] c.form = "inside" -> Inside(s, c)
           [] c.form = "qualified" -> Qualified(s, c)
           [] c.form = "static" -> Static(s, c)
           [] c.form = "operator" -> Operator(s, c)

(***************************************************************************)
(* The interpreter's tables.  flat holds one function per kind and name:   *)
(* an inherent method overwrites, a trait's only fills a gap.  perTrait    *)
(* also keeps every trait's, and ops the operator impls by both kinds.     *)
(***************************************************************************)
NoTables == [flat |-> NoMap, perTrait |-> NoMap, ops |-> NoMap]
TargetKey(t) == IF Kind(t) # "" THEN Kind(t) ELSE t.h
Put(f, k, x) == (k :> x) @@ f

\* (mutant) the last method of a name is kept, whoever it comes from.
Overwrite(f, k, x) == (k :> x) @@ f

OrInsert(f, k, x) == f @@ (k :> x)

LoadInherent(tb, i, key) == FoldLeft(LAMBDA x, m : [x EXCEPT !.flat = Put(@, <<key, m.n>>, <<i.id, m.n>>)], tb, i.methods)

LoadMethod(tb, i, trait, at) ==
    LET key == TargetKey(i.target)
        slot == <<key, i.trait, IF Len(trait.params) = 2 THEN TargetKey(i.targs[1]) ELSE "">>
    IN [tb EXCEPT !.ops = IF trait.of = "operator" THEN Put(@, slot, at) ELSE @,
                  !.perTrait = Put(@, <<key, i.trait, at[2]>>, at),
                  !.flat = OrInsert(@, <<key, at[2]>>, at)]
LoadImpl(tb, i, trait) ==
    LET inherited == SelectSeq(trait.methods, LAMBDA tm : tm.default /\ Written(i, tm.n) = {})
        bodies == [k \in DOMAIN i.methods |-> <<i.id, i.methods[k].n>>] \o [k \in DOMAIN inherited |-> <<i.trait, inherited[k].n>>]
    IN FoldLeft(LAMBDA x, at : LoadMethod(x, i, trait, at), tb, bodies)

LoadItem(tb, i, traits) == CASE i.kind = "struct" -> LoadInherent(tb, i, i.id)
                             [] i.kind = "extend" -> LoadInherent(tb, i, TargetKey(i.target))
                             [] i.kind = "impl" -> LoadImpl(tb, i, traits[i.trait])
                             [] OTHER -> tb

LoadAll(traits, order) == FoldLeft(LAMBDA x, i : LoadItem(x, i, traits), NoTables, order)

(***************************************************************************)
(* Running a call: what is run, and whether with a receiver.               *)
(***************************************************************************)
Runs(at) == [at |-> at, receiver |-> TRUE]
Panic == [at |-> <<"panic">>, receiver |-> FALSE]
Lookup(f, k) == IF k \in DOMAIN f THEN Runs(f[k]) ELSE Panic
DispatchKey(v) == IF v.h = "Unique" THEN "" ELSE TargetKey(v)
IsPreludeTrait(t) == t \in {"PartialEq", "Eq", "PartialOrd", "Ord", "Hash", "Display"}

\* The prelude's methods natively, which honour a hand-written impl of the method they rest on.
RestsOn(n) == CASE n \in {"eq", "ne"} -> <<"PartialEq", "eq">>
                [] n \in {"partial_cmp", "lt", "cmp"} -> <<"PartialOrd", "partial_cmp">>
                [] n = "hash" -> <<"Hash", "hash">>
                [] n = "to_string" -> <<"Display", "to_string">>
                [] OTHER -> << >>
NativePrelude(tb, v, n) ==
    LET slot == <<TargetKey(Peel(v))>> \o RestsOn(n)
    IN CASE RestsOn(n) = << >> -> Panic
         [] slot \in DOMAIN tb.perTrait -> Runs(tb.perTrait[slot])
         [] OTHER -> Runs(<<"native", n>>)

EvalMethodCall(tb, recv, n) ==
    LET v == Peel(recv)
    IN CASE v.h \in {"List", "string", "tuple"} /\ n = "len" -> Runs(<<"native", n>>)
         [] IsScalar(Kind(v)) /\ n = "to_string" -> Runs(<<"native", n>>)
         [] OTHER -> Lookup(tb.flat, <<TargetKey(v), n>>)

UserOperator(tb, t, v, w) ==
    LET slot == <<TargetKey(Peel(v)), t, IF t = "Neg" THEN "" ELSE TargetKey(Peel(w))>>
        user == \E x \in {v, w} : x.h \in Structs \cup {"Unique"}
    IN IF user /\ slot \in DOMAIN tb.ops THEN Runs(tb.ops[slot])
       ELSE IF NativeOperator(t, Peel(v)) THEN Runs(<<"native", IF t = "Neg" THEN "neg" ELSE "add">>) ELSE Panic

\* A call recorded under a trait looks in that trait's table first.
WithReceiver(tb, c, site) ==
    LET key == <<DispatchKey(c.recv), site, c.n>>
    IN CASE site \in {"Add", "Neg"} /\ c.n \in {"add", "neg"} -> UserOperator(tb, site, c.recv, c.rhs)
         [] site # "" /\ key[1] # "" /\ key \in DOMAIN tb.perTrait -> Runs(tb.perTrait[key])
         [] IsPreludeTrait(site) -> NativePrelude(tb, c.recv, c.n)
         [] OTHER -> EvalMethodCall(tb, c.recv, c.n)

QualifiedCall(tb, c) ==
    LET key == <<DispatchKey(c.recv), c.trait, c.n>>
    IN IF IsPreludeTrait(c.trait) /\ ~(IsUser(c.recv) /\ key \in DOMAIN tb.perTrait) THEN NativePrelude(tb, c.recv, c.n)
       ELSE Lookup(tb.perTrait, key)

Run(tb, c, site) ==
    CASE c.form = "static" -> [Lookup(tb.flat, <<c.recv.h, c.n>>) EXCEPT !.receiver = FALSE]
      [] c.form = "operator" -> UserOperator(tb, "Add", c.recv, c.rhs)
      [] c.form \in {"qualified", "inside"} -> QualifiedCall(tb, c)
      [] OTHER -> WithReceiver(tb, c, site)

(***************************************************************************)
(* A program is checked, one pass after the other; one that is not refused *)
(* is loaded; then calls are checked and run.                              *)
(***************************************************************************)
None == [form |-> "none"]
Init ==
    /\ items \in {Inject(p) : p \in Programs}
    /\ pass = "names"
    /\ sema = Empty(items)
    /\ tables = NoTables
    /\ call = None /\ checked = No /\ outcome = None

After(from, to, s) ==
    /\ pass = from
    /\ sema' = s
    /\ pass' = IF s.wrong THEN "rejected" ELSE to
    /\ UNCHANGED <<items, tables, call, checked, outcome>>
EachItem(Take(_, _), s, order) == FoldLeft(LAMBDA x, i : IF x.wrong THEN x ELSE Take(x, i), s, order)
ExtendItem(s, i) == IF i.kind = "extend" THEN Extend(s, i) ELSE s
ImplItem(s, i) == IF i.kind = "impl" THEN Implement(s, i) ELSE s

RegisterNames == After("names", "bounds", DeclareNames(sema))
FillArgs == After("bounds", "collect", FillBounds(sema))
CollectSignatures == After("collect", "extend", EachItem(Collect, sema, items))
RegisterExtend == After("extend", "impl", EachItem(ExtendItem, sema, items))
RegisterImpls == After("impl", "supers", [EachItem(ImplItem, sema, items) EXCEPT !.registered = TRUE])
CheckImplSupers == After("supers", "settle", CheckSupers(sema))
CheckObligations == After("settle", "load", Settle(sema))

Load ==
    /\ pass = "load"
    /\ tables' = LoadAll(sema.traits, items)
    /\ pass' = "ready"
    /\ UNCHANGED <<items, sema, call, checked, outcome>>

CheckCall ==
    /\ pass = "ready"
    /\ \E c \in Calls(items) : call' = c /\ checked' = Check(sema, c)
    /\ pass' = IF checked'.ok THEN "run" ELSE "refused"
    /\ UNCHANGED <<items, sema, tables, outcome>>

RunCall ==
    /\ pass = "run"
    /\ outcome' = Run(tables, call, checked.site)
    /\ pass' = "done"
    /\ UNCHANGED <<items, sema, tables, call, checked>>

Next == \/ RegisterNames \/ FillArgs \/ CollectSignatures \/ RegisterExtend \/ RegisterImpls
        \/ CheckImplSupers \/ CheckObligations \/ Load \/ CheckCall \/ RunCall
Spec == Init /\ [][Next]_vars
=============================================================================
