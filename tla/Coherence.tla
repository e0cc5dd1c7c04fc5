------------------------------ MODULE Coherence ------------------------------
(***************************************************************************)
(* What the checker and the interpreter owe each other about traits, said  *)
(* of the items as they are written and never of the tables either of them *)
(* builds.                                                                 *)
(***************************************************************************)
EXTENDS Dispatch

ItemOf(id) == CHOOSE i \in ToSet(items) : i.id = id
TraitIs(t, of) == \E i \in Named(items, "trait") : i.id = t /\ i.of = of
TargetOf(i) == IF i.kind = "struct" THEN Ty(i.id) ELSE i.target
HoldsInherent == Named(items, "extend") \cup Named(items, "struct")

RECURSIVE Has(_, _), Fits(_, _)

\* Block i is written for v: for its head, its argument if it names one, and what it asks of the
\* argument.  An operator impl for a built-in type is one for its kind.
Fits(i, v) ==
    /\ \/ TargetOf(i).h = v.h
       \/ i.kind = "impl" /\ TraitIs(i.trait, "operator") /\ Kind(v) # "" /\ Kind(i.target) = Kind(v)
    /\ i.kind # "struct" => /\ i.param \/ i.target.a \in {<< >>, v.a}
                            /\ \A b \in ToSet(i.bounds) : Has(v.a[1], SubBound(b, HeadEnv(v.a)))

\* A value of the type has the trait by itself.
Natural(v, b) ==
    \/ /\ TraitIs(b.t, "operator")
       /\ NativeOperator(b.t, v) /\ ToSet(b.args) \subseteq {v}
    \/ /\ TraitIs(b.t, "prelude")
       /\ \/ v.h \in {"int", "long", "string"}
          \/ v.h = "double" /\ b.t \in {"PartialEq", "PartialOrd", "Display"}
          \/ v.h = "tuple" /\ b.t \in {"PartialEq", "Eq", "Hash"} /\ \A i \in DOMAIN v.a : Has(v.a[i], b)
          \/ \E d \in Named(items, "struct") : d.id = v.h /\ b.t \in d.derives

Has(ty, b) ==
    LET v == Peel(ty)
    IN \/ Natural(v, b)
       \/ \E i \in Named(items, "impl") : i.trait = b.t /\ Fits(i, v) /\ SubAll(i.targs, HeadEnv(v.a)) = b.args

\* A type has a trait exactly if it has it by itself or an impl that is written for it, with what
\* the block asks of the argument, gives it; and then it has every trait that one builds on, though
\* that was only checked of the impl's parameter (bound_status, check_impl_supertraits).
BoundsAreKept ==
    pass = "ready" => \A x \in Probes(items) :
        LET yes(b) == BoundStatus(sema, << >>, x[1], b) = "yes"
        IN yes(x[2]) = Has(x[1], x[2]) /\ (yes(x[2]) => \A b \in ToSet(Closure(sema, <<x[2]>>, x[1])) : yes(b))

(***************************************************************************)
(* What a call may mean: an inherent method written for the receiver, else *)
(* the method that an impl written for it has of its trait, its own or the *)
(* default; of the trait that the call names, when it names one.           *)
(***************************************************************************)
Writes(i, n, self) == \E m \in ToSet(i.methods) : m.n = n /\ m.self = self
BodyIn(i, n) == <<IF Writes(i, n, TRUE) THEN i.id ELSE i.trait, n>>
Inherent(v, n, self) == {<<i.id, n>> : i \in {x \in HoldsInherent : Writes(x, n, self) /\ Fits(x, v)}}
Implementing(v, n) == {i \in Named(items, "impl") : Fits(i, v) /\ Writes(ItemOf(i.trait), n, TRUE)}

TraitCalled(c) == CASE c.form = "through" -> checked.site
                    [] c.form = "operator" -> "Add"
                    [] OTHER -> c.trait
TakesRight(i, c) == TraitIs(i.trait, "operator") /\ Len(i.targs) = 2 => Sub(i.targs[1], HeadEnv(Peel(c.recv).a)) = Peel(c.rhs)
ByName(v, n) == IF Inherent(v, n, TRUE) # {} THEN Inherent(v, n, TRUE) ELSE {BodyIn(i, n) : i \in Implementing(v, n)}
Means(c) ==
    LET v == Peel(c.recv)
    IN CASE c.form = "static" /\ Inherent(v, c.n, FALSE) # {} -> Inherent(v, c.n, FALSE)
         [] c.form \in {"direct", "static"} -> ByName(v, c.n)
         [] OTHER -> {BodyIn(i, c.n) : i \in {x \in Implementing(v, c.n) : x.trait = TraitCalled(c) /\ TakesRight(x, c)}}

\* An operator does not ask what the impl it goes to asks of its type's argument (operator_candidates
\* keeps the impls' arguments and not their guards).
OperatorUnasked(c) == c.form = "operator" /\ \E i \in Named(items, "impl") : i.trait = "Add" /\ i.bounds # << >> /\ i.target.h = c.recv.h

\* A call that is accepted means a body written for its receiver, and the run time's own only if
\* there is none: no block for another argument, none whose bounds do not hold, no trait's method
\* past an inherent one, no other trait's method than the one the call goes through.
MeansWhatIsWritten ==
    pass = "run" => \/ checked.at \in Means(call)
                    \/ checked.at[1] = "native" /\ (Means(call) = {} \/ call.n = "len")
                    \/ OperatorUnasked(call)

(***************************************************************************)
(* Where checker and interpreter part, by cause.                           *)
(***************************************************************************)
MethodsOf(i) == IF i.kind = "impl" THEN ItemOf(i.trait).methods ELSE i.methods
Suppliers(c) == {i \in HoldsInherent \cup Named(items, "impl") :
                    TargetKey(TargetOf(i)) = TargetKey(Peel(c.recv)) /\ \E m \in ToSet(MethodsOf(i)) : m.n = c.n}

\* Two inherent methods of a name: the checker means the first, the interpreter keeps the last.
WrittenTwice(c) == Cardinality(Suppliers(c) \cap HoldsInherent) > 1

\* The name is also another type's of the same kind, and values show their kind only.
KindHasIt(c) == \E i \in Suppliers(c) : Def(TargetOf(i)) # Def(Peel(c.recv))

\* A trait's method is not looked for through an owner: the call falls to the name alone, or to nothing.
ThroughOwner(c) == c.recv.h = "Unique" /\ (c.form = "inside" \/ (c.form = "through" /\ Cardinality(Suppliers(c)) > 1))

\* Of a type's impls of one operator trait, the last is kept under the trait and the first under the name.
OneOfSeveral(c) == c.form # "operator" /\ Cardinality({i \in Suppliers(c) : i.kind = "impl" /\ TraitIs(i.trait, "operator")}) > 1

\* A method with a receiver, called on the name of its type, is run without one.
OnTypeName(c) == c.form = "static" /\ checked.receiver

\* A trait of the program's own is taken for the prelude's of that name.
TakenForPrelude(c) == \E t \in {c.trait, checked.site} : IsPreludeTrait(t) /\ TraitIs(t, "user")

\* A scalar's own text is made before a block's to_string is looked for.
OwnText(c) == IsScalar(Kind(Peel(c.recv))) /\ c.n = "to_string"

\* The prelude's default comes to the one method its trait asks for.
RestsOnIt(at, ran) == TraitIs(at[1], "prelude") /\ RestsOn(at[2]) = <<at[1], ran[2]>>

\* A call runs the body it was checked to mean, with a receiver if it was checked with one, though
\* the interpreter finds it by a kind of value and a name and the checker by types, but for the
\* causes above (infer_call against call_method_site and eval_method_call).
RunsWhatWasChecked ==
    pass = "done" =>
        \/ outcome = [at |-> checked.at, receiver |-> checked.receiver]
        \/ RestsOnIt(checked.at, outcome.at)
        \/ WrittenTwice(call) \/ KindHasIt(call) \/ ThroughOwner(call) \/ OneOfSeveral(call)
        \/ OnTypeName(call) \/ TakenForPrelude(call) \/ OwnText(call)

(***************************************************************************)
(* The same program in another order: two neighbours exchanged, neither a  *)
(* trait.  From these every order of the structs and blocks is reached.    *)
(***************************************************************************)
Passes == <<"names", "bounds", "collect", "extend", "impl", "supers", "settle">>
Passed(s, order, p) == CASE s.wrong -> s
                         [] p = "names" -> DeclareNames(s)
                         [] p = "bounds" -> FillBounds(s)
                         [] p = "collect" -> EachItem(Collect, s, order)
                         [] p = "extend" -> EachItem(ExtendItem, s, order)
                         [] p = "impl" -> [EachItem(ImplItem, s, order) EXCEPT !.registered = TRUE]
                         [] p = "supers" -> CheckSupers(s)
                         [] OTHER -> Settle(s)
Checked(order) == LET after[k \in 0..Len(Passes)] == IF k = 0 THEN Empty(order) ELSE Passed(after[k - 1], order, Passes[k])
                  IN after[Len(Passes)]
Exchanged(k) == [items EXCEPT ![k] = items[k + 1], ![k + 1] = items[k]]
Reordered == {Exchanged(k) : k \in {j \in 1..(Len(items) - 1) : "trait" \notin {items[j].kind, items[j + 1].kind}}}

SameAnswer(c, one, other, tb) == one = other /\ (one.ok => Run(tables, c, one.site) = Run(tb, c, other.site))
SameCalls(s, tb) ==
    \A c \in Calls(items) : \/ WrittenTwice(c) \/ KindHasIt(c) \/ ThroughOwner(c) \/ OneOfSeveral(c)
                            \/ SameAnswer(c, Check(sema, c), Check(s, c), tb)

\* Whether a tuple has a trait by itself is asked while the impls of its elements are still to come.
NativeByThen == \E i \in Named(items, "impl") : i.target.h = "tuple" /\ TraitIs(i.trait, "prelude")

\* What is asked of a trait's argument and cannot be told at once is told later, without the bounds
\* of the impl that asked.
Postponed == \E i \in Named(items, "impl") : i.bounds # << >> /\ i.targs # << >> /\ ItemOf(i.trait).bounds # << >>

\* The order of the items decides nothing: the same program is accepted or refused in every order,
\* and its calls are checked to mean, and run, the same bodies.
OrderDoesNotMatter ==
    pass \in {"rejected", "ready"} =>
        \A order \in Reordered : \A s \in {Checked(order)} :
            \/ s.wrong /\ pass = "rejected"
            \/ s.wrong # (pass = "rejected") /\ (NativeByThen \/ Postponed)
            \/ ~s.wrong /\ pass = "ready" /\ SameCalls(s, LoadAll(s.traits, order))
=============================================================================
