-------------------------------- MODULE Emit --------------------------------
(***************************************************************************)
(* crates/llvm_poc/src/emit.rs: the basic blocks made of a tree of module  *)
(* Tree.                                                                   *)
(*                                                                         *)
(* An instruction is [op, t, a]: the register it sets (0: none) and its    *)
(* operands.  The emitter's state is                                       *)
(*   code    label -> instructions; cur: the block written to; open: it    *)
(*           has no terminator yet                                         *)
(*   lbl, tmp  the labels, and the registers and slots, handed out         *)
(*   scopes  name -> [slot, ty], innermost last                            *)
(*   loops   [cont, brk, depth] of the loops open, innermost last          *)
(*   arenas  the registers of the arenas open; scan: those to be scanned   *)
(*   outs    the slots the open value-`if`s and -matches store to          *)
(*   val     [v, ty] of the expression emitted last                        *)
(*   ok      nothing was refused                                           *)
(*   sets, notes  not in the code: the assignments emitted, and the places *)
(*           where the blocks are known to do other than the tree          *)
(***************************************************************************)
EXTENDS Tree, SequencesExt

Const(n) == [lit |-> n]
Reg(t)   == [reg |-> t]

Gives(g, v, ty) == [g EXCEPT !.val = [v |-> v, ty |-> ty]]
Nothing(g)      == Gives(g, Const(0), "void")
Need(g, b)      == [g EXCEPT !.ok = @ /\ b]
Refuse(g)       == Need(g, FALSE)
Noted(g, why)   == [g EXCEPT !.notes = @ \cup {why}]

Line(g, i) == [g EXCEPT !.code[g.cur] = Append(@, i)]

\* begin: an open block falls through to the new one.
Begin(g, l) ==
    [IF g.open THEN Line(g, [op |-> "br", t |-> 0, a |-> <<l>>]) ELSE g
       EXCEPT !.code = (l :> <<>>) @@ @, !.cur = l, !.open = TRUE]

\* open_if_dead: what follows a terminator goes into a block nobody branches to.
OpenIfDead(g) == IF g.open THEN g ELSE Begin([g EXCEPT !.lbl = @ + 1], g.lbl + 1)

Inst(g, op, t, a)     == Line(OpenIfDead(g), [op |-> op, t |-> t, a |-> a])
Term(g, op, a)        == [Inst(g, op, 0, a) EXCEPT !.open = FALSE]
Compute(g, op, a, ty) == Gives(Inst([g EXCEPT !.tmp = @ + 1], op, g.tmp + 1, a), Reg(g.tmp + 1), ty)
Store(g, slot)        == Inst(g, "store", 0, <<slot, g.val.v>>)
LoadFrom(g, slot, ty) == Compute(g, "load", <<slot>>, ty)
Jump(g, l)            == Term(g, "br", <<l>>)
JumpIfOpen(g, l)      == IF g.open THEN Jump(g, l) ELSE g
Split(g, yes, no)     == Term(Need(g, g.val.ty = "int"), "if", <<g.val.v, yes, no>>)
Labels(g, n)          == [g EXCEPT !.lbl = @ + n]
Slots(g, n)           == [g EXCEPT !.tmp = @ + n]

\* lookup and declare.
Local(g, x) ==
    LET in == {i \in DOMAIN g.scopes : x \in DOMAIN g.scopes[i]} IN g.scopes[Max(in)][x]

\* Mutant: a name is declared in the outermost scope.
DeclareSlotOutside(g, x, ty) ==
    [Slots(g, 1) EXCEPT !.scopes[1] = (x :> [slot |-> g.tmp + 1, ty |-> ty]) @@ @]
DeclareSlot(g, x, ty) ==
    [Slots(g, 1) EXCEPT !.scopes[Len(g.scopes)] = (x :> [slot |-> g.tmp + 1, ty |-> ty]) @@ @]
EnterScope(g) == [g EXCEPT !.scopes = Append(@, <<>>)]
LeaveScope(g) == [g EXCEPT !.scopes = Front(@)]
DeclareStore(g, x) == Nothing(Store(DeclareSlot(Need(g, g.val.ty # "void"), x, g.val.ty), g.tmp + 1))

\* mark_scan: the arena an object with a pointer field goes to.
MarkScan(g, ty) ==
    IF ty = "B" /\ g.arenas # <<>> THEN [g EXCEPT !.scan = @ \cup {Last(g.arenas)}] ELSE g

\* destroy_arenas_from: those opened since, innermost first; they stay open for
\* the code that follows.
DestroyFrom(g, depth) ==
    FoldLeft(LAMBDA acc, a : Inst(acc, "destroy", 0, <<a>>), g,
             Reverse(SubSeq(g.arenas, depth + 1, Len(g.arenas))))

\* do_return.
EmitReturn(g, v) ==
    LET fits == IF v = <<>> THEN g.ret = "void" ELSE g.ret # "void" /\ g.val.ty = g.ret
    IN  Term(DestroyFrom(Need(g, fits), 0), "ret", IF v = <<>> THEN <<>> ELSE <<g.val.v>>)

\* binop on ints: a division branches around a trap.
NotZero(g, v) ==
    LET test == Split(Compute(Labels(g, 2), "zero", <<v>>, "int"), g.lbl + 1, g.lbl + 2)
    IN  Begin(Term(Begin(test, g.lbl + 1), "divzero", <<>>), g.lbl + 2)
EmitBinOp(g, op, l, r) ==
    LET h == Need(g, l.ty = "int" /\ r.ty = "int")
    IN  Compute(IF op = "div" THEN NotZero(h, r.v) ELSE h, op, <<l.v, r.v>>, "int")

FieldTy(ty) == IF ty = "B" THEN "N" ELSE "int"

\* Lower: an expression or a statement.
RECURSIVE Lower(_, _)

\* Nothing more is emitted once something was refused.
Stmts(g, stmts) == FoldLeft(LAMBDA acc, s : IF acc.ok THEN Lower(s, acc) ELSE acc, g, stmts)
EmitBlock(g, stmts) == LeaveScope(Stmts(EnterScope(g), stmts))

EmitArg(g, e) == LET a == Lower(e, g) IN Need(a, a.val.ty = "int")

EmitCall(g, e) ==
    LET step(acc, x) == LET a == EmitArg(acc.g, x) IN [g |-> a, vs |-> Append(acc.vs, a.val.v)]
        r == FoldLeft(step, [g |-> g, vs |-> <<>>], e.args)
    IN  Compute(r.g, "call", r.vs, "int")

EmitOperator(g, e) ==
    LET l == Lower(e.l, g)
        r == Lower(e.r, l)
    IN  EmitBinOp(r, e.k, l.val, r.val)

\* short_circuit: the slot holds the left operand, or the right one after it.
EmitShortCircuit(g, e) ==
    LET l    == Lower(e.l, Slots(g, 1))
        slot == g.tmp + 1
        rhs  == l.lbl + 1
        end  == l.lbl + 2
        s    == Split(Store(Labels(l, 2), slot), IF e.k = "and" THEN rhs ELSE end, IF e.k = "and" THEN end ELSE rhs)
    IN  LoadFrom(Begin(Jump(Store(EmitArg(Begin(s, rhs), e.r), slot), end), end), slot, "int")

\* Assign.  The place comes first: for a field, its object is evaluated before
\* the right-hand side, and only once.
AddLoaded(g, v) == EmitBinOp(g, "add", g.val, v)
EmitSet(g, e) ==
    LET at  == Local(g, e.x)
        r   == Lower(e.e, g)
        new == IF e.plus THEN AddLoaded(LoadFrom(r, at.slot, at.ty), r.val) ELSE Need(r, r.val.ty = at.ty)
    IN  [Nothing(Store(new, at.slot)) EXCEPT !.sets = @ + 1]

PutInto(g, v) == Inst(g, "put", 0, <<v, g.val.v>>)

EmitField(g, e) ==
    LET o == Lower(e.o, g)
    IN  Compute(Need(o, o.val.ty \in {"N", "B"}), "get", <<o.val.v>>, FieldTy(o.val.ty))

EmitPut(g, e) ==
    LET o   == Lower(e.o, g)
        ty  == FieldTy(o.val.ty)
        r   == Lower(e.e, Need(o, o.val.ty \in {"N", "B"}))
        new == IF e.plus THEN AddLoaded(Compute(r, "get", <<o.val.v>>, ty), r.val) ELSE Need(r, r.val.ty = ty)
        out == IF e.o.k # "name" \/ r.sets # g.sets THEN Noted(new, "place") ELSE new
    IN  Nothing(PutInto(out, o.val.v))

\* struct_lit and alloc_site: in the innermost arena, else on the collector's
\* heap, which only @tier(high) has.
EmitNew(g, e) ==
    LET site == IF g.arenas = <<>> THEN 0 ELSE Last(g.arenas)
        f    == Lower(e.e, MarkScan(Need(g, site # 0 \/ g.tier = "high"), e.ty))
        p    == Compute(Need(f, f.val.ty = FieldTy(e.ty)), "new", <<site, e.ty>>, e.ty)
    IN  Inst(p, "put", 0, <<p.val.v, f.val.v>>)

\* store_branch_value: the first value opens the slot and gives it its type.
StoreBranch(g) ==
    LET old == Last(g.outs)
        out == IF old.ty = "void" THEN [slot |-> g.tmp + 1, ty |-> g.val.ty] ELSE old
        h   == [Need(g, g.val.ty # "void" /\ g.val.ty = out.ty) EXCEPT !.outs[Len(g.outs)] = out]
    IN  Store(IF old.ty = "void" THEN Slots(h, 1) ELSE h, out.slot)

OpenOut(g) == [g EXCEPT !.outs = Append(@, [slot |-> 0, ty |-> "void"])]
LoadOut(g) ==
    LET out == Last(g.outs)
        h   == [g EXCEPT !.outs = Front(@)]
    IN  IF out.ty = "void" THEN Nothing(h) ELSE LoadFrom(h, out.slot, out.ty)

\* branch_value: a block ends in the expression that is its value.
BranchValue(g, body) ==
    IF body.form = "expr" THEN StoreBranch(Lower(body.e, g))
    ELSE IF body.stmts = <<>> \/ Last(body.stmts).s # "expr" THEN Refuse(g)
    ELSE LeaveScope(StoreBranch(Lower(Last(body.stmts).e, Stmts(EnterScope(g), Front(body.stmts)))))

\* The branch of an `if` statement; `then e` has no scope of its own.
BranchStmt(g, body) ==
    LET r == Lower(body.e, g)
    IN  IF body.form = "block" THEN EmitBlock(g, body.stmts)
        ELSE IF r.scopes # g.scopes THEN Noted(r, "declared") ELSE r

\* if_stmt and if_value.
Branched(g, body, value) == IF value THEN BranchValue(g, body) ELSE BranchStmt(g, body)
IfArm(g, body, end, value) ==
    LET then == Begin(Split(Labels(g, 2), g.lbl + 1, g.lbl + 2), g.lbl + 1)
    IN  Begin(JumpIfOpen(Branched(then, body, value), end), g.lbl + 2)
IfArms(g, e, value) ==
    LET end  == g.lbl + 1
        arms == FoldLeft(LAMBDA acc, a : IfArm(Lower(a.c, acc), a.body, end, value), Labels(g, 1), e.arms)
    IN  Begin(FoldLeft(LAMBDA acc, b : Branched(acc, b, value), arms, e.else), end)
IfResult(g, e) == LoadOut(Need(g, e.else # <<>> /\ Last(g.outs).ty # "void"))
EmitIf(g, e, value) ==
    IF value THEN IfResult(IfArms(OpenOut(g), e, TRUE), e) ELSE Nothing(IfArms(g, e, FALSE))

\* The arms a match keeps: up to the first catch-all, a variant once.
Kept(e) ==
    LET repeats(i, j) == e.of = "enum" /\ e.arms[i].pat = e.arms[j].pat
        keep == {i \in DOMAIN e.arms : \A j \in 1 .. i - 1 : ~IsCatchAll(e.arms[j].pat) /\ ~repeats(i, j)}
    IN  [i \in 1 .. Cardinality(keep) |-> e.arms[SetToSortSeq(keep, <)[i]]]

\* match_arm_body.
ArmBody(g, body, value) ==
    LET isExpr   == body.form = "expr"
        hasValue == isExpr \/ (body.stmts # <<>> /\ Last(body.stmts).s = "expr")
        last     == IF isExpr THEN Lower(body.e, g)
                    ELSE IF value /\ hasValue
                         THEN Lower(Last(body.stmts).e, Stmts(EnterScope(g), Front(body.stmts)))
                         ELSE Stmts(EnterScope(g), body.stmts)
        stored(r) == IF value /\ hasValue /\ r.open THEN StoreBranch(r) ELSE Need(r, ~value \/ ~r.open \/ hasValue)
        left(r)   == IF isExpr THEN r ELSE LeaveScope(r)
    IN  left(stored(last))

\* match_lower and match_str: a switch, or tests in the order of the arms.  The
\* value is in v, the arms begin at the labels given, and go on at `end`.
EmitSwitch(g, v, arms, label, other) ==
    LET of(n) == CHOOSE i \in DOMAIN arms : ~IsCatchAll(arms[i].pat) /\ arms[i].pat.n = n
        tests == {i \in DOMAIN arms : ~IsCatchAll(arms[i].pat)}
    IN  Term(g, "switch", <<v, [n \in {arms[i].pat.n : i \in tests} |-> label[of(n)]], other>>)
EmitTests(g, v, arms, label, other) ==
    LET taken(acc, l) == Begin(Split(Labels(acc, 1), l, acc.lbl + 1), acc.lbl + 1)
        test(acc, i)  == IF IsCatchAll(arms[i].pat) THEN acc
                         ELSE taken(Compute(acc, "eq", <<v, Const(arms[i].pat.n)>>, "int"), label[i])
    IN  Jump(FoldLeft(test, g, [i \in DOMAIN arms |-> i]), other)
EmitArms(g, v, arms, label, end, value) ==
    LET bind(in, pat) == IF pat.p = "name" THEN DeclareStore(Gives(in, v, "int"), pat.x) ELSE in
        arm(acc, i) ==
          JumpIfOpen(LeaveScope(ArmBody(bind(EnterScope(Begin(acc, label[i])), arms[i].pat), arms[i].body, value)), end)
    IN  FoldLeft(arm, g, [i \in DOMAIN arms |-> i])
Matched(g, e, arms, value) ==
    LET v     == g.val.v
        has   == arms # <<>> /\ IsCatchAll(Last(arms).pat)
        end   == g.lbl + 1
        other == g.lbl + 2
        label == [i \in DOMAIN arms |-> IF IsCatchAll(arms[i].pat) THEN other ELSE other + i]
        start == Labels(g, 2 + Len(arms))
        entry == IF e.of = "enum" THEN EmitSwitch(start, v, arms, label, other)
                 ELSE EmitTests(start, v, arms, label, IF has THEN other ELSE end)
        none(all) == IF has \/ e.of = "str" THEN all ELSE Term(Begin(all, other), "nomatch", <<>>)
        out(all)  == IF value THEN LoadOut(Need(all, has \/ e.of = "enum")) ELSE Nothing(all)
    IN  out(Begin(none(EmitArms(entry, v, arms, label, end, value)), end))
EmitMatch(g, e, value) == Matched(EmitArg(IF value THEN OpenOut(g) ELSE g, e.e), e, Kept(e), value)

EmitExpr(g, e) ==
    IF ~g.ok THEN g
    ELSE CASE e.k = "lit"   -> Gives(g, Const(e.n), "int")
           [] e.k = "name"  -> Compute(g, "load", <<Local(g, e.x).slot>>, Local(g, e.x).ty)
           [] e.k = "call"  -> EmitCall(g, e)
           [] e.k \in {"and", "or"}  -> EmitShortCircuit(g, e)
           [] e.k \in {"add", "div"} -> EmitOperator(g, e)
           [] e.k = "set"   -> EmitSet(g, e)
           [] e.k = "put"   -> EmitPut(g, e)
           [] e.k = "get"   -> EmitField(g, e)
           [] e.k = "new"   -> EmitNew(g, e)
           [] e.k = "decl"  -> DeclareStore(Lower(e.e, g), e.x)
           [] e.k = "if"    -> EmitIf(g, e, TRUE)
           [] e.k = "match" -> EmitMatch(g, e, TRUE)

\* The body of a loop, where `continue` goes to `cont` and `break` to `brk`.
Body(g, cont, brk, stmts) ==
    LET in == [g EXCEPT !.loops = Append(@, [cont |-> cont, brk |-> brk, depth |-> Len(g.arenas)])]
    IN  [EmitBlock(in, stmts) EXCEPT !.loops = Front(@)]

EmitWhile(g, s) ==
    LET cond == g.lbl + 1
        body == g.lbl + 2
        end  == g.lbl + 3
        test == Split(Lower(s.c, Begin(Jump(Labels(g, 3), cond), cond)), body, end)
    IN  Begin(JumpIfOpen(Body(Begin(test, body), cond, end, s.stmts), cond), end)

EmitLoop(g, s) ==
    LET body == g.lbl + 1
        end  == g.lbl + 2
        b    == Body(Begin(Jump(Labels(g, 2), body), body), body, end, s.stmts)
    IN  Begin(JumpIfOpen(b, body), end)

\* Mutant: `continue` goes to the test, past the step.
ForLoopTest(g, cond, inc, end) == [cont |-> cond, brk |-> end, depth |-> Len(g.arenas)]
ForLoop(g, cond, inc, end) == [cont |-> inc, brk |-> end, depth |-> Len(g.arenas)]

\* for_stmt: a counter and a limit of its own; `continue` goes to the step.
ForTest(g, s, i, max) ==
    LET l == LoadFrom(g, i, "int")
        h == LoadFrom(l, max, "int")
    IN  Compute(h, IF s.incl THEN "le" ELSE "lt", <<l.val.v, h.val.v>>, "int")
ForBody(g, s, i, loop) ==
    LET in == [EnterScope(g) EXCEPT !.loops = Append(@, loop)]
        x  == Store(LoadFrom(DeclareSlot(in, s.x, "int"), i, "int"), in.tmp + 1)
    IN  [LeaveScope(Stmts(x, s.stmts)) EXCEPT !.loops = Front(@)]
ForStep(g, i) ==
    LET l == LoadFrom(g, i, "int")
    IN  Store(Compute(l, "add", <<l.val.v, Const(1)>>, "int"), i)
ForRange(g, lo, s) ==
    LET i    == g.tmp + 1
        max  == g.tmp + 2
        cond == g.lbl + 1
        body == g.lbl + 2
        inc  == g.lbl + 3
        end  == g.lbl + 4
        set  == Store(Gives(Store(Gives(Labels(Slots(g, 2), 4), lo, "int"), i), g.val.v, "int"), max)
        test == Split(ForTest(Begin(Jump(set, cond), cond), s, i, max), body, end)
        once == JumpIfOpen(ForBody(Begin(test, body), s, i, ForLoop(g, cond, inc, end)), inc)
    IN  Begin(Jump(ForStep(Begin(once, inc), i), cond), end)
EmitFor(g, s) == LET lo == EmitArg(g, s.lo) IN ForRange(EmitArg(lo, s.hi), lo.val.v, s)

\* Mutant: `break` destroys every open arena, as `return` does.
EmitBreakAll(g) == Jump(DestroyFrom(g, 0), Last(g.loops).brk)

\* `break` and `continue` destroy the arenas opened inside the loop.
EmitBreak(g)    == Jump(DestroyFrom(g, Last(g.loops).depth), Last(g.loops).brk)
EmitContinue(g) == Jump(DestroyFrom(g, Last(g.loops).depth), Last(g.loops).cont)

\* `with arena`: destroyed at its end unless everything has left it before.
EmitWith(g, s) ==
    LET a == g.tmp + 1
        done(b) == [IF b.open THEN Inst(b, "destroy", 0, <<a>>) ELSE b EXCEPT !.arenas = Front(@)]
    IN  done(EmitBlock([Inst(Slots(g, 1), "create", a, <<>>) EXCEPT !.arenas = Append(@, a)], s.stmts))

EmitStmt(g, s) ==
    CASE s.s = "let"      -> DeclareStore(Lower(s.e, g), s.x)
      [] s.s = "expr"     -> Lower(IF s.e.k = "match" THEN [s |-> "match", node |-> s.e] ELSE s.e, g)
      [] s.s = "return"   -> EmitReturn(IF s.res = <<>> THEN g ELSE Lower(Head(s.res), g), s.res)
      [] s.s = "if"       -> EmitIf(g, s.node, FALSE)
      [] s.s = "match"    -> EmitMatch(g, s.node, FALSE)
      [] s.s = "while"    -> EmitWhile(g, s)
      [] s.s = "loop"     -> EmitLoop(g, s)
      [] s.s = "for"      -> EmitFor(g, s)
      [] s.s = "break"    -> IF g.loops = <<>> THEN Refuse(g) ELSE EmitBreak(g)
      [] s.s = "continue" -> IF g.loops = <<>> THEN Refuse(g) ELSE EmitContinue(g)
      [] s.s = "with"     -> EmitWith(g, s)

Lower(n, g) == IF "s" \in DOMAIN n THEN EmitStmt(g, n) ELSE EmitExpr(g, n)

\* lower_body: the last expression is the result if it has its type; a last
\* expression of another type is emitted, and then emitted as a statement.
EmitTail(g, s) ==
    LET v == Lower(s.e, g)
    IN  IF v.val.ty = g.ret THEN EmitReturn(v, <<s.e>>)
        ELSE IF s.e.k = "match" THEN v ELSE Noted(Lower(s, v), "twice")

LowerBody(g, stmts) ==
    IF stmts = <<>> \/ g.ret = "void" \/ Last(stmts).s # "expr" THEN Stmts(g, stmts)
    ELSE EmitTail(Stmts(g, Front(stmts)), Last(stmts))

EndBody(g) ==
    IF ~g.open THEN g ELSE Term(g, IF g.ret = "void" THEN "ret" ELSE "noreturn", <<>>)

\* function: the parameter is in slot 1, the first block is 0.
Emitted(fn) ==
    EndBody(LowerBody(
        [code |-> (0 :> <<>>), cur |-> 0, open |-> TRUE, lbl |-> 0, tmp |-> 1,
         scopes |-> << ("p" :> [slot |-> 1, ty |-> "N"]) >>, loops |-> <<>>, arenas |-> <<>>, scan |-> {}, outs |-> <<>>,
         val |-> [v |-> Const(0), ty |-> "void"], ok |-> TRUE, sets |-> 0, notes |-> {}, tier |-> fn.tier, ret |-> fn.ret],
        fn.stmts))
=============================================================================
