-------------------------------- MODULE Eval --------------------------------
(***************************************************************************)
(* interpreter/eval/expr.rs and stmt.rs: what the tree-walking interpreter *)
(* makes of the trees of module Tree.                                      *)
(*                                                                         *)
(* The interpreter's state is                                              *)
(*   env    the scopes, innermost last: name -> value                      *)
(*   heap   the fields of the structs, which are shared, not copied        *)
(*   trace  the calls made, each the sequence of its arguments             *)
(*   left   the answers the calls still have to come                       *)
(*   rounds the rounds loops may still take                                *)
(*   sig    "ok", or the Signal on its way: "return", "break", "continue", *)
(*          "panic"; "cut" when the next answer is not known yet           *)
(*   val    the value of what was evaluated last                           *)
(* Every operator takes a state and returns the one after; nothing is      *)
(* evaluated once there is a signal.                                       *)
(***************************************************************************)
EXTENDS Tree, SequencesExt

CONSTANTS Top,          \* bound: the ints are -Top-1 .. Top
          MaxRounds     \* bound: the rounds of all loops together

Least    == -Top - 1

\* A value is an int, a reference to the i-th struct built, or nothing.
VoidVal   == Least - 1
ObjVal(i) == Top + i
ObjOf(v)  == v - Top

\* `result as i64` saturates.
Saturated(n) == IF n > Top THEN Top ELSE IF n < Least THEN Least ELSE n

\* Division truncates toward zero.
Quotient(a, b) ==
    LET q == (IF a < 0 THEN -a ELSE a) \div (IF b < 0 THEN -b ELSE b)
    IN  IF (a < 0) = (b < 0) THEN q ELSE -q

Running(st)   == st.sig = "ok"
Raised(st, s) == [st EXCEPT !.sig = s]
Value(st, v)  == [st EXCEPT !.val = v]

\* Environment::push, pop, define; get and set reach the innermost scope that
\* has the name.
PushScope(st) == [st EXCEPT !.env = Append(@, <<>>)]
PopScope(st)  == [st EXCEPT !.env = Front(@)]
Bound(st, x, v) == [st EXCEPT !.env[Len(st.env)] = (x :> v) @@ @]
Holders(st, x)  == {i \in DOMAIN st.env : x \in DOMAIN st.env[i]}

LookUp(st, x) ==
    IF Holders(st, x) = {} THEN Raised(st, "panic")
    ELSE Value(st, st.env[Max(Holders(st, x))][x])

WriteName(st, x, v) ==
    Value(IF Holders(st, x) = {} THEN Bound(st, x, v)
          ELSE [st EXCEPT !.env[Max(Holders(st, x))][x] = v], VoidVal)

WriteField(st, v) ==
    Value([st EXCEPT !.heap[ObjOf(st.val)] = v], VoidVal)

\* eval_binop: + and / on ints, through f64; a zero divisor panics.
Binary(st, op, a, b) ==
    IF op = "add" THEN Value(st, Saturated(a + b))
    ELSE IF b = 0 THEN Raised(st, "panic")
    ELSE Value(st, Saturated(Quotient(a, b)))

\* call_function, of a function whose answer is the next one.
Answered(st, args) ==
    LET called == [st EXCEPT !.trace = Append(@, args)]
    IN  IF st.left = <<>> THEN Raised(called, "cut")
        ELSE Value([called EXCEPT !.left = Tail(@)], Head(st.left))

\* Eval: of an expression or a statement.
RECURSIVE Eval(_, _), Rounds(_, _), Walk(_, _, _)

\* eval_block_in_scope: the statements up to the first that raises a signal.
InScope(stmts, st) ==
    FoldLeft(LAMBDA acc, s : IF Running(acc) THEN Eval(s, acc) ELSE acc, Value(st, VoidVal), stmts)

\* eval_block: the scope is popped whatever the signal.
EvalBlock(stmts, st) == IF Running(st) THEN PopScope(InScope(stmts, PushScope(st))) ELSE st

\* eval_args: in order; `val` ends as the sequence of their values.
EvalArgs(st, args) ==
    LET step(acc, e) ==
          LET r == Eval(e, acc) IN IF Running(r) THEN Value(r, Append(acc.val, r.val)) ELSE r
    IN  FoldLeft(step, Value(st, <<>>), args)

\* `and` and `or` look at the right operand only when the left leaves it open.
EvalShortCircuit(st, e) ==
    LET l == Eval(e.l, st)
    IN  IF Running(l) /\ (l.val # 0) = (e.k = "and") THEN Eval(e.r, l) ELSE l

EvalBinOp(st, e) ==
    LET l == Eval(e.l, st)
        r == Eval(e.r, l)
    IN  IF Running(r) THEN Binary(r, e.k, l.val, r.val) ELSE r

\* eval_assign: the right-hand side first, then (compound only) the target read,
\* then the target written; each reads the object of a field anew.
EvalSet(st, e) ==
    LET r   == Eval(e.e, st)
        cur == IF Running(r) THEN LookUp(r, e.x) ELSE r
        new == IF e.plus /\ Running(cur) THEN Binary(cur, "add", cur.val, r.val)
               ELSE IF e.plus THEN cur ELSE r
    IN  IF Running(new) THEN WriteName(new, e.x, new.val) ELSE new

EvalField(st, e) ==
    LET o == Eval(e.o, st) IN IF Running(o) THEN Value(o, o.heap[ObjOf(o.val)]) ELSE o

EvalPut(st, e) ==
    LET r   == Eval(e.e, st)
        cur == EvalField(r, e)
        new == IF e.plus /\ Running(cur) THEN Binary(cur, "add", cur.val, r.val)
               ELSE IF e.plus THEN cur ELSE r
        o   == Eval(e.o, new)
    IN  IF Running(o) THEN WriteField(o, new.val) ELSE o

EvalNew(st, e) ==
    LET f == Eval(e.e, st)
    IN  IF Running(f) THEN Value([f EXCEPT !.heap = Append(@, f.val)], ObjVal(Len(f.heap) + 1)) ELSE f

EvalDeclare(st, e) ==
    LET v == Eval(e.e, st) IN IF Running(v) THEN Bound(v, e.x, v.val) ELSE v

\* eval_if_branch_body: only the block form has a scope of its own.
EvalBody(st, body) ==
    IF body.form = "expr" THEN Eval(body.e, st) ELSE EvalBlock(body.stmts, st)

\* The conditions in order; the first that holds, or the `else`.
EvalIf(st, e) ==
    LET step(acc, arm) ==
          IF acc.done THEN acc
          ELSE LET c == Eval(arm.c, acc.st)
               IN  IF Running(c) /\ c.val = 0 THEN [st |-> c, done |-> FALSE]
                   ELSE [st |-> IF Running(c) THEN EvalBody(c, arm.body) ELSE c, done |-> TRUE]
        r == FoldLeft(step, [st |-> st, done |-> FALSE], e.arms)
    IN  IF r.done THEN r.st
        ELSE IF e.else = <<>> THEN Value(r.st, VoidVal) ELSE EvalBody(r.st, Head(e.else))

\* The first arm whose pattern fits, in a scope with its binding; none: void.
\* (The block of a match statement's arm shares that scope, which cannot be seen.)
EvalMatch(st, e) ==
    LET on   == Eval(e.e, st)
        fits == {i \in DOMAIN e.arms : LET pat == e.arms[i].pat
                                       IN  IsCatchAll(pat) \/ pat.n = on.val}
        arm  == e.arms[Min(fits)]
        in   == PushScope(on)
        r    == EvalBody(IF arm.pat.p = "name" THEN Bound(in, arm.pat.x, on.val) ELSE in, arm.body)
    IN  IF ~Running(on) THEN on ELSE IF fits = {} THEN Value(on, VoidVal) ELSE PopScope(r)

EvalExpr(e, st) ==
    IF ~Running(st) THEN st
    ELSE CASE e.k = "lit"  -> Value(st, e.n)
           [] e.k = "name" -> LookUp(st, e.x)
           [] e.k = "call" -> LET a == EvalArgs(st, e.args) IN IF Running(a) THEN Answered(a, a.val) ELSE a
           [] e.k \in {"and", "or"}  -> EvalShortCircuit(st, e)
           [] e.k \in {"add", "div"} -> EvalBinOp(st, e)
           [] e.k = "set"   -> EvalSet(st, e)
           [] e.k = "put"   -> EvalPut(st, e)
           [] e.k = "get"   -> EvalField(st, e)
           [] e.k = "new"   -> EvalNew(st, e)
           [] e.k = "decl"  -> EvalDeclare(st, e)
           [] e.k = "if"    -> EvalIf(st, e)
           [] e.k = "match" -> EvalMatch(st, e)

\* How a loop goes on after its body: a break or a continue ends here.
AfterRound(st) ==
    [st EXCEPT !.sig = IF @ = "continue" THEN "ok" ELSE @,
               !.rounds = @ - 1]
LoopLeft(st) == IF st.sig = "break" THEN Value(Raised(st, "ok"), VoidVal) ELSE st

Rounds(s, st) ==
    LET c == IF s.s = "while" THEN Eval(s.c, st) ELSE Value(st, 1)
        r == AfterRound(EvalBlock(s.stmts, c))
    IN  IF ~Running(c) THEN c
        ELSE IF c.val = 0 THEN Value(c, VoidVal)
        ELSE IF st.rounds = 0 THEN Raised(st, "cut")
        ELSE IF Running(r) THEN Rounds(s, r) ELSE LoopLeft(r)

\* The items of a range are listed before the first round.
Walk(s, items, st) ==
    LET r == AfterRound(PopScope(InScope(s.stmts, Bound(PushScope(st), s.x, Head(items)))))
    IN  IF items = <<>> THEN Value(st, VoidVal)
        ELSE IF st.rounds = 0 THEN Raised(st, "cut")
        ELSE IF Running(r) THEN Walk(s, Tail(items), r) ELSE LoopLeft(r)

EvalFor(s, st) ==
    LET lo == Eval(s.lo, st)
        hi == Eval(s.hi, lo)
        n  == hi.val - lo.val + (IF s.incl THEN 1 ELSE 0)
    IN  IF Running(hi) THEN Walk(s, [i \in 1 .. n |-> lo.val + i - 1], hi) ELSE hi

EvalStmt(s, st) ==
    CASE s.s = "let"    -> LET v == EvalDeclare(st, s) IN IF Running(v) THEN Value(v, VoidVal) ELSE v
      [] s.s = "expr"   -> Eval(s.e, st)
      [] s.s = "return" -> LET v == IF s.res = <<>> THEN Value(st, VoidVal) ELSE Eval(Head(s.res), st)
                           IN  IF Running(v) THEN Raised(v, "return") ELSE v
      [] s.s \in {"if", "match"}   -> Eval(s.node, st)
      [] s.s \in {"while", "loop"} -> Rounds(s, st)
      [] s.s = "for"    -> EvalFor(s, st)
      [] s.s = "break"    -> Raised(st, "break")
      [] s.s = "continue" -> Raised(st, "continue")
      [] s.s = "with"   -> EvalBlock(s.stmts, st)     \* arenas mean nothing here

Eval(n, st) == IF "s" \in DOMAIN n THEN EvalStmt(n, st) ELSE EvalExpr(n, st)

\* call_function on the tree itself, with the answers its calls got: what can
\* be seen, the signal it ended with ("ok": it fell off its end), its value and
\* what the parameter's field holds.
Interpreted(fn, answers) ==
    LET r == EvalBlock(fn.stmts, [env |-> << "p" :> ObjVal(1) >>, heap |-> <<0>>, trace |-> <<>>, left |-> answers,
                                  rounds |-> MaxRounds, sig |-> "ok", val |-> VoidVal])
    IN  [trace |-> r.trace, sig |-> r.sig, val |-> r.val, field |-> r.heap[1]]
=============================================================================
