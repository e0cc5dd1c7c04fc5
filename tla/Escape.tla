------------------------------- MODULE Escape -------------------------------
(***************************************************************************)
(* The arena colouring of sema/type_infer.rs, with the rules of            *)
(* tier_check.rs and name_resolution.rs that decide on the same bodies:    *)
(* which functions of module Tree the semantic passes let through.         *)
(*                                                                         *)
(* A type is [base, arena]: the arena block whose values it marks, or 0.   *)
(* Two bases fit everything: "any", a fresh variable or what cannot be a   *)
(* reference, and "unknown", which can (the code's Unknown is both).       *)
(* The state of the pass is                                                *)
(*   scopes  name -> type, innermost last                                  *)
(*   arenas  the open `with arena` blocks, innermost last                  *)
(*   next    how many were opened                                          *)
(*   ty      the type of what was inferred last                            *)
(*   ok      nothing was reported                                          *)
(*   lost    where a mark was lost (not in the code: see module Native)    *)
(***************************************************************************)
EXTENDS Tree, SequencesExt

Base(t)  == [base |-> t, arena |-> 0]
AnyType  == Base("any")
Unknown  == Base("unknown")
VoidType == Base("void")
IntType  == Base("int")

Typed(s, t)  == [s EXCEPT !.ty = t]
Reject(s)    == [s EXCEPT !.ok = FALSE]
Check(s, b)  == [s EXCEPT !.ok = @ /\ b]

\* A value of type t goes on as one of type `as`: how its mark was lost, if it had
\* one.  What is in a field of a marked struct may have one unknown to the pass.
Lost(s, t, as, how) ==
    [s EXCEPT !.lost = @ \cup (IF t.arena # 0 /\ t.arena # as.arena THEN {how} ELSE {})
                         \cup (IF t.base = "unknown" /\ as # t THEN {"field"} ELSE {})]

\* unify: a marked type fits only one with the same mark.
Open(t)          == t.base \in {"any", "unknown"}
Compatible(a, b) == Open(a) \/ Open(b) \/ a = b
Unify(s, a, b)   == Check(s, Compatible(a, b))
Expect(s, t)     == Unify(s, t, s.ty)

\* maybe_arena_ref: what is built here is marked with the innermost arena.
MaybeArenaRef(s, t) ==
    [base |-> t, arena |-> IF s.arenas = <<>> THEN 0 ELSE Last(s.arenas)]

Opened(s)        == [s EXCEPT !.scopes = Append(@, <<>>)]
Closed(s)        == [s EXCEPT !.scopes = Front(@)]
Known(s, x)      == {i \in DOMAIN s.scopes : x \in DOMAIN s.scopes[i]}
Declared(s, x, t) ==
    IF x \in DOMAIN Last(s.scopes) THEN Reject(s)
    ELSE [s EXCEPT !.scopes[Len(s.scopes)] = (x :> t) @@ @]

InferName(s, x) ==
    IF Known(s, x) = {} THEN Reject(Typed(s, AnyType))
    ELSE Typed(s, s.scopes[Max(Known(s, x))][x])

\* Mutant: any marked home will do, as if a block inside another had its mark.
EscapesUnmarked(home, v) == v.arena # 0 /\ home.arena = 0

\* check_assign_arena_escape: a marked value only into a home of the same mark.
Escapes(home, v) == v.arena # 0 /\ v.arena # home.arena

\* infer_block: in a scope, with the type of the last statement.  Infer is of an
\* expression or a statement.
RECURSIVE Infer(_, _)
InferBlock(stmts, s) ==
    Closed(FoldLeft(LAMBDA acc, x : Infer(x, acc), Typed(Opened(s), VoidType), stmts))

InferArgs(s, args) ==
    Typed(FoldLeft(LAMBDA acc, e : Expect(Infer(e, acc), IntType), s, args), IntType)

InferOperator(s, e) ==
    Typed(Expect(Infer(e.r, Expect(Infer(e.l, s), IntType)), IntType), IntType)

InferAssign(s, home, target, v) ==
    LET checked == Check(s, ~Escapes(home, v) /\ Compatible(target, v))
    IN  Typed(Lost(checked, v, IF v.base = "unknown" THEN VoidType ELSE v, "field"), VoidType)

InferSet(s, e) ==
    LET t == InferName(s, e.x)
        v == Infer(e.e, t)
    IN  InferAssign(v, t.ty, t.ty, v.ty)

\* A field has the type it was declared with, on a struct that is not marked;
\* on a marked one it is Unknown.
FieldType(t) ==
    IF t.arena # 0 /\ t.base = "B" THEN Unknown
    ELSE IF t.arena # 0 \/ Open(t) THEN AnyType
    ELSE IF t.base = "B" THEN Base("N") ELSE IntType

InferField(s, e) ==
    LET o == Infer(e.o, s)
    IN  Typed(o, FieldType(o.ty))

InferPut(s, e) ==
    LET o == Infer(e.o, s)
        v == Infer(e.e, o)
    IN  InferAssign(v, o.ty, FieldType(o.ty), v.ty)

InferNew(s, e) ==
    LET f == Expect(Infer(e.e, s), FieldType(Base(e.ty)))
    IN  Typed(f, MaybeArenaRef(f, e.ty))

InferDeclare(s, e) == LET v == Infer(e.e, s) IN Declared(v, e.x, v.ty)

InferBody(s, body) ==
    IF body.form = "expr" THEN Infer(body.e, s) ELSE InferBlock(body.stmts, s)

\* The branch of an `elif` is inferred and its type not looked at.
InferArm(s, a) == InferBody(Expect(Infer(a.c, s), IntType), a.body)
InferElse(first, elifs, e, value) ==
    LET last == InferBody(elifs, Head(e.else))
        kept == IF value THEN Lost(last, last.ty, first, "field") ELSE last
        both == first # VoidType /\ (value \/ last.ty # VoidType)
    IN  Typed(IF both THEN Expect(kept, first) ELSE kept, IF value THEN first ELSE VoidType)
InferElifs(s, e, value) ==
    LET lost(r) == IF value THEN Lost(r, r.ty, s.ty, "elif") ELSE r
        elifs   == FoldLeft(LAMBDA acc, a : lost(InferArm(acc, a)), s, Tail(e.arms))
    IN  IF e.else = <<>> THEN Typed(elifs, VoidType) ELSE InferElse(s.ty, elifs, e, value)
InferIf(s, e, value) == InferElifs(InferArm(s, Head(e.arms)), e, value)

\* check_match_exhaustiveness: of the two variants of the enum.
Exhaustive(e) ==
    \/ e.of = "str"
    \/ \E i \in DOMAIN e.arms : IsCatchAll(e.arms[i].pat)
    \/ \A n \in {0, 1} : \E i \in DOMAIN e.arms : e.arms[i].pat.n = n

\* The value of a `match` has the type of its last arm that has one.
InferCase(s, a) ==
    LET in == Opened(s)
    IN  Closed(InferBody(IF a.pat.p = "name" THEN Declared(in, a.pat.x, IntType) ELSE in, a.body))
InferCases(s, e) ==
    LET add(acc, r) == [s |-> r, tys |-> Append(acc.tys, r.ty)]
    IN  FoldLeft(LAMBDA acc, a : add(acc, InferCase(acc.s, a)), [s |-> s, tys |-> <<>>], e.arms)
InferMatch(s, e, value) ==
    LET last(tys)  == FoldLeft(LAMBDA a, t : IF t = VoidType THEN a ELSE t, VoidType, tys)
        as(r, ty)  == FoldLeft(LAMBDA a, t : Lost(a, t, ty, "arm"), Typed(r.s, ty), r.tys)
        result(r)  == IF value THEN as(r, last(r.tys)) ELSE Typed(r.s, VoidType)
    IN  result(InferCases(Check(Expect(Infer(e.e, s), IntType), Exhaustive(e)), e))

InferExpr(e, s) ==
    CASE e.k = "lit"  -> Typed(s, IntType)
      [] e.k = "name" -> InferName(s, e.x)
      [] e.k = "call" -> InferArgs(s, e.args)
      [] e.k \in {"and", "or", "add", "div"} -> InferOperator(s, e)
      [] e.k = "set"  -> InferSet(s, e)
      [] e.k = "put"  -> InferPut(s, e)
      [] e.k = "get"  -> InferField(s, e)
      [] e.k = "new"  -> InferNew(s, e)
      [] e.k = "decl" -> InferDeclare(s, e)
      [] e.k = "if"   -> InferIf(s, e, TRUE)
      [] e.k = "match" -> InferMatch(s, e, TRUE)

\* `with arena`: only in @tier(mid).
InferWith(stmts, s) ==
    LET n  == s.next + 1
        in == [s EXCEPT !.arenas = Append(@, n), !.next = n, !.ok = @ /\ s.tier = "mid"]
    IN  Typed([InferBlock(stmts, in) EXCEPT !.arenas = Front(@)], VoidType)

\* The body has a scope of its own, under that of the variable.
InferFor(f, s) ==
    LET ends == Expect(Infer(f.hi, Expect(Infer(f.lo, s), IntType)), IntType)
    IN  Typed(Closed(InferBlock(f.stmts, Declared(Opened(ends), f.x, IntType))), VoidType)

\* A `return` has no type of its own: it fits anything.
InferReturn(s, e) ==
    LET v == IF e = <<>> THEN Typed(s, VoidType) ELSE Infer(Head(e), s)
    IN  Typed(Expect(Lost(v, v.ty, Base(s.ret), "field"), Base(s.ret)), AnyType)

InferStmt(x, s) ==
    CASE x.s = "let"    -> Typed(InferDeclare(s, x), VoidType)
      [] x.s = "expr"   -> Infer(x.e, s)
      [] x.s = "return" -> InferReturn(s, x.res)
      [] x.s = "if"     -> InferIf(s, x.node, FALSE)
      [] x.s = "match"  -> InferMatch(s, x.node, FALSE)
      [] x.s = "while"  -> Typed(InferBlock(x.stmts, Expect(Infer(x.c, s), IntType)), VoidType)
      [] x.s = "loop"   -> Typed(InferBlock(x.stmts, s), VoidType)
      [] x.s = "for"    -> InferFor(x, s)
      [] x.s \in {"break", "continue"} -> Typed(s, VoidType)
      [] x.s = "with"   -> InferWith(x.stmts, s)

Infer(n, s) == IF "s" \in DOMAIN n THEN InferStmt(n, s) ELSE InferExpr(n, s)

\* infer_function_body: nothing is asked of the value of the last statement.
Analysed(fn) ==
    InferBlock(fn.stmts, [scopes |-> << "p" :> Base("N") >>, arenas |-> <<>>, next |-> 0, ty |-> VoidType,
                          ok |-> TRUE, lost |-> {}, tier |-> fn.tier, ret |-> fn.ret])
=============================================================================
