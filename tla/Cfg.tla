-------------------------------- MODULE Cfg ---------------------------------
(***************************************************************************)
(* sema/cfg.rs: the control-flow graph of the body of a @tier(low)         *)
(* function, and the point graph sema/borrow_check.rs reads off it.        *)
(*                                                                         *)
(* A builder is [blocks, loops]: the blocks made so far, each a sequence   *)
(* of statement paths and a terminator [k, to], and the (header, exit)     *)
(* pairs of the loops being built, the innermost last.  A build returns    *)
(* [b, tail]: the builder and the block control falls out of, None when    *)
(* every path has left.                                                    *)
(***************************************************************************)
EXTENDS Syntax, SequencesExt

None == 0

Goto(t)      == [k |-> "goto", to |-> <<t>>]
Branch(ts)   == [k |-> "branch", to |-> ts]
Return       == [k |-> "return", to |-> <<>>]
Unreachable  == [k |-> "unreachable", to |-> <<>>]

NewBlock(b) == [b EXCEPT !.blocks = Append(@, [stmts |-> <<>>, term |-> Return])]
Newest(b)   == Len(b.blocks)

SetTerminator(b, id, t) == [b EXCEPT !.blocks[id].term = t]
PushStmt(b, id, p)      == [b EXCEPT !.blocks[id].stmts = Append(@, p)]

\* Joins the blocks of a set in one new successor; None when there are none.
Converge(b, points) ==
    IF points = {} THEN [b |-> b, tail |-> None]
    ELSE LET after == Newest(b) + 1
         IN  [b |-> FoldSet(LAMBDA p, c : SetTerminator(c, p, Goto(after)), NewBlock(b), points),
              tail |-> after]

\* Mutant: `continue` is taken for the exit of the loop.
JumpTermContinueLeaves(b, k) ==
    IF k \in {"return", "fail"} THEN Return
    ELSE IF b.loops = <<>> THEN Unreachable ELSE Goto(Last(b.loops).exit)

JumpTerm(b, k) ==
    IF k \in {"return", "fail"} THEN Return
    ELSE IF b.loops = <<>> THEN Unreachable
    ELSE Goto(IF k = "break" THEN Last(b.loops).exit ELSE Last(b.loops).header)

RECURSIVE BuildFrom(_, _, _, _, _), BuildBodies(_, _, _, _, _)

\* The bodies of s from the j-th on, each in a new block; `so` collects the
\* entries and the tails.
BuildBodies(b, s, here, j, so) ==
    IF j > Len(s.bodies) THEN [b |-> b, so |-> so]
    ELSE LET opened == NewBlock(b)
             entry  == Newest(opened)
             r      == BuildFrom(opened, s.bodies[j], here \o <<j>>, 1, entry)
         IN  BuildBodies(r.b, s, here, j + 1,
                 [entries |-> Append(so.entries, entry), tails |-> so.tails \cup ({r.tail} \ {None})])

BuildBranches(b, s, here, cur) ==
    LET r    == BuildBodies(b, s, here, 1, [entries |-> <<>>, tails |-> {}])
        skip == Newest(r.b) + 1
    IN  IF s.k = "match" \/ s.last
        THEN Converge(SetTerminator(r.b, cur, Branch(r.so.entries)), r.so.tails)
        ELSE Converge(SetTerminator(NewBlock(r.b), cur, Branch(Append(r.so.entries, skip))),
                      r.so.tails \cup {skip})

\* A loop: `header` is where the back edge goes; a conditional loop leaves
\* from it, an unconditional one only by `break`.
BuildLoop(b, s, here, cur) ==
    LET header  == Newest(b) + 1
        counted == s.k \in Counted
        entry   == IF counted THEN header + 1 ELSE header
        exit    == entry + 1
        opened  == IF counted
                   THEN SetTerminator(NewBlock(NewBlock(NewBlock(b))), header, Branch(<<entry, exit>>))
                   ELSE NewBlock(NewBlock(b))
        inside  == [SetTerminator(opened, cur, Goto(header)) EXCEPT
                        !.loops = Append(@, [header |-> header, exit |-> exit])]
        r       == BuildFrom(inside, s.bodies[1], here \o <<1>>, 1, entry)
        closed  == IF r.tail = None THEN r.b ELSE SetTerminator(r.b, r.tail, Goto(header))
    IN  [b |-> [closed EXCEPT !.loops = Front(@)], tail |-> exit]

\* The catch is entered from before the body; without one its block returns.
BuildTry(b, s, here, cur) ==
    LET body   == Newest(b) + 1
        catch  == body + 1
        opened == SetTerminator(NewBlock(NewBlock(b)), cur, Branch(<<body, catch>>))
        r      == BuildFrom(opened, s.bodies[1], here \o <<1>>, 1, body)
        c      == IF s.last THEN BuildFrom(r.b, s.bodies[2], here \o <<2>>, 1, catch)
                  ELSE [b |-> r.b, tail |-> None]
    IN  Converge(c.b, {r.tail, c.tail} \ {None})

BuildStmt(b, s, here, cur) ==
    CASE s.k \in Straight -> [b |-> b, tail |-> cur]
      [] s.k \in Jumps    -> [b |-> SetTerminator(b, cur, JumpTerm(b, s.k)), tail |-> None]
      [] s.k \in Branches -> BuildBranches(b, s, here, cur)
      [] s.k \in Inlined  -> BuildFrom(b, s.bodies[1], here \o <<1>>, 1, cur)
      [] s.k \in Counted \cup {"loop"} -> BuildLoop(b, s, here, cur)
      [] s.k = "try"      -> BuildTry(b, s, here, cur)

\* The statements of a block from the i-th on; what follows a statement that
\* never falls through is not in the graph at all.
BuildFrom(b, block, at, i, cur) ==
    IF cur = None \/ i > Len(block) THEN [b |-> b, tail |-> cur]
    ELSE LET here == Append(at, i)
             r    == BuildStmt(PushStmt(b, cur, here), block[i], here, cur)
         IN  BuildFrom(r.b, block, at, i + 1, r.tail)

Build(body) ==
    LET r == BuildFrom(NewBlock([blocks |-> <<>>, loops |-> <<>>]), body, <<>>, 1, 1)
    IN  r.b.blocks

-----------------------------------------------------------------------------
(* Points: the statements of the graph, and what may follow each.          *)

AllPoints(cfg) == UNION { ToSet(cfg[b].stmts) : b \in DOMAIN cfg }

\* The first statements met from a block, through empty blocks.
RECURSIVE FirstPointsOf(_, _, _)
FirstPointsOf(cfg, id, seen) ==
    IF id \in seen THEN {}
    ELSE IF cfg[id].stmts # <<>> THEN {cfg[id].stmts[1]}
    ELSE UNION { FirstPointsOf(cfg, t, seen \cup {id}) : t \in ToSet(cfg[id].term.to) }

SuccPoints(cfg, p) ==
    LET b == CHOOSE b \in DOMAIN cfg : p \in ToSet(cfg[b].stmts)
        i == CHOOSE i \in DOMAIN cfg[b].stmts : cfg[b].stmts[i] = p
    IN  IF i < Len(cfg[b].stmts) THEN {cfg[b].stmts[i + 1]}
        ELSE UNION { FirstPointsOf(cfg, t, {}) : t \in ToSet(cfg[b].term.to) }

PointGraph(cfg) == [p \in AllPoints(cfg) |-> SuccPoints(cfg, p)]
=============================================================================
