------------------------------- MODULE Syntax -------------------------------
(***************************************************************************)
(* The statement tree the passes of sema and the interpreter walk.         *)
(*                                                                         *)
(* A block is a sequence of statements.  A statement is a record:          *)
(*   k       its kind, one of Kinds                                        *)
(*   def     the name it binds or assigns, NoName when there is none       *)
(*   uniq    a `let` whose type or initialiser says Unique                 *)
(*   bare    its value is a borrow and nothing else: `let p = &mut n`      *)
(*   acc     the accesses of the expressions it carries, in order          *)
(*   hid     the accesses that no fact is collected for: inside an if, a   *)
(*           match or a block used as an expression, in the guard of an    *)
(*           arm, in the size of a `with`                                  *)
(*   esc     the signals its expressions may raise: a call that fails,     *)
(*           `x or break`, `x or continue`, `x or return`                  *)
(*   bodies  its blocks, in source order                                   *)
(*   last    it has an else, or a catch, which is then the last body       *)
(* An access is [n, h]: a name and how it is used -- "move" (the bare      *)
(* name), "read" (the receiver of an instance method), "shared" and "mut"  *)
(* (under & and &mut).  Everything else in an expression is left out.      *)
(*                                                                         *)
(* A statement is named by its path: the index in the function's block,    *)
(* then, for a nested one, the number of the body and the index in it.     *)
(***************************************************************************)
EXTENDS Naturals, Sequences, FiniteSets

Straight == {"let", "assign", "expr", "defer"}
Jumps    == {"return", "fail", "break", "continue"}
Branches == {"if", "match"}
Counted  == {"while", "for"}
Inlined  == {"with", "using", "unsafe"}
Kinds    == Straight \cup Jumps \cup Branches \cup Counted \cup Inlined \cup {"loop", "try"}

NoName == "-"

Borrowing == {"shared", "mut"}

RECURSIVE StmtAt(_, _)
StmtAt(block, p) ==
    IF Len(p) = 1 THEN block[p[1]]
    ELSE StmtAt(block[p[1]].bodies[p[2]], Tail(Tail(p)))

\* The block whose statements have paths prefix \o <<i>>.
BlockAt(block, prefix) ==
    IF prefix = <<>> THEN block
    ELSE StmtAt(block, SubSeq(prefix, 1, Len(prefix) - 1)).bodies[prefix[Len(prefix)]]

\* The names the expressions of a statement mention, and those they move.
NamesIn(acc) == { acc[i].n : i \in DOMAIN acc }
MovesIn(acc) == { acc[i].n : i \in { j \in DOMAIN acc : acc[j].h = "move" } }
=============================================================================
