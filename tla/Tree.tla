-------------------------------- MODULE Tree --------------------------------
(***************************************************************************)
(* ast/expressions.rs and ast/statements.rs, as far as the LLVM emitter    *)
(* goes: the trees of the functions it translates.                         *)
(*                                                                         *)
(* A function is [tier, ret, stmts]: `ret` is "int", "void", "N" or "B".   *)
(* Its one parameter `p` holds an N of the collector's heap.  The two      *)
(* structs are N, with a field of type int, and B, whose field is an N.    *)
(* An int stands for an int or a bool (0: false), an enum value is the     *)
(* number of its variant, a string that of its literal.  A call is one     *)
(* of a function outside the tree, which answers as it likes: the sequence *)
(* of the calls and their arguments is what can be seen of a run.          *)
(***************************************************************************)
EXTENDS Integers, Sequences

\* Expressions.
Lit(n)           == [k |-> "lit", n |-> n]
Name(x)          == [k |-> "name", x |-> x]
Call(args)       == [k |-> "call", args |-> args]
Op(op, l, r)     == [k |-> op, l |-> l, r |-> r]      \* "add", "div", "and", "or"
SetTo(x, e)      == [k |-> "set", x |-> x, e |-> e, plus |-> FALSE]
AddTo(x, e)      == [k |-> "set", x |-> x, e |-> e, plus |-> TRUE]
FieldTo(o, e)    == [k |-> "put", o |-> o, e |-> e, plus |-> FALSE]
FieldAdd(o, e)   == [k |-> "put", o |-> o, e |-> e, plus |-> TRUE]
Field(o)         == [k |-> "get", o |-> o]
New(ty, e)       == [k |-> "new", ty |-> ty, e |-> e]
Declare(x, e)    == [k |-> "decl", x |-> x, e |-> e]

\* `if` and `match`, as expressions and as statements.  An arm of `if` is
\* [c, body]; `else` is a sequence of at most one body.  An arm of `match` is
\* [pat, body]; a pattern is one variant or literal, or a catch-all: `_`, or a
\* name that binds the value.
Exactly(n)       == [p |-> "lit", n |-> n]
Wildcard         == [p |-> "any"]
Binding(x)       == [p |-> "name", x |-> x]
Arm(c, body)     == [c |-> c, body |-> body]
Case(pat, body)  == [pat |-> pat, body |-> body]
IfOf(arms, else) == [k |-> "if", arms |-> arms, else |-> else]
MatchOf(of, e, arms) == [k |-> "match", of |-> of, e |-> e, arms |-> arms]   \* of: "enum", "str"

\* The body of a branch or an arm: `then e` or `=> e`, or a block.
Plain(e)         == [form |-> "expr", e |-> e]
Block(stmts)     == [form |-> "block", stmts |-> stmts]

\* Statements.
Let(x, e)        == [s |-> "let", x |-> x, e |-> e]
Do(e)            == [s |-> "expr", e |-> e]
Return(e)        == [s |-> "return", res |-> <<e>>]
ReturnVoid       == [s |-> "return", res |-> <<>>]
If(arms, else)   == [s |-> "if", node |-> IfOf(arms, else)]
Match(of, e, arms) == [s |-> "match", node |-> MatchOf(of, e, arms)]
While(c, stmts)  == [s |-> "while", c |-> c, stmts |-> stmts]
Loop(stmts)      == [s |-> "loop", stmts |-> stmts]
For(x, lo, hi, incl, stmts) ==
    [s |-> "for", x |-> x, lo |-> lo, hi |-> hi, incl |-> incl, stmts |-> stmts]
Break            == [s |-> "break"]
Continue         == [s |-> "continue"]
With(stmts)      == [s |-> "with", stmts |-> stmts]

Function(tier, ret, stmts) == [tier |-> tier, ret |-> ret, stmts |-> stmts]

IsCatchAll(pat) == pat.p # "lit"
=============================================================================
