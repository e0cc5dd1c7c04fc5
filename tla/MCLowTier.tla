----------------------------- MODULE MCLowTier ------------------------------
(***************************************************************************)
(* Small function bodies around one Unique local `a`, and around one       *)
(* mutable borrow of `n` in `p`.                                           *)
(***************************************************************************)
EXTENDS LowTier

S(k, def, acc) == [k |-> k, def |-> def, uniq |-> FALSE, bare |-> FALSE, acc |-> acc, hid |-> <<>>,
                   esc |-> {}, bodies |-> <<>>, last |-> FALSE]
Nested(k, acc, bodies, complete) == [S(k, NoName, acc) EXCEPT !.bodies = bodies, !.last = complete]

Move(n) == <<[n |-> n, h |-> "move"]>>
Read(n) == <<[n |-> n, h |-> "read"]>>

Do(acc)   == S("expr", NoName, acc)
Jumping(k) == S(k, NoName, <<>>)

\* The statements about `a`: give it a value, take it, both, take it unless
\* that raises.
LetA   == [S("let", "a", <<>>) EXCEPT !.uniq = TRUE]
TakeA  == Do(Move("a"))
SetA   == S("assign", "a", <<>>)
RenewA == S("assign", "a", Move("a"))
TakeBoth == Do(Move("a") \o Move("a"))
TryTakeA(e) == [TakeA EXCEPT !.esc = {e}]
MaybeTakeA  == [Do(<<>>) EXCEPT !.hid = Move("a")]

\* The statements about `p` and `n`.
LetP == [S("let", "p", <<[n |-> "n", h |-> "mut"]>>) EXCEPT !.bare = TRUE]
SetP == [S("assign", "p", <<[n |-> "n", h |-> "mut"]>>) EXCEPT !.bare = TRUE]
UseP == Do(Read("p"))
UseN == Do(Read("n"))
SetN == S("assign", "n", <<>>)

If(b)         == Nested("if", <<>>, <<b>>, FALSE)
IfElse(b, c)  == Nested("if", <<>>, <<b, c>>, TRUE)
Match(g, b, c) == [Nested("match", <<>>, <<b, c>>, FALSE) EXCEPT !.def = "m", !.hid = g, !.esc = IF g = <<>> THEN {} ELSE {"fail"}]
While(acc, b) == Nested("while", acc, <<b>>, FALSE)
For(acc, b)   == [Nested("for", acc, <<b>>, FALSE) EXCEPT !.def = "i"]
Loop(b)       == Nested("loop", <<>>, <<b>>, FALSE)
With(b)       == Nested("with", <<>>, <<b>>, FALSE)
Using(e, b)   == [Nested("using", <<>>, <<b>>, FALSE) EXCEPT !.def = "r", !.esc = e]
Try(b)        == Nested("try", <<>>, <<b>>, FALSE)
TryCatch(b, c) == [Nested("try", <<>>, <<b, c>>, TRUE) EXCEPT !.def = "e"]
Deferred(acc) == S("defer", NoName, acc)

\* Bodies of one compound statement, from the steps and jumps given.
Loopers(B, acc) == { While(<<>>, b) : b \in B } \cup { While(acc, b) : b \in B }
                   \cup { For(acc, b) : b \in B } \cup { Loop(b) : b \in B }
Branching(B) == { If(b) : b \in B } \cup { IfElse(b, c) : b \in B, c \in B }
                \cup { Match(<<>>, b, c) : b \in B, c \in B }
Others(B) == { With(b) : b \in B } \cup { Using({}, b) : b \in B } \cup { Try(b) : b \in B }
             \cup { TryCatch(b, c) : b \in B, c \in B }

ASteps == { <<>>, <<TakeA>>, <<SetA>>, <<RenewA>>, <<TakeA, SetA>> }
Leaves(x) == { <<x, Jumping(k)>> : k \in Jumps }
ABodies == ASteps \cup Leaves(TakeA) \cup { <<Jumping("fail")>>, <<MaybeTakeA>>, <<TryTakeA("continue"), SetA>>, <<TryTakeA("panic"), SetA>>, <<Deferred(Move("a"))>>,
             <<Deferred(Move("a")), SetA>>, <<LetA, TakeA>>, <<TakeBoth>> }
ANested == { <<If(b), s>> : b \in {<<TakeA>>, <<SetA>>, <<TakeA, Jumping("break")>>, <<SetA, Jumping("continue")>>}, s \in {TakeA, SetA} }

MoveBodies ==
    { <<LetA, x, y>> : x \in Branching(ASteps \cup Leaves(TakeA)) \cup Others(ABodies)
                             \cup Loopers(ABodies \cup ANested, Read("a")), y \in {TakeA, RenewA, SetA} }
    \cup { <<LetA, While(Move("a"), b)>> : b \in ASteps }
    \cup { <<LetA, TakeA, x, TakeA>> : x \in {If(<<LetA>>), With(<<LetA>>), IfElse(<<SetA>>, <<LetA>>)} }
    \cup { <<LetA, Loop(<<x, y>>)>> : x \in Branching(ASteps \cup Leaves(TakeA)), y \in {TakeA, SetA, Jumping("break")} }

PSteps == { <<>>, <<UseP>>, <<UseN>>, <<SetN>>, <<SetP>>, <<UseN, SetP>>, <<UseN, UseP>>, <<LetP, UseN>> }
ForNext(b) == [For(<<>>, b) EXCEPT !.esc = {"fail"}]

BorrowBodies ==
    { <<LetP, x, y>> : x \in Branching(PSteps \cup Leaves(UseN)) \cup Others(PSteps \cup Leaves(UseN))
                            \cup Loopers(PSteps \cup Leaves(UseN), Read("p"))
                            \cup Loopers(PSteps, Read("n"))
                            \cup { Try(<<ForNext(b)>>) : b \in PSteps }, y \in {UseP, UseN} }

ScopeBodies ==
    LET B == { <<S("let", "x", <<>>), Do(Read("x"))>>, <<Do(Read("x"))>>,
               <<Deferred(Read("x")), S("let", "x", <<>>)>>,
               <<Match(Read("m"), <<Do(Read("x"))>>, <<>>)>>, <<Using({"fail"}, <<Do(Read("r"))>>)>>,
               <<S("let", "x", <<>>), Match(Read("m"), <<>>, <<>>)>>,
               <<S("let", "x", <<>>), Using({"fail"}, <<>>)>> }
    IN  { <<S("let", "x", <<>>), c, Do(Read("x"))>> :
            c \in Branching(B) \cup Others(B) \cup Loopers(B, Read("x")) }

NParam == {"n"}

SmallBodies == MoveBodies \cup BorrowBodies \cup ScopeBodies
=============================================================================
