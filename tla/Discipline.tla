------------------------------ MODULE Discipline ------------------------------
(***************************************************************************)
(* A discipline the functions of Grammar keep: which instructions may give *)
(* up or leave a loop, and, for every piece of a function, the brackets it *)
(* leaves open, whether it consumed something and what it knows of the     *)
(* tokens ahead.  It is computed from Grammar and has no parameters: what  *)
(* the assumptions say of it is evaluated in full, and ParserProofs builds *)
(* on them.                                                                *)
(***************************************************************************)
EXTENDS Parser

Front(s) == SubSeq(s, 1, Len(s) - 1)
Final(s) == s[Len(s)]
Elements(s) == {s[i] : i \in DOMAIN s}

-----------------------------------------------------------------------------
(* The pieces of the functions: what an instruction may put on the stack.  *)

Round == {OrElse, StructLit} \cup {AfterOp(t) : t \in DOMAIN Power}
Arms(x) == {x.arms[i][2] : i \in DOMAIN x.arms} \cup {x.otherwise}

\* Pieces whose failure is the failure of the instruction.
Through(x) ==
    CASE x.op \in {"if", "ifval"} -> {x.then, x.else}
      [] x.op = "switch" -> Arms(x)
      [] x.op = "call" -> {Rule(x.f)}
      [] x.op = "bp" -> {<<Call("prefix"), Infix(x.min)>>}
      [] x.op = "infix" -> Round
      [] x.op \in {"loop", "advancing", "nsl"} -> {x.body}
      [] x.op = "catch" -> {x.then}
      [] x.op = "item" -> {<<Call("item")>>}
      [] x.op = "scan" -> {<<Adv, Error>>}
      [] OTHER -> {}
Shielded(x) == IF x.op \in {"catch", "speculate"} THEN {x.body} ELSE {}
Parts(x) == Through(x) \cup Shielded(x)

Depth == 40
Pieces[n \in 0..Depth] ==
    IF n = 0 THEN {Program}
    ELSE LET known == Pieces[n - 1] IN known \cup UNION {Parts(x) : x \in UNION {Elements(s) : s \in known}}
Sequences == Pieces[Depth]
Instructions == UNION {Elements(s) : s \in Sequences}

GivingUp[n \in 0..Depth] ==
    IF n = 0 THEN {x \in Instructions : \/ x.op \in {"expect", "quiet", "fail"}
                                        \/ x.op = "gclose" /\ x.how \in {"expect", "fail"}}
    ELSE LET known == GivingUp[n - 1]
         IN known \cup {x \in Instructions : \E s \in Through(x) : Elements(s) \cap known # {}}
MayFail == GivingUp[Depth]

Leaving[n \in 0..Depth] ==
    IF n = 0 THEN {x \in Instructions : x.op \in {"break", "item"}}
    ELSE LET known == Leaving[n - 1]
         IN known \cup {x \in Instructions : x.op # "loop" /\ \E s \in Through(x) : Elements(s) \cap known # {}}
MayBreak == Leaving[Depth]

\* The instructions a speculation that remembers its misses may come to, what failures lead to left out.
Attempted == {x \in Instructions : x.op = "speculate" /\ x.memo}
Within[n \in 0..Depth] ==
    IF n = 0 THEN {x.body : x \in Attempted}
    ELSE LET known == Within[n - 1]
         IN known \cup UNION {IF x.op = "catch" THEN {x.body} ELSE Parts(x) : x \in UNION {Elements(s) : s \in known}}
Careful == {x \in UNION {Elements(s) : s \in Within[Depth]} :
              x.op \in {"advance", "expect", "eat", "if", "switch", "call", "loop", "catch", "gclose", "speculate"}
              /\ x # GClose("fail") /\ (x.op = "speculate" => x.memo)}

Kinds == {"advance", "expect", "quiet", "eat", "noted", "close", "emit", "fail", "if", "switch", "val", "note", "ifval",
          "call", "bp", "infix", "loop", "break", "skip", "catch", "advancing", "nsl", "gclose", "speculate", "scan",
          "item", "made"}
ASSUME Closed ==
    /\ Program \in Seq(Instructions)
    /\ \A x \in Instructions :
          /\ x.op \in Kinds /\ Parts(x) \subseteq Seq(Instructions)
          /\ x.op = "advance" => x = Adv
          /\ x.op = "emit" => x = Error
          /\ x.op = "nsl" => x.nsl \in BOOLEAN
          /\ x.op = "speculate" => x.memo \in BOOLEAN
          /\ x.op = "scan" => x = LambdaType
          /\ x.op = "switch" => DOMAIN x.arms \subseteq Nat
    /\ {Adv, Error} \subseteq Instructions

\* An instruction may give up, or leave the loop it stands in, if what it puts on the stack may.
ASSUME Climbing ==
  /\ MayFail \cup MayBreak \subseteq Instructions
  /\ ({Adv, Error, LambdaType} \cup Elements(Program)) \cap (MayFail \cup MayBreak) = {}
  /\ \A x \in Instructions :
        /\ x.op \in {"expect", "quiet", "fail", "nsl"} => x \in MayFail
        /\ x.op = "gclose" => x.how \in {"emit", "expect", "hope"} \/ x = GClose("fail")
        /\ x.op = "gclose" /\ x.how \in {"expect", "fail"} => x \in MayFail
        /\ (\E s \in Through(x) : Elements(s) \cap MayFail # {}) => x \in MayFail
        /\ x.op \in {"break", "item"} => x \in MayBreak
        /\ x.op # "loop" /\ (\E s \in Through(x) : Elements(s) \cap MayBreak # {}) => x \in MayBreak
        /\ x.op \in {"catch", "advancing", "nsl", "speculate"} => Elements(x.body) \cap MayBreak = {}

\* Nothing is left of an attempt at a list of arguments but by its end, or after something was reported.
GuardedTo(s, n) == \A i \in 1..n : s[i] \in Careful \/ \E j \in 1..i : s[j].op = "emit"
Guarded(s) == GuardedTo(s, Len(s))
ASSUME Attempts ==
    /\ Careful \subseteq Instructions
    /\ \A x \in Careful :
          /\ x # GClose("fail")
          /\ x.op \in {"advance", "expect", "eat", "if", "switch", "call", "loop", "catch", "gclose", "speculate"}
          /\ x.op = "speculate" => x.memo
          /\ x.op = "catch" => Guarded(x.body)
          /\ x.op \in {"if", "switch", "call", "loop"} => \A s \in Through(x) : Guarded(s)
    /\ \A x \in Instructions :
          x.op = "speculate" /\ x.memo =>
              LET n == Len(x.body)
              IN /\ n > 1 /\ x.body[n] = GClose("fail") /\ GuardedTo(x.body, n - 1)
                 /\ x.body[n - 1].op = "loop" /\ x.body[n - 1].stop = {">", ">>"}

\* No place has the name of what Undo notes.
ASSUME Places == \A x \in Instructions : x.op \in {"quiet", "eat", "noted"} => x.place # "abandoned"

-----------------------------------------------------------------------------
(* What is known at a point of a piece, relative to where the function it  *)
(* belongs to began.                                                       *)

\* kind: "dead" where something was reported; nest: the brackets open, as in Parser; low: so many
\* tokens were consumed at least; look: the classes of the tokens ahead, as far as they are known;
\* mode: "tight" where an expression must stay inside the head it belongs to, with room for so many
\* brackets, "bare" where none may stand, "loose" after a bracket that keeps a restriction in force;
\* sp: whether failing ends a speculation; out: where leaving the loop leads to.
Start == [kind |-> "live", nest |-> << >>, low |-> 0, look |-> << >>, mode |-> "free", room |-> 0,
          sp |-> FALSE, out |-> {}]
Facts == [kind : {"live", "dead"}, nest : Seq(Closing), low : Nat, look : Seq(SUBSET STRING),
          mode : {"free", "tight", "bare", "loose"}, room : Nat, sp : BOOLEAN,
          out : SUBSET [nest : Seq(Closing), low : Nat, loose : BOOLEAN]]

NestedIn(n, t) ==
    IF t \in Opening THEN <<Partner[t]>> \o n
    ELSE IF t \in Closing THEN (IF n # << >> /\ n[1] = t THEN Tail(n) ELSE <<t>> \o n)
    ELSE n
Blind(f) == [f EXCEPT !.look = << >>]
Taken(f, t) == [f EXCEPT !.nest = NestedIn(f.nest, t), !.low = @ + 1, !.look = << >>]
Roomy(f) == f.mode = "tight" => Len(f.nest) <= f.room \/ f.nest[1] = "}"
Inner(f) == [f EXCEPT !.nest = << >>, !.low = 0, !.room = 0, !.sp = FALSE, !.out = {},
                      !.mode = IF Roomy(f) THEN @ ELSE "bare"]
Alone(f) == [f EXCEPT !.sp = FALSE, !.out = {}]

\* What the instruction x puts on the stack at f, and what is known where that begins.
Begins(x, f) ==
    CASE x.op = "if" -> {<<x.then, [f EXCEPT !.look = x.look]>>, <<x.else, f>>}
      [] x.op = "switch" -> {<<x.arms[i][2], [f EXCEPT !.look = <<x.arms[i][1]>>]>> : i \in DOMAIN x.arms}
                            \cup {<<x.otherwise, f>>}
      [] x.op = "ifval" -> {<<x.then, f>>, <<x.else, f>>}
      [] x.op \in {"call", "bp"} -> {<<s, Inner(f)>> : s \in Through(x)}
      [] x.op = "infix" -> {<<OrElse, Blind(f)>>, <<StructLit, [f EXCEPT !.look = <<{"{"}>>]>>}
                           \cup {<<AfterOp(t), [Blind(f) EXCEPT !.nest = NestedIn(f.nest, t)]>> : t \in DOMAIN Power}
      [] x.op = "loop" -> {<<x.body, [Blind(f) EXCEPT !.sp = FALSE, !.out = {[nest |-> f.nest, low |-> f.low, loose |-> f.mode = "loose"]}]>>}
      [] x.op = "catch" -> {<<x.body, Alone(f)>>}
      [] x.op = "advancing" -> {<<x.body, [Alone(f) EXCEPT !.low = 0]>>}
      [] x.op = "speculate" -> {<<x.body, [Alone(f) EXCEPT !.sp = TRUE]>>}
      [] x.op = "nsl" -> {<<x.body, [Alone(f) EXCEPT !.room = Len(f.nest), !.mode = IF @ = "loose" THEN @ ELSE "tight"]>>}
      [] x.op = "item" -> {<<<<Call("item")>>, f>>}
      [] OTHER -> {}
Stays(s, f) == IF Elements(s) \cap MayBreak = {} THEN [f EXCEPT !.out = {}] ELSE f
Enters(x, f) == {<<b[1], Stays(b[1], b[2])>> : b \in Begins(x, f)}

\* What is known of the caller when what x put on the stack has ended in e.
Returned(x, f, e) ==
    CASE x.op \in {"call", "bp"} -> [e EXCEPT !.nest = e.nest \o f.nest, !.low = f.low + e.low, !.look = << >>]
      [] x.op = "advancing" -> [e EXCEPT !.low = f.low + e.low, !.look = << >>]
      [] OTHER -> e

\* The functions that consume something or report it.
Consuming == {"type", "typeBase", "pattern", "orPattern", "single", "stmt", "arm", "prefix", "block", "branch",
              "param", "method", "member", "variant", "variantField", "traitItem", "methodItem", "attrArgs", "attrArg"}

Joined(f, ends) ==
    LET live == {e \in ends : e.kind = "live"}
        sure == {e \in live : e.mode # "loose"}
        e == CHOOSE g \in live : TRUE
    IN IF live = {} THEN [f EXCEPT !.kind = "dead"]
       ELSE [f EXCEPT !.nest = e.nest, !.low = Min({g.low : g \in live}),
                      !.look = IF Cardinality({g.look : g \in live}) = 1 THEN e.look ELSE << >>,
                      !.mode = IF sure = {} THEN "loose" ELSE @]

\* What is known before each instruction of a piece and at its end.
Flow[s \in Seq(Instructions), f \in Facts] ==
    LET x == s[1]
        Some == CHOOSE t \in x.toks : TRUE
        Ends == {Returned(x, f, Final(Flow[b[1], b[2]])) : b \in Enters(x, f)}
        next == CASE f.kind = "dead" -> f
                  [] \/ x.op \in {"emit", "fail", "break", "skip"}
                     \/ x.op = "quiet" /\ x.toks = {} -> [f EXCEPT !.kind = "dead"]
                  [] x.op = "advance" -> [Taken(f, CHOOSE t \in f.look[1] : TRUE) EXCEPT !.look = Tail(f.look)]
                  [] x.op \in {"expect", "quiet", "close"} -> Taken(f, Some)
                  [] x.op = "eat" -> IF x.place = "" THEN Blind(f) ELSE Taken(f, Some)
                  [] x.op = "noted" -> IF x.place = "second (" THEN Blind(f) ELSE [Taken(f, Some) EXCEPT !.mode = "loose"]
                  [] x.op \in {"gclose", "scan", "loop", "infix", "item", "speculate"} -> Blind(f)
                  [] x.op \in {"val", "note", "made"} -> f
                  [] x.op = "call" -> [Blind(f) EXCEPT !.low = @ + (IF x.f \in Consuming THEN 1 ELSE 0)]
                  [] x.op = "bp" -> [Blind(f) EXCEPT !.low = @ + 1]
                  [] OTHER -> Joined(f, Ends)
    IN IF s = << >> THEN <<f>> ELSE <<f>> \o Flow[Tail(s), next]

Entries[n \in 0..Depth] ==
    IF n = 0 THEN {<<Program, Start>>}
    ELSE LET known == Entries[n - 1]
         IN known \cup UNION {LET at == Flow[e[1], e[2]]
                              IN UNION {IF at[i].kind = "live" THEN Enters(e[1][i], at[i]) ELSE {} : i \in DOMAIN e[1]} : e \in known}
Typed == {[seq |-> e[1], at |-> Flow[e[1], e[2]]] : e \in Entries[Depth]}

-----------------------------------------------------------------------------
(* The discipline.                                                         *)

\* What holds at a holds at b.
Leads(a, b) ==
    \/ a.kind = "dead"
    \/ /\ a.kind = "live" /\ b.kind = "live" /\ a.nest = b.nest /\ b.low <= a.low
       /\ b.look \in {<< >>, a.look}
       /\ b.mode = "loose" => a.mode = "loose"

Plain(t) == t \notin Opening \cup Closing \cup {"eof"}
Takes(f, S, look, g) ==
    \A t \in S : /\ t # "eof"
                 /\ t \in Closing => f.nest # << >> /\ f.nest[1] = t
                 /\ Leads([Taken(f, t) EXCEPT !.look = look], g)
Runs(f, x, g) ==
    \A b \in Enters(x, f) : \E T \in Typed : T.seq = b[1] /\ T.at[1] = b[2] /\ Leads(Returned(x, f, Final(T.at)), g)
Exits(f) == \E o \in f.out : o.nest = f.nest /\ o.low <= f.low /\ (o.loose => f.mode = "loose")

\* x may stand between f and g.
Step(f, x, g) ==
    /\ x.op = "advance" => f.look # << >> /\ Takes(f, f.look[1], Tail(f.look), g)
    /\ x.op \in {"expect", "quiet", "close"} => Takes(f, x.toks, << >>, g)
    /\ x.op = "quiet" => x.place \in KnownSilent
    /\ x.op = "eat" => IF x.place = "" THEN Leads(Blind(f), g) /\ \A t \in x.toks : Plain(t)
                       ELSE x.place \in KnownSilent /\ Takes(f, x.toks, << >>, g)
    /\ x.op = "noted" => IF x.place = "second (" THEN Leads(Blind(f), g)
                         ELSE /\ f.look # << >> /\ f.look[1] \subseteq x.toks /\ x.place \in {"?.(", "sized ("}
                              /\ Takes([f EXCEPT !.mode = "loose"], x.toks, << >>, g)
    /\ x.op = "fail" => f.sp
    /\ x.op = "gclose" => Leads(Blind(f), g) /\ (x.how = "fail" => f.sp)
    /\ x.op # "skip"
    /\ x.op \in {"val", "note", "made"} => Leads(f, g)
    /\ x.op = "scan" => Leads(Blind(f), g)
    /\ x.op \in {"if", "switch", "ifval", "call", "bp", "catch", "nsl"} => Runs(f, x, g)
    /\ x.op = "advancing" => Runs(f, x, g) /\ (g.kind = "live" => f.low < g.low)
    /\ x.op = "speculate" => Runs(f, x, g) /\ Leads(Blind(f), g)
    /\ x.op \in {"loop", "infix", "item"} => Runs(f, x, Blind(f)) /\ Leads(Blind(f), g)
    /\ x.op = "infix" => f.mode # "bare" /\ Roomy(f)
    /\ x.op \in {"break", "item"} => Exits(f)

ASSUME Disciplined ==
    \A T \in Typed : \A i \in DOMAIN T.seq : T.at[i].kind = "live" => Step(T.at[i], T.seq[i], T.at[i + 1])

\* What is known is of one kind all through a piece.
ASSUME Uniform ==
    \A T \in Typed :
        /\ T.seq \in Seq(Instructions) /\ T.at \in Seq(Facts) /\ Len(T.at) = Len(T.seq) + 1
        /\ \A i \in DOMAIN T.at : /\ T.at[i].sp = T.at[1].sp /\ T.at[i].out = T.at[1].out /\ T.at[i].room = T.at[1].room
                                 /\ T.at[i].mode \in {T.at[1].mode, "loose"}
        /\ T.at[1].out # {} => \A i \in DOMAIN T.seq : T.seq[i].op # "loop"
        /\ T.at[1].kind = "live"

ASSUME Operators == DOMAIN Power \cap Closing = {}

ASSUME Complete ==
    \E T \in Typed : T.seq = Program /\ T.at[1] = Start /\ Final(T.at).kind = "live" /\ Final(T.at).nest = << >>
===============================================================================
