----------------------------- MODULE ParserProofs -----------------------------
(***************************************************************************)
(* What the call stack of Parser looks like whatever the files: every      *)
(* failure is caught, every loop left is there, and a ban on struct        *)
(* literals is put back.  Then what is known along that stack of the       *)
(* brackets open and the tokens ahead, and how the knowledge composes;     *)
(* ParserSoundProofs shows that every step keeps it.                       *)
(***************************************************************************)
EXTENDS Discipline, SequenceTheorems, WellFoundedInduction, TLAPS

Sfx(t, k) == SubSeq(t, k + 1, Len(t))

\* What may be on the call stack besides instructions.
Backs == [op : {"restore"}, nsl : BOOLEAN, head : BOOLEAN, open : Nat, failed : BOOLEAN]
Handlers == [op : {"caught"}, then : Seq(Instructions \cup Backs)]
Happenings == {"pool type", "abandoned"} \cup {x.place : x \in {y \in Instructions : y.op \in {"quiet", "eat", "noted"}}}
Saves == [op : {"mark", "undo"}, memo : BOOLEAN, pos : Nat, errs : BOOLEAN, events : SUBSET Happenings, nest : Seq(Closing)]
Guards == [op : {"guard"}, from : Nat]
Growns == [op : {"grown"}, was : BOOLEAN]
ScanParts == {"name", "path", "args", "post"}
Scans == [op : {"scan"}, part : ScanParts, at : Nat, depth : Int]
Elems == Instructions \cup Backs \cup Handlers \cup Saves \cup Guards \cup Growns \cup Scans

-----------------------------------------------------------------------------
(* Sequences.                                                              *)

LEMMA LeastIs == ASSUME NEW S, S \subseteq Nat, S # {} PROVE Min(S) \in S /\ \A y \in S : Min(S) <= y
<1> DEFINE R == OpToRel(<, Nat)
<1>1. IsWellFoundedOn(R, Nat)
  BY NatLessThanWellFounded
<1>2. \A y, z \in Nat : <<y, z>> \in R <=> y < z
  BY DEF OpToRel
<1> HIDE DEF R
<1>3. PICK x \in S : \A y \in S : ~(<<y, x>> \in R)
  BY <1>1, WFMin
<1>4. ASSUME NEW y \in S PROVE x <= y
  <2>1. x \in Nat /\ y \in Nat
    OBVIOUS
  <2>2. ~(y < x)
    BY <1>2, <1>3, <2>1
  <2> QED
    BY <2>1, <2>2
<1> QED
  BY <1>4 DEF Min

LEMMA SfxIs ==
  ASSUME NEW S, NEW t \in Seq(S), NEW k \in 0..Len(t)
  PROVE  /\ Sfx(t, k) \in Seq(S) /\ Len(Sfx(t, k)) = Len(t) - k
         /\ \A i \in 1..(Len(t) - k) : Sfx(t, k)[i] = t[i + k]
<1>1. \A i \in (k + 1)..Len(t) : t[i] \in S
  BY ElementOfSeq
<1> QED
  BY <1>1, SubSeqProperties DEF Sfx

LEMMA CatIs ==
  ASSUME NEW S, NEW s \in Seq(S), NEW t \in Seq(S)
  PROVE  /\ s \o t \in Seq(S) /\ Len(s \o t) = Len(s) + Len(t)
         /\ \A i \in 1..Len(s) : (s \o t)[i] = s[i]
         /\ \A i \in 1..Len(t) : (s \o t)[i + Len(s)] = t[i]
         /\ \A i \in (Len(s) + 1)..(Len(s) + Len(t)) : (s \o t)[i] = t[i - Len(s)]
BY ConcatProperties

LEMMA TailIs ==
  ASSUME NEW S, NEW t \in Seq(S), t # << >>
  PROVE  /\ Tail(t) = Sfx(t, 1) /\ Len(t) >= 1 /\ t[1] \in S /\ t = <<t[1]>> \o Tail(t)
         /\ Tail(t) \in Seq(S) /\ Len(Tail(t)) = Len(t) - 1 /\ \A i \in 1..(Len(t) - 1) : Tail(t)[i] = t[i + 1]
<1>1. Tail(t) = Sfx(t, 1)
  BY TailIsSubSeq DEF Sfx
<1>2. Len(t) >= 1 /\ t[1] \in S
  BY EmptySeq, LenProperties, ElementOfSeq
<1>3. t = <<t[1]>> \o Tail(t)
  BY HeadTailProperties
<1> QED
  BY <1>1, <1>2, <1>3, SfxIs

LEMMA OneIs == ASSUME NEW S, NEW x \in S PROVE <<x>> \in Seq(S) /\ Len(<<x>>) = 1 /\ <<x>>[1] = x
OBVIOUS

-----------------------------------------------------------------------------
(* What the elements of the call stack are.                                *)

LEMMA ElemKinds ==
  ASSUME NEW x \in Elems
  PROVE  /\ x.op \in Kinds \ {"scan"} => x \in Instructions
         /\ x.op = "scan" => x \in Instructions \/ x \in Scans
         /\ x.op = "restore" => x \in Backs
         /\ x.op = "caught" => x \in Handlers
         /\ x.op \in {"mark", "undo"} => x \in Saves
         /\ x.op = "guard" => x \in Guards
         /\ x.op = "grown" => x \in Growns
         /\ x \in Instructions => x.op \in Kinds
<1>1. x \in Instructions => x.op \in Kinds
  BY Closed
<1>2. x \in Backs => x.op = "restore"
  BY DEF Backs
<1>3. x \in Handlers => x.op = "caught"
  BY DEF Handlers
<1>4. x \in Saves => x.op \in {"mark", "undo"}
  BY DEF Saves
<1>5. x \in Guards => x.op = "guard"
  BY DEF Guards
<1>6. x \in Growns => x.op = "grown"
  BY DEF Growns
<1>7. x \in Scans => x.op = "scan"
  BY DEF Scans
<1> QED
  BY <1>1, <1>2, <1>3, <1>4, <1>5, <1>6, <1>7 DEF Elems, Kinds

LEMMA ThroughIs ==
  ASSUME NEW x \in Instructions, NEW s \in Through(x)
  PROVE  /\ s \in Seq(Instructions)
         /\ Elements(s) \cap MayFail # {} => x \in MayFail
         /\ x.op # "loop" /\ Elements(s) \cap MayBreak # {} => x \in MayBreak
BY Closed, Climbing DEF Parts

LEMMA ThroughOf ==
  ASSUME NEW x \in Instructions
  PROVE  /\ x.op \in {"if", "ifval"} => x.then \in Through(x) /\ x.else \in Through(x)
         /\ x.op = "switch" => x.otherwise \in Through(x) /\ \A i \in DOMAIN x.arms : x.arms[i][2] \in Through(x)
         /\ x.op = "call" => Rule(x.f) \in Through(x)
         /\ x.op = "bp" => <<Call("prefix"), Infix(x.min)>> \in Through(x)
         /\ x.op = "infix" => OrElse \in Through(x) /\ StructLit \in Through(x)
                              /\ \A t \in DOMAIN Power : AfterOp(t) \in Through(x)
         /\ x.op \in {"loop", "advancing", "nsl"} => x.body \in Through(x)
         /\ x.op = "catch" => x.then \in Through(x) /\ x.body \in Seq(Instructions)
         /\ x.op = "item" => <<Call("item")>> \in Through(x)
         /\ x.op = "speculate" => x.body \in Seq(Instructions)
<1>1. x.op \in {"if", "ifval"} => x.then \in Through(x) /\ x.else \in Through(x)
  BY DEF Through
<1>2. x.op = "switch" => x.otherwise \in Through(x) /\ \A i \in DOMAIN x.arms : x.arms[i][2] \in Through(x)
  BY DEF Through, Arms
<1>3. /\ x.op = "call" => Rule(x.f) \in Through(x)
      /\ x.op = "bp" => <<Call("prefix"), Infix(x.min)>> \in Through(x)
      /\ x.op = "item" => <<Call("item")>> \in Through(x)
  BY DEF Through
<1>4. x.op = "infix" => OrElse \in Through(x) /\ StructLit \in Through(x)
                        /\ \A t \in DOMAIN Power : AfterOp(t) \in Through(x)
  BY DEF Through, Round
<1>5. x.op \in {"loop", "advancing", "nsl"} => x.body \in Through(x)
  BY DEF Through
<1>6. x.op = "catch" => x.then \in Through(x) /\ x.body \in Parts(x)
  BY DEF Through, Parts, Shielded
<1>7. x.op = "speculate" => x.body \in Parts(x)
  BY DEF Parts, Shielded
<1>8. Parts(x) \subseteq Seq(Instructions)
  BY Closed
<1> QED
  BY <1>1, <1>2, <1>3, <1>4, <1>5, <1>6, <1>7, <1>8

-----------------------------------------------------------------------------
(* The types of the variables, and what a step does to the call stack.     *)

Tokens == STRING \cup {"eof"}
\* What is saved is a position among the tokens kept.
Since(b) == {x \in Elems : x.op \in {"mark", "undo"} => b <= x.pos}
TypeOK ==
  /\ todo \in Seq(Since(base)) /\ nest \in Seq(Closing) /\ drawn \in Seq(Tokens) /\ file \in Files
  /\ base \in Nat /\ pos \in Nat /\ base <= pos /\ half \in Int /\ half <= pos
  /\ nsl \in BOOLEAN /\ made \in BOOLEAN /\ errs \in BOOLEAN /\ events \subseteq Happenings

\* s consists of instructions that may not do more than the one they replace.
Brings(s) ==
  /\ s \in Seq(Instructions \cup Scans) /\ (s # << >> => ins \in Instructions \cup Scans)
  /\ Elements(s) \cap MayFail # {} => ins \in MayFail
  /\ Elements(s) \cap MayBreak # {} => ins \in MayBreak

Saved == [op |-> "mark", memo |-> ins.memo, pos |-> pos, errs |-> errs, events |-> events, nest |-> nest]
Moved ==
  \/ todo' = todo /\ nsl' = nsl
  \/ nsl' = nsl /\ todo # << >> /\ ins.op # "restore" /\ \E s : Brings(s) /\ todo' = s \o rest
  \/ nsl' = nsl /\ todo # << >> /\ ins \in Instructions /\ ins.op \in {"infix", "loop"}
     /\ \E s \in Through(ins) : todo' = s \o todo
  \/ nsl' = nsl /\ todo # << >> /\ ins \in MayFail /\ todo' = GaveUp(rest)
  \/ nsl' = nsl /\ todo # << >> /\ (ins \in MayBreak \/ ins.op = "grown") /\ todo' = Left(rest)
  \/ Handle \/ NotePosition \/ Limit \/ Restore \/ BlockItem
  \/ nsl' = nsl /\ events' = events /\ Now("speculate") /\ todo' = ins.body \o <<Saved>> \o rest

\* An instruction at the top of the stack.
LEMMA TopIs ==
  ASSUME TypeOK, NEW op, Now(op)
  PROVE  /\ todo # << >> /\ ins \in Elems /\ ins.op = op /\ todo = <<ins>> \o rest
         /\ op \in Kinds \ {"scan"} => ins \in Instructions
         /\ rest \in Seq(Elems) /\ Len(rest) = Len(todo) - 1 /\ \A i \in 1..Len(rest) : rest[i] = todo[i + 1]
<1>1. todo \in Seq(Elems) /\ todo # << >> /\ ins.op = op
  BY DEF Now, TypeOK, Since
<1>2. ins \in Elems /\ todo = <<ins>> \o rest /\ rest \in Seq(Elems) /\ Len(rest) = Len(todo) - 1
      /\ \A i \in 1..Len(rest) : rest[i] = todo[i + 1]
  BY <1>1, TailIs DEF ins, rest
<1> QED
  BY <1>1, <1>2, ElemKinds

LEMMA Popped == ASSUME TypeOK, NEW op, Now(op), todo' = rest, nsl' = nsl, op # "restore" PROVE Moved
<1>1. Brings(<< >>)
  BY DEF Brings, Elements
<1>2. rest = << >> \o rest /\ todo # << >> /\ ins.op # "restore"
  BY TopIs
<1> QED
  BY <1>1, <1>2 DEF Moved

LEMMA BroughtOne ==
  ASSUME TypeOK, NEW op \in Kinds \ {"scan", "loop"}, Now(op), NEW s \in Through(ins), todo' = s \o rest, nsl' = nsl
  PROVE  Moved
<1>1. ins \in Instructions /\ ins.op = op /\ todo # << >>
  BY TopIs
<1>2. Brings(s)
  BY <1>1, ThroughIs DEF Brings
<1>3. op # "restore"
  BY DEF Kinds
<1> QED
  BY <1>1, <1>2, <1>3 DEF Moved

LEMMA GivenUp == ASSUME TypeOK, NEW op \in {"expect", "quiet", "fail"}, Now(op), todo' = GaveUp(rest), nsl' = nsl PROVE Moved
<1>1. ins \in Instructions /\ ins.op = op /\ todo # << >>
  BY TopIs DEF Kinds
<1>2. ins \in MayFail
  BY <1>1, Climbing
<1> QED
  BY <1>1, <1>2 DEF Moved

\* The look ahead at the result of a lambda: a step of it, its end, or the type consumed and reported.
LEMMA ScanMoves ==
  ASSUME TypeOK, LambdaResult
  PROVE  /\ Moved
         /\ todo # << >> /\ ins.op = "scan"
         /\ \/ todo' = rest
            \/ \E x \in Scans : todo' = <<x>> \o rest
            \/ \E n \in Nat : todo' = [i \in 1..n |-> Adv] \o <<Error>> \o rest
<1>1. Now("scan") /\ nsl' = nsl /\ todo # << >> /\ ins \in Elems /\ ins.op = "scan"
  BY TopIs DEF LambdaResult, flags
<1>2. ins \in Scans
  <2>1. ins \in Instructions => ins = LambdaType
    BY <1>1, Closed
  <2>2. LambdaType \in Scans
    BY DEF LambdaType, Scans, ScanParts
  <2>3. ins \in Instructions \/ ins \in Scans
    BY <1>1, ElemKinds
  <2> QED
    BY <2>1, <2>2, <2>3
<1>3. ins.at \in Nat /\ ins.depth \in Int
  BY <1>2 DEF Scans
<1>9. \A part \in ScanParts, m \in Nat, depth \in Int : [ins EXCEPT !.part = part, !.at = m, !.depth = depth] \in Scans
  BY <1>2 DEF Scans
<1>4. \/ todo' = rest
      \/ \E x \in Scans : todo' = <<x>> \o rest
      \/ todo' = [i \in 1..ins.at |-> Adv] \o <<Error>> \o rest
  <2> DEFINE t == At(ins.at + 1)
             Go(part, n, depth) ==
               todo' = <<[ins EXCEPT !.part = part, !.at = ins.at + n, !.depth = depth]>> \o rest
             deeper == ins.depth + (CASE t = "<" -> 1 [] t = ">" -> -1 [] t = ">>" -> -2 [] OTHER -> 0)
  <2>1. deeper \in Int
    <3> DEFINE d == CASE t = "<" -> 1 [] t = ">" -> -1 [] t = ">>" -> -2 [] OTHER -> 0
    <3>1. d \in Int
      OBVIOUS
    <3> HIDE DEF d
    <3>2. \A x, y \in Int : x + y \in Int
      OBVIOUS
    <3>3. ins.depth + d \in Int
      BY <1>3, <3>1, <3>2, Zenon
    <3> QED
      BY <3>3 DEF d
  <2> HIDE DEF deeper
  <2>2. ASSUME NEW part \in ScanParts, NEW n \in Nat, NEW depth \in Int, Go(part, n, depth)
        PROVE  \E x \in Scans : todo' = <<x>> \o rest
    <3>1. PICK m \in Nat : m = ins.at + n
      BY <1>3
    <3>2. [ins EXCEPT !.part = part, !.at = m, !.depth = depth] \in Scans
      BY <1>9
    <3>3. todo' = <<[ins EXCEPT !.part = part, !.at = m, !.depth = depth]>> \o rest
      BY <2>2, <3>1, SMTT(60)
    <3> QED
      BY <3>2, <3>3
  <2>3. \/ Go("path", 1, 0) \/ Go("path", 2, 0) \/ Go("args", 1, 1) \/ Go("post", 1, deeper) \/ Go("args", 1, deeper)
        \/ Go("post", 1, 0) \/ todo' = [i \in 1..ins.at |-> Adv] \o <<Error>> \o rest \/ todo' = rest
    <3> HIDE DEF Go
    <3>1. /\ LambdaResult
          /\ Go("path", 1, 0) <=> todo' = <<[ins EXCEPT !.part = "path", !.at = ins.at + 1, !.depth = 0]>> \o rest
          /\ Go("path", 2, 0) <=> todo' = <<[ins EXCEPT !.part = "path", !.at = ins.at + 2, !.depth = 0]>> \o rest
          /\ Go("args", 1, 1) <=> todo' = <<[ins EXCEPT !.part = "args", !.at = ins.at + 1, !.depth = 1]>> \o rest
          /\ Go("post", 1, 0) <=> todo' = <<[ins EXCEPT !.part = "post", !.at = ins.at + 1, !.depth = 0]>> \o rest
          /\ Go("post", 1, deeper) <=> todo' = <<[ins EXCEPT !.part = "post", !.at = ins.at + 1, !.depth = deeper]>> \o rest
          /\ Go("args", 1, deeper) <=> todo' = <<[ins EXCEPT !.part = "args", !.at = ins.at + 1, !.depth = deeper]>> \o rest
      BY DEF Go
    <3> QED
      BY <3>1 DEF LambdaResult, deeper
  <2> HIDE DEF Go
  <2>4. \A part \in ScanParts : \A n \in {1, 2}, depth \in {0, 1, deeper} : Go(part, n, depth) => \E x \in Scans : todo' = <<x>> \o rest
    <3>1. {1, 2} \subseteq Nat /\ {0, 1, deeper} \subseteq Int
      BY <2>1
    <3>2. ASSUME NEW part \in ScanParts, NEW n \in {1, 2}, NEW depth \in {0, 1, deeper}, Go(part, n, depth)
          PROVE  \E x \in Scans : todo' = <<x>> \o rest
      <4>1. n \in Nat /\ depth \in Int
        BY <3>1
      <4> QED
        BY <3>2, <4>1, <2>2, Zenon
    <3> QED
      BY <3>2
  <2> QED
    BY <2>3, <2>4 DEF ScanParts
<1>5. \A s : s \in Seq(Instructions \cup Scans) /\ Elements(s) \cap (MayFail \cup MayBreak) = {} => Brings(s)
  BY <1>2 DEF Brings
<1>6. CASE todo' = rest
  BY <1>1, <1>6, Popped
<1>7. ASSUME NEW x \in Scans, todo' = <<x>> \o rest PROVE Moved
  <2>1. x \notin Instructions \/ x = LambdaType
    BY Closed DEF Scans
  <2>2. x \notin MayFail \cup MayBreak
    BY <2>1, Climbing
  <2>3. <<x>> \in Seq(Instructions \cup Scans) /\ Elements(<<x>>) = {x}
    BY DEF Elements
  <2>4. Brings(<<x>>)
    BY <1>5, <2>2, <2>3
  <2> QED
    BY <1>1, <1>7, <2>4 DEF Moved
<1>8. ASSUME NEW n \in Nat, todo' = [i \in 1..n |-> Adv] \o <<Error>> \o rest PROVE Moved
  <2> DEFINE a == [i \in 1..n |-> Adv]
             s == a \o <<Error>>
  <2>1. a \in Seq({Adv, Error}) /\ <<Error>> \in Seq({Adv, Error})
    BY SeqDef
  <2>2. s \in Seq({Adv, Error}) /\ {Adv, Error} \subseteq Instructions
    BY <2>1, CatIs, Closed
  <2> HIDE DEF a
  <2>3. s \o rest = a \o (<<Error>> \o rest)
    BY <2>1, ConcatAssociative DEF TypeOK, Since
  <2> HIDE DEF s
  <2>4. Elements(s) \subseteq {Adv, Error}
    BY <2>2, ElementOfSeq DEF Elements
  <2>5. Brings(s)
    BY <1>5, <2>2, <2>4, Climbing
  <2>6. todo' = s \o rest
    BY <1>8, <2>3, SMTT(60) DEF a
  <2> QED
    BY <1>1, <2>5, <2>6 DEF Moved
<1> QED
  BY <1>1, <1>3, <1>4, <1>6, <1>7, <1>8

\* What a step does to the call stack.
LEMMA TodoMoves == ASSUME TypeOK, [Next]_vars PROVE Moved
<1> USE DEF Ignored, flags
<1>1. CASE Lex
  BY <1>1 DEF Lex, Moved
<1>2. CASE UNCHANGED vars
  BY <1>2 DEF vars, Moved
<1>3. CASE Expect
  <2>1. Now("expect") /\ nsl' = nsl /\ (todo' = rest \/ todo' = GaveUp(rest))
    BY <1>3 DEF Expect
  <2> QED
    BY <2>1, Popped, GivenUp
<1>4. CASE ExpectQuietly
  <2>1. Now("quiet") /\ nsl' = nsl /\ (todo' = rest \/ todo' = GaveUp(rest))
    BY <1>4 DEF ExpectQuietly
  <2> QED
    BY <2>1, Popped, GivenUp
<1>5. CASE EatIf
  BY <1>5, Popped DEF EatIf
<1>6. CASE EatNoted
  BY <1>6, Popped DEF EatNoted
<1>7. CASE CloseOrReport
  BY <1>7, Popped DEF CloseOrReport
<1>8. CASE Advance
  BY <1>8, Popped DEF Advance
<1>9. CASE Report
  BY <1>9, Popped DEF Report
<1>10. CASE GiveUp
  BY <1>10, GivenUp DEF GiveUp
<1>11. CASE SkipToSync
  <2>1. Now("skip") /\ nsl' = nsl /\ (todo' = rest \/ todo' = todo)
    BY <1>11 DEF SkipToSync
  <2> QED
    BY <2>1, Popped DEF Moved
<1>12. CASE GenericClose
  <2>1. Now("gclose") /\ nsl' = nsl
    BY <1>12 DEF GenericClose
  <2>2. ins \in Instructions /\ ins.op = "gclose" /\ todo # << >>
    BY <2>1, TopIs DEF Kinds
  <2>3. ins.how \in {"emit", "expect", "hope", "fail"}
    BY <2>2, Climbing DEF GClose
  <2>4. \/ todo' = rest
        \/ ins.how \in {"expect", "fail"} /\ todo' = GaveUp(rest)
    BY <1>12, <2>3 DEF GenericClose
  <2>5. ins.how \in {"expect", "fail"} => ins \in MayFail
    BY <2>2, Climbing
  <2>6. CASE todo' = rest
    BY <2>1, <2>6, Popped
  <2> QED
    BY <2>1, <2>2, <2>4, <2>5, <2>6 DEF Moved
<1>13. CASE LookAhead
  <2>1. Now("if") /\ nsl' = nsl /\ (todo' = ins.then \o rest \/ todo' = ins.else \o rest)
    BY <1>13 DEF LookAhead
  <2>2. ins \in Instructions /\ ins.op = "if"
    BY <2>1, TopIs DEF Kinds
  <2>3. ins.then \in Through(ins) /\ ins.else \in Through(ins)
    BY <2>2, ThroughOf
  <2> QED
    BY <2>1, <2>3, BroughtOne DEF Kinds
<1>14. CASE MatchToken
  <2>1. Now("switch") /\ nsl' = nsl
    BY <1>14, Zenon DEF MatchToken
  <2>2. ins \in Instructions /\ ins.op = "switch"
    BY <2>1, TopIs, SMTT(30) DEF Kinds
  <2> DEFINE fits == {i \in DOMAIN ins.arms : Peek \in ins.arms[i][1]}
  <2>3. todo' = (IF fits = {} THEN ins.otherwise ELSE ins.arms[Min(fits)][2]) \o rest
    BY <1>14, Zenon DEF MatchToken
  <2>4. DOMAIN ins.arms \subseteq Nat
    BY <2>2, Closed
  <2>5. fits # {} => Min(fits) \in DOMAIN ins.arms
    BY <2>4, LeastIs
  <2>6. ins.otherwise \in Through(ins) /\ \A i \in DOMAIN ins.arms : ins.arms[i][2] \in Through(ins)
    BY <2>2, ThroughOf
  <2> HIDE DEF fits
  <2>7. \E s \in Through(ins) : todo' = s \o rest
    BY <2>3, <2>5, <2>6
  <2> QED
    BY <2>1, <2>7, BroughtOne, SMTT(60) DEF Kinds
<1>15. CASE SetVal
  BY <1>15, Popped DEF SetVal
<1>16. CASE NoteTier
  BY <1>16, Popped DEF NoteTier
<1>17. CASE AskVal
  <2>1. Now("ifval") /\ nsl' = nsl /\ (todo' = ins.then \o rest \/ todo' = ins.else \o rest)
    BY <1>17 DEF AskVal
  <2>2. ins \in Instructions /\ ins.op = "ifval"
    BY <2>1, TopIs DEF Kinds
  <2>3. ins.then \in Through(ins) /\ ins.else \in Through(ins)
    BY <2>2, ThroughOf
  <2> QED
    BY <2>1, <2>3, BroughtOne DEF Kinds
<1>18. CASE CallRule
  <2>1. Now("call") /\ nsl' = nsl /\ todo' = Rule(ins.f) \o rest
    BY <1>18 DEF CallRule
  <2>2. ins \in Instructions /\ ins.op = "call"
    BY <2>1, TopIs DEF Kinds
  <2>3. Rule(ins.f) \in Through(ins)
    BY <2>2, ThroughOf
  <2> QED
    BY <2>1, <2>3, BroughtOne DEF Kinds
<1>19. CASE ParseBp
  <2>1. Now("bp") /\ nsl' = nsl /\ todo' = <<Call("prefix"), Infix(ins.min)>> \o rest
    BY <1>19 DEF ParseBp
  <2>2. ins \in Instructions /\ ins.op = "bp"
    BY <2>1, TopIs DEF Kinds
  <2>3. <<Call("prefix"), Infix(ins.min)>> \in Through(ins)
    BY <2>2, ThroughOf
  <2> QED
    BY <2>1, <2>3, BroughtOne DEF Kinds
<1>20. CASE InfixRound
  <2>1. Now("infix") /\ nsl' = nsl
    BY <1>20 DEF InfixRound
  <2>2. ins \in Instructions /\ ins.op = "infix" /\ todo # << >>
    BY <2>1, TopIs DEF Kinds
  <2>3. \/ todo' = rest \/ todo' = OrElse \o todo \/ todo' = StructLit \o todo
        \/ Peek \in DOMAIN Power /\ todo' = AfterOp(Peek) \o todo
    BY <1>20 DEF InfixRound, Stronger
  <2>4. OrElse \in Through(ins) /\ StructLit \in Through(ins) /\ \A t \in DOMAIN Power : AfterOp(t) \in Through(ins)
    BY <2>2, ThroughOf
  <2>5. todo' = rest \/ \E s \in Through(ins) : todo' = s \o todo
    BY <2>3, <2>4
  <2> QED
    BY <2>1, <2>2, <2>5, Popped DEF Moved
<1>21. CASE Repeat
  <2>1. Now("loop") /\ nsl' = nsl /\ (todo' = rest \/ todo' = ins.body \o todo)
    BY <1>21 DEF Repeat
  <2>2. ins \in Instructions /\ ins.op = "loop" /\ todo # << >>
    BY <2>1, TopIs DEF Kinds
  <2>3. ins.body \in Through(ins)
    BY <2>2, ThroughOf
  <2> QED
    BY <2>1, <2>2, <2>3, Popped DEF Moved
<1>22. CASE BreakOut
  <2>1. Now("break") /\ nsl' = nsl /\ todo' = Left(rest)
    BY <1>22 DEF BreakOut
  <2>2. ins \in Instructions /\ ins.op = "break" /\ todo # << >>
    BY <2>1, TopIs DEF Kinds
  <2>3. ins \in MayBreak
    BY <2>2, Climbing
  <2> QED
    BY <2>1, <2>2, <2>3 DEF Moved
<1>23. CASE NothingCaught
  BY <1>23, Popped DEF NothingCaught
<1>24. CASE GuardProgress
  BY <1>24, Popped DEF GuardProgress
<1>25. CASE Attempt
  <2>1. Now("speculate") /\ nsl' = nsl /\ (todo' = rest \/ todo' = ins.body \o <<Saved>> \o rest)
    BY <1>25 DEF Attempt, Saved
  <2>2. todo # << >>
    BY <2>1, TopIs
  <2>3. events' = events
    BY <1>25 DEF Attempt, account
  <2> QED
    BY <2>1, <2>2, <2>3, Popped DEF Moved
<1>26. CASE Succeed
  BY <1>26, Popped DEF Succeed
<1>27. CASE Undo
  BY <1>27, Popped DEF Undo
<1>28. CASE BlockGrown
  <2>1. Now("grown") /\ nsl' = nsl /\ (todo' = rest \/ todo' = Left(rest))
    BY <1>28 DEF BlockGrown
  <2>2. ins.op = "grown" /\ todo # << >>
    BY <2>1, TopIs
  <2> QED
    BY <2>1, <2>2, Popped DEF Moved
<1>29. CASE ItemMade
  BY <1>29, Popped DEF ItemMade
<1>30. CASE LambdaResult
  BY <1>30, ScanMoves
<1> QED
  BY <1>1, <1>2, <1>3, <1>4, <1>5, <1>6, <1>7, <1>8, <1>9, <1>10, <1>11, <1>12, <1>13, <1>14, <1>15, <1>16,
     <1>17, <1>18, <1>19, <1>20, <1>21, <1>22, <1>23, <1>24, <1>25, <1>26, <1>27, <1>28, <1>29, <1>30 DEF Next, Moved

-----------------------------------------------------------------------------
(* The shape of the call stack: what an element relies on lies below it.   *)

Handled(t, i) == \E j \in (i + 1)..Len(t) : t[j].op \in {"caught", "mark"}
Looped(t, i) ==
  \E j \in (i + 1)..Len(t) : t[j].op = "loop" /\ \A k \in (i + 1)..(j - 1) : t[k].op \notin {"caught", "mark", "restore"}

\* v is the ban in force where t[i] begins.
InForce(t, i, v) ==
  \/ v = FALSE /\ \A j \in i..Len(t) : t[j].op # "restore"
  \/ \E j \in i..Len(t) : t[j].op = "restore" /\ t[j].head = v /\ \A k \in i..(j - 1) : t[k].op # "restore"

Twin(x, failed) == [op |-> "restore", nsl |-> x.nsl, head |-> x.head, open |-> x.open, failed |-> failed]
Fits(t, i, x) == (x \in MayFail => Handled(t, i)) /\ (x \in MayBreak => Looped(t, i))
Resumes(t, i) ==
  \/ t[i].then \in Seq(Instructions) /\ \A x \in Elements(t[i].then) : Fits(t, i, x)
  \/ /\ i < Len(t) /\ t[i + 1].op = "restore" /\ ~t[i + 1].failed
     /\ t[i].then = <<Twin(t[i + 1], TRUE)>> /\ Handled(t, i + 1)

\* x puts back what the restore y below it does.
Caps(x, y) == (x.op = "caught" /\ x.then = <<Twin(y, TRUE)>>) \/ x = Twin(y, TRUE)

\* A ban that was set is put back, also where a function gives up.
Kept(t, i) ==
  IF t[i].failed THEN i = 1 /\ Len(t) > 1 /\ t[2] = Twin(t[1], FALSE) /\ Handled(t, 2)
  ELSE /\ InForce(t, i + 1, t[i].nsl)
       /\ i > 1 => Caps(t[i - 1], t[i])

Rests(t, i) ==
  /\ Fits(t, i, t[i])
  /\ t[i].op = "grown" => Looped(t, i)
  /\ t[i].op = "caught" => Resumes(t, i)
  /\ t[i].op = "restore" => Kept(t, i)
  /\ t[i].op = "undo" => i = 1
Stack(t) == \A i \in 1..Len(t) : Rests(t, i)

EndsIn(u, n, t) == n \in Nat /\ Len(u) = Len(t) + n /\ \A i \in 1..Len(t) : u[i + n] = t[i]

LEMMA CatEnds == ASSUME NEW S, NEW s \in Seq(S), NEW t \in Seq(S) PROVE EndsIn(s \o t, Len(s), t)
BY CatIs DEF EndsIn

LEMMA SfxEnds == ASSUME NEW S, NEW t \in Seq(S), NEW k \in 0..Len(t) PROVE EndsIn(t, k, Sfx(t, k))
<1>1. /\ Len(Sfx(t, k)) = Len(t) - k /\ Len(t) \in Nat
      /\ \A i \in 1..(Len(t) - k) : Sfx(t, k)[i] = t[i + k]
  BY SfxIs
<1> QED
  BY <1>1 DEF EndsIn

\* What is said of the stack below a position does not depend on what is above it.
LEMMA BelowIs ==
  ASSUME NEW S, NEW u \in Seq(S), NEW t \in Seq(S), NEW n, EndsIn(u, n, t), NEW i \in 0..Len(t)
  PROVE  /\ Handled(u, i + n) <=> Handled(t, i)
         /\ Looped(u, i + n) <=> Looped(t, i)
         /\ \A v : InForce(u, i + 1 + n, v) <=> InForce(t, i + 1, v)
         /\ \A x : Fits(u, i + n, x) <=> Fits(t, i, x)
<1> DEFINE L == Len(t)
<1>1. n \in Nat /\ L \in Nat /\ Len(u) = L + n /\ \A j \in 1..L : u[j + n] = t[j]
  BY DEF EndsIn
<1>2. \A j \in (i + 1)..L : j + n \in (i + n + 1)..(L + n) /\ u[j + n] = t[j]
  BY <1>1
<1>3. \A j \in (i + n + 1)..(L + n) : j - n \in (i + 1)..L /\ t[j - n] = u[j]
  <2> TAKE j \in (i + n + 1)..(L + n)
  <2>1. j - n \in 1..L /\ (j - n) + n = j /\ j - n \in (i + 1)..L
    BY <1>1
  <2> QED
    BY <1>1, <2>1
<1> HIDE DEF L
<1>4. Handled(u, i + n) <=> Handled(t, i)
  <2>1. Handled(u, i + n) <=> \E j \in (i + n + 1)..(L + n) : u[j].op \in {"caught", "mark"}
    BY <1>1 DEF Handled
  <2>2. Handled(t, i) <=> \E j \in (i + 1)..L : t[j].op \in {"caught", "mark"}
    BY DEF Handled, L
  <2> QED
    BY <1>2, <1>3, <2>1, <2>2
<1>5. Looped(u, i + n) <=> Looped(t, i)
  <2> DEFINE Out(x) == x.op \notin {"caught", "mark", "restore"}
  <2>1. Looped(u, i + n) <=> \E j \in (i + n + 1)..(L + n) : u[j].op = "loop" /\ \A k \in (i + n + 1)..(j - 1) : Out(u[k])
    BY <1>1 DEF Looped
  <2>2. Looped(t, i) <=> \E j \in (i + 1)..L : t[j].op = "loop" /\ \A k \in (i + 1)..(j - 1) : Out(t[k])
    BY DEF Looped, L
  <2> HIDE DEF Out
  <2>3. ASSUME NEW j \in (i + 1)..L
        PROVE  (\A k \in (i + n + 1)..(j + n - 1) : Out(u[k])) <=> (\A k \in (i + 1)..(j - 1) : Out(t[k]))
    <3>1. ASSUME \A k \in (i + n + 1)..(j + n - 1) : Out(u[k]), NEW k \in (i + 1)..(j - 1) PROVE Out(t[k])
      <4>1. k + n \in (i + n + 1)..(j + n - 1) /\ u[k + n] = t[k]
        BY <1>1, <1>2
      <4> QED
        BY <3>1, <4>1
    <3>2. ASSUME \A k \in (i + 1)..(j - 1) : Out(t[k]), NEW k \in (i + n + 1)..(j + n - 1) PROVE Out(u[k])
      <4>1. k - n \in (i + 1)..(j - 1) /\ t[k - n] = u[k]
        BY <1>1, <1>3
      <4> QED
        BY <3>2, <4>1
    <3> QED
      BY <3>1, <3>2
  <2>4. ASSUME Looped(u, i + n) PROVE Looped(t, i)
    <3>1. PICK j \in (i + n + 1)..(L + n) : u[j].op = "loop" /\ \A k \in (i + n + 1)..(j - 1) : Out(u[k])
      BY <2>1, <2>4
    <3>2. j - n \in (i + 1)..L /\ t[j - n] = u[j] /\ (j - n) + n - 1 = j - 1
      BY <1>1, <1>3
    <3> QED
      BY <2>2, <2>3, <3>1, <3>2
  <2>5. ASSUME Looped(t, i) PROVE Looped(u, i + n)
    <3>1. PICK j \in (i + 1)..L : t[j].op = "loop" /\ \A k \in (i + 1)..(j - 1) : Out(t[k])
      BY <2>2, <2>5
    <3>2. j + n \in (i + n + 1)..(L + n) /\ u[j + n] = t[j]
      BY <1>2
    <3>3. ASSUME NEW k \in (i + n + 1)..((j + n) - 1) PROVE Out(u[k])
      <4>1. k - n \in (i + 1)..(j - 1) /\ t[k - n] = u[k]
        BY <1>1, <1>3
      <4> QED
        BY <3>1, <4>1
    <3> QED
      BY <2>1, <3>1, <3>2, <3>3
  <2> QED
    BY <2>4, <2>5
<1>6. ASSUME NEW v PROVE InForce(u, i + 1 + n, v) <=> InForce(t, i + 1, v)
  <2> DEFINE Not(x) == x.op # "restore"
             Hd(x) == x.op = "restore" /\ x.head = v
  <2>1. InForce(u, i + 1 + n, v) <=> \/ v = FALSE /\ \A j \in (i + n + 1)..(L + n) : Not(u[j])
                                     \/ \E j \in (i + n + 1)..(L + n) : Hd(u[j]) /\ \A k \in (i + n + 1)..(j - 1) : Not(u[k])
    <3>1. i + 1 + n = i + n + 1
      BY <1>1
    <3> QED
      BY <1>1, <3>1 DEF InForce
  <2>2. InForce(t, i + 1, v) <=> \/ v = FALSE /\ \A j \in (i + 1)..L : Not(t[j])
                                 \/ \E j \in (i + 1)..L : Hd(t[j]) /\ \A k \in (i + 1)..(j - 1) : Not(t[k])
    BY DEF InForce, L
  <2> HIDE DEF Not, Hd
  <2>3. ASSUME NEW j \in (i + 1)..(L + 1)
        PROVE  (\A k \in (i + n + 1)..(j + n - 1) : Not(u[k])) <=> (\A k \in (i + 1)..(j - 1) : Not(t[k]))
    <3>1. ASSUME \A k \in (i + n + 1)..(j + n - 1) : Not(u[k]), NEW k \in (i + 1)..(j - 1) PROVE Not(t[k])
      <4>1. k + n \in (i + n + 1)..(j + n - 1) /\ k \in (i + 1)..L
        BY <1>1
      <4> QED
        BY <1>2, <3>1, <4>1
    <3>2. ASSUME \A k \in (i + 1)..(j - 1) : Not(t[k]), NEW k \in (i + n + 1)..(j + n - 1) PROVE Not(u[k])
      <4>1. k - n \in (i + 1)..(j - 1) /\ k \in (i + n + 1)..(L + n)
        BY <1>1
      <4> QED
        BY <1>3, <3>2, <4>1
    <3> QED
      BY <3>1, <3>2
  <2>4. (\A j \in (i + n + 1)..(L + n) : Not(u[j])) <=> (\A j \in (i + 1)..L : Not(t[j]))
    <3>1. L + 1 \in (i + 1)..(L + 1) /\ (L + 1) + n - 1 = L + n /\ (L + 1) - 1 = L
      BY <1>1 DEF L
    <3> QED
      BY <2>3, <3>1
  <2>5. ASSUME NEW j \in (i + n + 1)..(L + n), Hd(u[j]) /\ \A k \in (i + n + 1)..(j - 1) : Not(u[k])
        PROVE  \E m \in (i + 1)..L : Hd(t[m]) /\ \A k \in (i + 1)..(m - 1) : Not(t[k])
    <3>1. j - n \in (i + 1)..L /\ t[j - n] = u[j] /\ (j - n) + n - 1 = j - 1 /\ j - n \in (i + 1)..(L + 1)
      BY <1>1, <1>3
    <3> QED
      BY <2>3, <2>5, <3>1
  <2>6. ASSUME NEW j \in (i + 1)..L, Hd(t[j]) /\ \A k \in (i + 1)..(j - 1) : Not(t[k])
        PROVE  \E m \in (i + n + 1)..(L + n) : Hd(u[m]) /\ \A k \in (i + n + 1)..(m - 1) : Not(u[k])
    <3>1. j + n \in (i + n + 1)..(L + n) /\ u[j + n] = t[j] /\ j \in (i + 1)..(L + 1)
      BY <1>1, <1>2
    <3>2. ASSUME NEW k \in (i + n + 1)..((j + n) - 1) PROVE Not(u[k])
      <4>1. k - n \in (i + 1)..(j - 1) /\ k \in (i + n + 1)..(L + n)
        BY <1>1
      <4> QED
        BY <1>3, <2>6, <4>1
    <3> QED
      BY <2>6, <3>1, <3>2
  <2> QED
    BY <2>1, <2>2, <2>4, <2>5, <2>6
<1> QED
  BY <1>4, <1>5, <1>6 DEF Fits

\* What rests on what lies below it still does when what is above it changes.
LEMMA RestsBelow ==
  ASSUME NEW u \in Seq(Elems), NEW t \in Seq(Elems), NEW n, EndsIn(u, n, t), NEW i \in 1..Len(t), Rests(u, i + n)
  PROVE  Rests(t, i)
<1>1. /\ n \in Nat /\ Len(t) \in Nat /\ Len(u) = Len(t) + n
      /\ \A j \in 1..Len(t) : u[j + n] = t[j]
  BY SMTT(60) DEF EndsIn
<1>2. u[i + n] = t[i] /\ i \in 0..Len(t)
  BY <1>1
<1>3. Fits(t, i, t[i])
  BY <1>2, BelowIs DEF Rests
<1>4. t[i].op = "grown" => Looped(t, i)
  BY <1>2, BelowIs DEF Rests
<1>5. ASSUME t[i].op = "caught" PROVE Resumes(t, i)
  <2>1. Resumes(u, i + n)
    BY <1>2, <1>5 DEF Rests
  <2>2. CASE t[i].then \in Seq(Instructions) /\ \A x \in Elements(t[i].then) : Fits(u, i + n, x)
    BY <1>2, <2>2, BelowIs DEF Resumes
  <2>3. CASE /\ i + n < Len(u) /\ u[i + n + 1].op = "restore" /\ ~u[i + n + 1].failed
             /\ t[i].then = <<Twin(u[i + n + 1], TRUE)>> /\ Handled(u, i + n + 1)
    <3>1. i < Len(t) /\ i + 1 \in 1..Len(t) /\ i + 1 \in 0..Len(t) /\ i + n + 1 = (i + 1) + n /\ u[(i + 1) + n] = t[i + 1]
      BY <1>1, <2>3
    <3>2. Handled(t, i + 1)
      BY <2>3, <3>1, BelowIs
    <3> QED
      BY <2>3, <3>1, <3>2 DEF Resumes
  <2> QED
    BY <1>2, <2>1, <2>2, <2>3 DEF Resumes
<1>6. ASSUME t[i].op = "restore" PROVE Kept(t, i)
  <2>1. Kept(u, i + n)
    BY <1>2, <1>6 DEF Rests
  <2>2. CASE t[i].failed
    <3>1. i + n = 1 /\ Len(u) > 1 /\ u[2] = Twin(u[1], FALSE) /\ Handled(u, 2)
      BY <1>2, <2>1, <2>2 DEF Kept
    <3>2. n = 0 /\ i = 1 /\ Len(t) > 1 /\ t[1] = u[1] /\ t[2] = u[2] /\ 2 \in 0..Len(t) /\ 2 + n = 2
      <4>1. n = 0 /\ i = 1
        BY <1>1, <3>1
      <4>2. Len(t) > 1 /\ 2 \in 1..Len(t) /\ 1 \in 1..Len(t)
        BY <1>1, <3>1, <4>1
      <4>3. u[1 + 0] = t[1] /\ u[2 + 0] = t[2]
        BY <1>1, <4>1, <4>2
      <4> QED
        BY <4>1, <4>2, <4>3
    <3>3. Handled(t, 2)
      BY <3>1, <3>2, BelowIs
    <3> QED
      BY <2>2, <3>1, <3>2, <3>3 DEF Kept
  <2>3. CASE ~t[i].failed
    <3>1. InForce(u, i + n + 1, t[i].nsl) /\ i + n + 1 = i + 1 + n
      BY <1>1, <1>2, <2>1, <2>3 DEF Kept
    <3>2. InForce(t, i + 1, t[i].nsl)
      BY <1>2, <3>1, BelowIs
    <3>3. ASSUME i > 1 PROVE Caps(t[i - 1], t[i])
      <4>1. i - 1 \in 1..Len(t) /\ i + n - 1 = (i - 1) + n /\ i + n > 1
        BY <1>1, <3>3
      <4>4. PICK m \in Nat : m = i + n
        BY <1>1
      <4>5. Kept(u, m) /\ m > 1 /\ ~u[m].failed
        BY <1>2, <2>1, <2>3, <4>1, <4>4
      <4>2. Caps(u[i + n - 1], u[i + n])
        <5>1. Caps(u[m - 1], u[m])
          BY <4>5 DEF Kept
        <5> QED
          BY <1>1, <4>4, <5>1
      <4>3. u[(i - 1) + n] = t[i - 1]
        BY <1>1, <4>1
      <4> QED
        BY <1>2, <4>1, <4>2, <4>3
    <3> QED
      BY <2>3, <3>2, <3>3 DEF Kept
  <2> QED
    BY <2>2, <2>3
<1>7. t[i].op = "undo" => i = 1
  BY <1>1, <1>2 DEF Rests
<1> QED
  BY <1>3, <1>4, <1>5, <1>6, <1>7 DEF Rests

LEMMA RestsAbove ==
  ASSUME NEW u \in Seq(Elems), NEW t \in Seq(Elems), NEW n, EndsIn(u, n, t), NEW i \in 1..Len(t), Rests(t, i),
         t[i].op # "undo", t[i].op = "restore" => ~t[i].failed,
         i = 1 /\ n > 0 /\ t[1].op = "restore" => Caps(u[n], t[1])
  PROVE  Rests(u, i + n)
<1>1. /\ n \in Nat /\ Len(t) \in Nat /\ Len(u) = Len(t) + n
      /\ \A j \in 1..Len(t) : u[j + n] = t[j]
  BY DEF EndsIn
<1>2. u[i + n] = t[i] /\ i \in 0..Len(t)
  BY <1>1
<1>3. Fits(u, i + n, t[i])
  BY <1>2, BelowIs DEF Rests
<1>4. t[i].op = "grown" => Looped(u, i + n)
  BY <1>2, BelowIs DEF Rests
<1>5. ASSUME t[i].op = "caught" PROVE Resumes(u, i + n)
  <2>1. Resumes(t, i)
    BY <1>5 DEF Rests
  <2>2. CASE t[i].then \in Seq(Instructions) /\ \A x \in Elements(t[i].then) : Fits(t, i, x)
    BY <1>2, <2>2, BelowIs DEF Resumes
  <2>3. CASE /\ i < Len(t) /\ t[i + 1].op = "restore" /\ ~t[i + 1].failed
             /\ t[i].then = <<Twin(t[i + 1], TRUE)>> /\ Handled(t, i + 1)
    <3>1. i + n < Len(u) /\ i + 1 \in 1..Len(t) /\ i + 1 \in 0..Len(t) /\ i + n + 1 = (i + 1) + n /\ u[(i + 1) + n] = t[i + 1]
      BY <1>1, <2>3
    <3>2. Handled(u, (i + 1) + n)
      BY <2>3, <3>1, BelowIs
    <3> QED
      BY <1>2, <2>3, <3>1, <3>2 DEF Resumes
  <2> QED
    BY <2>1, <2>2, <2>3 DEF Resumes
<1>6. ASSUME t[i].op = "restore" PROVE Kept(u, i + n)
  <2>1. Kept(t, i) /\ ~t[i].failed
    BY <1>6 DEF Rests
  <2>2. InForce(t, i + 1, t[i].nsl)
    BY <2>1 DEF Kept
  <2>3. InForce(u, i + 1 + n, t[i].nsl)
    BY <1>2, <2>2, BelowIs
  <2>4. i + 1 + n = i + n + 1
    BY <1>1
  <2>5. ASSUME i + n > 1 PROVE Caps(u[i + n - 1], t[i])
    <3>1. CASE i = 1
      <4>1. n > 0 /\ i + n - 1 = n
        BY <1>1, <2>5, <3>1
      <4> QED
        BY <1>6, <3>1, <4>1
    <3>2. CASE i > 1
      <4>1. i - 1 \in 1..Len(t) /\ i + n - 1 = (i - 1) + n
        BY <1>1, <3>2
      <4>2. u[(i - 1) + n] = t[i - 1]
        BY <1>1, <4>1
      <4>3. Caps(t[i - 1], t[i])
        BY <2>1, <3>2 DEF Kept
      <4> QED
        BY <4>1, <4>2, <4>3
    <3> QED
      BY <1>1, <3>1, <3>2
  <2>6. PICK m \in Nat : m = i + n
    BY <1>1
  <2>7. /\ u[m] = t[i] /\ ~u[m].failed
        /\ InForce(u, m + 1, u[m].nsl)
        /\ m > 1 => Caps(u[m - 1], u[m])
    <3>1. u[m] = t[i] /\ ~u[m].failed
      BY <1>2, <2>1, <2>6
    <3>2. InForce(u, m + 1, t[i].nsl)
      BY <2>3, <2>4, <2>6
    <3>3. m > 1 => Caps(u[m - 1], t[i])
      BY <1>1, <2>5, <2>6
    <3> QED
      BY <3>1, <3>2, <3>3
  <2>8. Kept(u, m)
    BY <2>7 DEF Kept
  <2> QED
    BY <2>6, <2>8
<1> QED
  BY <1>2, <1>3, <1>4, <1>5, <1>6 DEF Rests

LEMMA StackEnds ==
  ASSUME NEW t \in Seq(Elems), Stack(t), NEW k \in 0..Len(t)
  PROVE  Stack(Sfx(t, k))
<1>1. Sfx(t, k) \in Seq(Elems) /\ EndsIn(t, k, Sfx(t, k)) /\ Len(Sfx(t, k)) = Len(t) - k
  BY SfxIs, SfxEnds
<1>2. \A i \in 1..(Len(t) - k) : i + k \in 1..Len(t)
  OBVIOUS
<1> QED
  BY <1>1, <1>2, RestsBelow DEF Stack

\* Nothing here is about to be put back.
Settled(t) == \A i \in 1..Len(t) : t[i].op # "undo" /\ (t[i].op = "restore" => ~t[i].failed)

LEMMA SettledEnds ==
  ASSUME NEW t \in Seq(Elems), Stack(t), NEW k \in 1..Len(t)
  PROVE  Settled(Sfx(t, k))
<1>1. \A i \in 1..(Len(t) - k) : Sfx(t, k)[i] = t[i + k] /\ i + k \in 2..Len(t)
  BY SfxIs
<1>2. \A i \in 2..Len(t) : t[i].op # "undo" /\ (t[i].op = "restore" => ~t[i].failed)
  <2> TAKE i \in 2..Len(t)
  <2>1. Rests(t, i) /\ i # 1
    BY DEF Stack
  <2> QED
    BY <2>1 DEF Rests, Kept
<1>3. Len(Sfx(t, k)) = Len(t) - k
  BY SfxIs
<1> QED
  BY <1>1, <1>2, <1>3 DEF Settled

LEMMA StackGrows ==
  ASSUME NEW s \in Seq(Elems), NEW t \in Seq(Elems), Stack(t), Settled(t),
         \A i \in 1..Len(s) : Rests(s \o t, i),
         Len(s) > 0 /\ t # << >> /\ t[1].op = "restore" => Caps(s[Len(s)], t[1])
  PROVE  Stack(s \o t)
<1> DEFINE n == Len(s)
           u == s \o t
<1>1. /\ u \in Seq(Elems) /\ EndsIn(u, n, t) /\ Len(u) = n + Len(t) /\ n \in Nat
      /\ \A i \in 1..n : u[i] = s[i]
  BY CatIs, CatEnds
<1> HIDE DEF u
<1>2. ASSUME NEW i \in 1..Len(t) PROVE Rests(u, i + n)
  <2>1. Rests(t, i) /\ 1 \in 1..Len(t) /\ t # << >>
    BY DEF Stack
  <2>2. n > 0 => u[n] = s[n]
    BY <1>1
  <2>3. i = 1 /\ n > 0 /\ t[1].op = "restore" => Caps(u[n], t[1])
    BY <2>1, <2>2
  <2>4. t[i].op # "undo" /\ (t[i].op = "restore" => ~t[i].failed)
    BY <2>1 DEF Settled
  <2> HIDE DEF n
  <2> QED
    BY <1>1, <2>1, <2>3, <2>4, RestsAbove
<1>3. ASSUME NEW i \in 1..Len(u) PROVE Rests(u, i)
  <2>1. CASE i \in 1..n
    BY <2>1 DEF u
  <2>2. CASE i \notin 1..n
    <3>1. i - n \in 1..Len(t) /\ (i - n) + n = i
      BY <1>1, <2>2
    <3> QED
      BY <1>2, <3>1
  <2> QED
    BY <2>1, <2>2
<1> QED
  BY <1>3 DEF Stack, u

LEMMA SfxSfx ==
  ASSUME NEW S, NEW t \in Seq(S), NEW k \in 0..Len(t), NEW m \in 0..(Len(t) - k)
  PROVE  Sfx(Sfx(t, k), m) = Sfx(t, k + m)
<1>1. Len(t) \in Nat /\ k + m \in 0..Len(t)
  OBVIOUS
<1>2. Sfx(t, k) \in Seq(S) /\ Len(Sfx(t, k)) = Len(t) - k /\ \A i \in 1..(Len(t) - k) : Sfx(t, k)[i] = t[i + k]
  BY SfxIs
<1>3. /\ Sfx(t, k + m) \in Seq(S) /\ Len(Sfx(t, k + m)) = Len(t) - (k + m)
      /\ \A i \in 1..(Len(t) - (k + m)) : Sfx(t, k + m)[i] = t[i + (k + m)]
  BY <1>1, SfxIs
<1>4. m \in 0..Len(Sfx(t, k))
  BY <1>2
<1>5. /\ Sfx(Sfx(t, k), m) \in Seq(S) /\ Len(Sfx(Sfx(t, k), m)) = Len(t) - k - m
      /\ \A i \in 1..(Len(t) - k - m) : Sfx(Sfx(t, k), m)[i] = Sfx(t, k)[i + m]
  BY <1>2, <1>4, SfxIs, SMTT(60)
<1>6. ASSUME NEW i \in 1..(Len(t) - (k + m)) PROVE Sfx(Sfx(t, k), m)[i] = Sfx(t, k + m)[i]
  <2>1. i \in 1..(Len(t) - k - m) /\ i + m \in 1..(Len(t) - k) /\ (i + m) + k = i + (k + m)
    OBVIOUS
  <2> QED
    BY <1>2, <1>3, <1>5, <2>1
<1>7. Len(t) - k - m = Len(t) - (k + m)
  OBVIOUS
<1> QED
  BY <1>3, <1>5, <1>6, <1>7, SeqEqual

\* Where a failure goes, and where a loop is left.
LEMMA GaveUpIs ==
  ASSUME NEW t \in Seq(Elems), t # << >>, Handled(t, 1)
  PROVE  \E j \in 2..Len(t) :
            /\ t[j].op \in {"caught", "mark"} /\ \A k \in 2..(j - 1) : t[k].op \notin {"caught", "mark"}
            /\ GaveUp(Tail(t)) = (IF t[j].op = "caught" THEN t[j].then ELSE <<[t[j] EXCEPT !.op = "undo"]>>) \o Sfx(t, j)
<1> DEFINE r == Tail(t)
           H == {j \in DOMAIN r : r[j].op \in {"caught", "mark"}}
           i == Min(H)
<1>0. /\ Tail(t) = Sfx(t, 1) /\ Len(t) >= 1 /\ Tail(t) \in Seq(Elems) /\ Len(Tail(t)) = Len(t) - 1
      /\ \A k \in 1..(Len(t) - 1) : Tail(t)[k] = t[k + 1]
  BY TailIs
<1>1. /\ r \in Seq(Elems) /\ r = Sfx(t, 1) /\ Len(r) = Len(t) - 1 /\ Len(t) \in Nat /\ Len(t) >= 1
      /\ \A k \in 1..(Len(t) - 1) : r[k] = t[k + 1]
  BY <1>0
<1> HIDE DEF r
<1>2. DOMAIN r = 1..(Len(t) - 1)
  BY <1>1
<1>3. H \subseteq Nat /\ H # {}
  <2>1. PICK j \in (1 + 1)..Len(t) : t[j].op \in {"caught", "mark"}
    BY DEF Handled
  <2>2. j - 1 \in 1..(Len(t) - 1) /\ (j - 1) + 1 = j
    BY <1>1
  <2>3. j - 1 \in H
    BY <1>1, <1>2, <2>1, <2>2
  <2> QED
    BY <1>2, <2>3
<1>4. i \in H /\ \A y \in H : i <= y
  BY <1>3, LeastIs
<1> HIDE DEF i
<1>5. i \in 1..(Len(t) - 1) /\ r[i].op \in {"caught", "mark"}
  BY <1>2, <1>4
<1>6. \A k \in 1..(i - 1) : r[k].op \notin {"caught", "mark"}
  <2> TAKE k \in 1..(i - 1)
  <2>1. k \in 1..(Len(t) - 1) /\ ~(i <= k)
    BY <1>1, <1>5
  <2> QED
    BY <1>2, <1>4, <2>1
<1>7. GaveUp(r) = (IF r[i].op = "caught" THEN r[i].then ELSE <<[r[i] EXCEPT !.op = "undo"]>>) \o Sfx(r, i)
  <2>1. GaveUp(r) = LET below == SubSeq(r, i + 1, Len(r))
                    IN IF r[i].op = "caught" THEN r[i].then \o below ELSE <<[r[i] EXCEPT !.op = "undo"]>> \o below
    BY DEF GaveUp, i
  <2> QED
    BY <2>1 DEF Sfx
<1>8. Sfx(r, i) = Sfx(t, i + 1) /\ r[i] = t[i + 1] /\ i + 1 \in 2..Len(t)
  <2>1. 1 \in 0..Len(t) /\ i \in 0..(Len(t) - 1) /\ 1 + i = i + 1
    BY <1>1, <1>5
  <2>2. Sfx(Sfx(t, 1), i) = Sfx(t, 1 + i)
    BY <2>1, SfxSfx
  <2> QED
    BY <1>1, <1>5, <2>1, <2>2
<1>9. \A k \in 2..((i + 1) - 1) : t[k].op \notin {"caught", "mark"}
  <2> TAKE k \in 2..((i + 1) - 1)
  <2>1. k - 1 \in 1..(i - 1) /\ k - 1 \in 1..(Len(t) - 1) /\ (k - 1) + 1 = k
    BY <1>1, <1>5
  <2> QED
    BY <1>1, <1>6, <2>1
<1> QED
  BY <1>5, <1>7, <1>8, <1>9 DEF r

LEMMA LeftIs ==
  ASSUME NEW t \in Seq(Elems), t # << >>, Looped(t, 1)
  PROVE  \E j \in 2..Len(t) :
            /\ t[j].op = "loop" /\ \A k \in 2..(j - 1) : t[k].op \notin {"loop", "caught", "mark", "restore"}
            /\ Left(Tail(t)) = Sfx(t, j)
<1> DEFINE r == Tail(t)
           H == {j \in DOMAIN r : r[j].op = "loop"}
           i == Min(H)
<1>0. /\ Tail(t) = Sfx(t, 1) /\ Len(t) >= 1 /\ Tail(t) \in Seq(Elems) /\ Len(Tail(t)) = Len(t) - 1
      /\ \A k \in 1..(Len(t) - 1) : Tail(t)[k] = t[k + 1]
  BY TailIs
<1>1. /\ r \in Seq(Elems) /\ r = Sfx(t, 1) /\ Len(r) = Len(t) - 1 /\ Len(t) \in Nat /\ Len(t) >= 1
      /\ \A k \in 1..(Len(t) - 1) : r[k] = t[k + 1]
  BY <1>0
<1> HIDE DEF r
<1>2. DOMAIN r = 1..(Len(t) - 1)
  BY <1>1
<1>3. PICK m \in (1 + 1)..Len(t) : t[m].op = "loop" /\ \A k \in (1 + 1)..(m - 1) : t[k].op \notin {"caught", "mark", "restore"}
  BY DEF Looped
<1>4. m - 1 \in H
  <2>1. m - 1 \in 1..(Len(t) - 1) /\ (m - 1) + 1 = m
    BY <1>1
  <2> QED
    BY <1>1, <1>2, <1>3, <2>1
<1>5. i \in H /\ \A y \in H : i <= y
  <2>1. H \subseteq Nat /\ H # {}
    BY <1>2, <1>4
  <2> QED
    BY <2>1, LeastIs
<1> HIDE DEF i
<1>6. i \in 1..(Len(t) - 1) /\ r[i].op = "loop" /\ i <= m - 1
  BY <1>2, <1>4, <1>5
<1>7. Left(r) = Sfx(r, i)
  BY DEF Left, Sfx, i
<1>8. Sfx(r, i) = Sfx(t, i + 1) /\ r[i] = t[i + 1] /\ i + 1 \in 2..Len(t)
  <2>1. 1 \in 0..Len(t) /\ i \in 0..(Len(t) - 1) /\ 1 + i = i + 1
    BY <1>1, <1>6
  <2>2. Sfx(Sfx(t, 1), i) = Sfx(t, 1 + i)
    BY <2>1, SfxSfx
  <2> QED
    BY <1>1, <1>6, <2>1, <2>2
<1>9. \A k \in 2..((i + 1) - 1) : t[k].op \notin {"loop", "caught", "mark", "restore"}
  <2> TAKE k \in 2..((i + 1) - 1)
  <2>1. k - 1 \in 1..(Len(t) - 1) /\ ~(i <= k - 1) /\ (k - 1) + 1 = k /\ k \in (1 + 1)..(m - 1)
    BY <1>1, <1>6
  <2>2. k - 1 \notin H
    BY <1>5, <2>1
  <2>3. t[k].op # "loop"
    BY <1>1, <1>2, <2>1, <2>2
  <2> QED
    BY <1>3, <2>1, <2>3
<1> QED
  BY <1>6, <1>7, <1>8, <1>9 DEF r

LEMMA KeptAt ==
  ASSUME NEW t, NEW k \in Nat, k > 1, Kept(t, k)
  PROVE  ~t[k].failed /\ InForce(t, k + 1, t[k].nsl) /\ Caps(t[k - 1], t[k])
<1>1. k # 1
  OBVIOUS
<1>2. ~t[k].failed
  BY <1>1, Zenon DEF Kept
<1>3. InForce(t, k + 1, t[k].nsl)
  BY <1>2 DEF Kept
<1>4. Caps(t[k - 1], t[k])
  BY <1>2 DEF Kept
<1> QED
  BY <1>2, <1>3, <1>4

\* No ban is dropped on the way.
LEMMA NoneDropped ==
  ASSUME NEW t \in Seq(Elems), Stack(t), NEW j \in 1..Len(t), NEW a \in 1..j, t[j].op # "restore",
         t[a].op # "caught", t[a].op = "restore" => ~t[a].failed, \A k \in (a + 1)..(j - 1) : t[k].op # "caught"
  PROVE  \A k \in (a + 1)..j : t[k].op # "restore"
<1> SUFFICES ASSUME NEW k \in (a + 1)..j, t[k].op = "restore" PROVE FALSE
  OBVIOUS
<1>1. Len(t) \in Nat /\ k > 1 /\ k # j /\ k \in 1..Len(t) /\ k - 1 \in 1..Len(t)
  OBVIOUS
<1>2. Rests(t, k) /\ Rests(t, k - 1)
  BY <1>1 DEF Stack
<1>3. Caps(t[k - 1], t[k])
  <2>1. Kept(t, k) /\ k \in Nat
    BY <1>1, <1>2 DEF Rests
  <2> QED
    BY <1>1, <2>1, KeptAt
<1>4. t[k - 1].op # "caught"
  <2>1. k - 1 = a \/ k - 1 \in (a + 1)..(j - 1)
    BY <1>1
  <2> QED
    BY <2>1
<1>5. t[k - 1].op = "restore" /\ t[k - 1].failed
  BY <1>3, <1>4 DEF Caps, Twin
<1>6. k - 1 = 1
  BY <1>2, <1>5 DEF Rests, Kept
<1>7. k - 1 = a
  BY <1>1, <1>6
<1> QED
  BY <1>5, <1>7

LEMMA ForceEnds ==
  ASSUME NEW S, NEW u \in Seq(S), NEW t \in Seq(S), NEW n, EndsIn(u, n, t), NEW a \in 1..(n + 1),
         \A k \in a..n : u[k].op # "restore", NEW v
  PROVE  InForce(u, a, v) <=> InForce(t, 1, v)
<1>1. n \in Nat /\ Len(t) \in Nat /\ Len(u) = Len(t) + n /\ 0 \in 0..Len(t) /\ 0 + 1 + n = n + 1 /\ 0 + 1 = 1
  BY DEF EndsIn
<1>2. InForce(u, n + 1, v) <=> InForce(t, 1, v)
  <2>1. InForce(u, 0 + 1 + n, v) <=> InForce(t, 0 + 1, v)
    BY <1>1, BelowIs
  <2> QED
    BY <1>1, <2>1
<1>3. InForce(u, a, v) <=> InForce(u, n + 1, v)
  <2> DEFINE Not(k) == u[k].op # "restore"
             Hd(k) == u[k].op = "restore" /\ u[k].head = v
             L == Len(u)
  <2>1. InForce(u, a, v) <=> \/ v = FALSE /\ \A j \in a..L : Not(j)
                             \/ \E j \in a..L : Hd(j) /\ \A k \in a..(j - 1) : Not(k)
    BY DEF InForce
  <2>2. InForce(u, n + 1, v) <=> \/ v = FALSE /\ \A j \in (n + 1)..L : Not(j)
                                 \/ \E j \in (n + 1)..L : Hd(j) /\ \A k \in (n + 1)..(j - 1) : Not(k)
    BY DEF InForce
  <2>3. \A j \in a..n : Not(j) /\ ~Hd(j)
    OBVIOUS
  <2>4. L \in Nat
    OBVIOUS
  <2> HIDE DEF Not, Hd, L
  <2>5. \A j \in a..L : j \in a..n \/ j \in (n + 1)..L
    BY <1>1, <2>4
  <2>6. \A j \in (n + 1)..L : j \in a..L
    BY <1>1, <2>4
  <2>7. \A j \in (n + 1)..L : \A k \in a..(j - 1) : k \in a..n \/ k \in (n + 1)..(j - 1)
    BY <1>1, <2>4
  <2>8. \A j \in (n + 1)..L : \A k \in (n + 1)..(j - 1) : k \in a..(j - 1)
    BY <1>1, <2>4
  <2> QED
    BY <2>1, <2>2, <2>3, <2>5, <2>6, <2>7, <2>8
<1> QED
  BY <1>2, <1>3

\* The frames that only the program's run puts on the stack do nothing of their own.
LEMMA PlainKinds ==
  ASSUME NEW x
  PROVE  /\ x \in Instructions \cup Scans => x.op \notin {"caught", "mark", "undo", "restore", "guard", "grown"}
         /\ x.op \in {"caught", "mark", "undo", "restore", "guard", "grown"} => x \notin MayFail \cup MayBreak
<1>1. x \in Instructions => x.op \in Kinds
  BY Closed
<1>2. x \in Scans => x.op = "scan"
  BY DEF Scans
<1>3. x \in MayFail \cup MayBreak => x.op \in Kinds
  BY <1>1, Climbing
<1> QED
  BY <1>1, <1>2, <1>3 DEF Kinds

LEMMA OnTop ==
  ASSUME NEW x \in Elems, NEW t \in Seq(Elems)
  PROVE  LET u == <<x>> \o t
         IN /\ u \in Seq(Elems) /\ Len(u) = Len(t) + 1 /\ EndsIn(u, 1, t) /\ u[1] = x
            /\ \A i \in 1..Len(t) : u[i + 1] = t[i]
            /\ Handled(u, 1) <=> Handled(t, 0)
            /\ Looped(u, 1) <=> Looped(t, 0)
            /\ \A v : InForce(u, 2, v) <=> InForce(t, 1, v)
            /\ \A y : Fits(u, 1, y) <=> Fits(t, 0, y)
            /\ Len(t) >= 1 => (Handled(u, 2) <=> Handled(t, 1))
<1> DEFINE u == <<x>> \o t
<1>1. <<x>> \in Seq(Elems) /\ Len(<<x>>) = 1 /\ <<x>>[1] = x
  BY OneIs
<1>2. u \in Seq(Elems) /\ Len(u) = 1 + Len(t) /\ EndsIn(u, 1, t) /\ u[1] = x
  <2>1. PICK s \in Seq(Elems) : s = <<x>> /\ Len(s) = 1 /\ s[1] = x
    BY <1>1
  <2>2. s \o t \in Seq(Elems) /\ Len(s \o t) = Len(s) + Len(t) /\ \A i \in 1..Len(s) : (s \o t)[i] = s[i]
    BY CatIs
  <2>3. EndsIn(s \o t, Len(s), t)
    BY CatEnds
  <2> QED
    BY <2>1, <2>2, <2>3
<1> HIDE DEF u
<1>3. Len(t) \in Nat /\ 0 \in 0..Len(t) /\ 0 + 1 = 1 /\ 0 + 1 + 1 = 2 /\ (Len(t) >= 1 => 1 \in 0..Len(t) /\ 1 + 1 = 2)
  OBVIOUS
<1>4. /\ Handled(u, 0 + 1) <=> Handled(t, 0)
      /\ Looped(u, 0 + 1) <=> Looped(t, 0)
      /\ \A v : InForce(u, 0 + 1 + 1, v) <=> InForce(t, 0 + 1, v)
      /\ \A y : Fits(u, 0 + 1, y) <=> Fits(t, 0, y)
  BY <1>2, <1>3, BelowIs
<1>5. Len(t) >= 1 => (Handled(u, 1 + 1) <=> Handled(t, 1))
  BY <1>2, <1>3, BelowIs
<1>6. \A i \in 1..Len(t) : u[i + 1] = t[i]
  BY <1>2 DEF EndsIn
<1>7. /\ Handled(u, 1) <=> Handled(t, 0)
      /\ Looped(u, 1) <=> Looped(t, 0)
  BY <1>3, <1>4
<1>8. /\ \A v : InForce(u, 2, v) <=> InForce(t, 1, v)
      /\ \A y : Fits(u, 1, y) <=> Fits(t, 0, y)
  BY <1>3, <1>4
<1>9. Len(t) >= 1 => (Handled(u, 2) <=> Handled(t, 1))
  BY <1>3, <1>5
<1>10. Len(u) = Len(t) + 1
  BY <1>2, <1>3
<1> QED
  BY <1>2, <1>6, <1>7, <1>8, <1>9, <1>10 DEF u

\* t may stand under something that puts nothing back.
Uncapped(t) == t = << >> \/ t[1].op # "restore"

LEMMA PushCode ==
  ASSUME NEW s \in Seq(Instructions \cup Scans), NEW t \in Seq(Elems), Stack(t), Settled(t), Uncapped(t),
         Elements(s) \cap MayFail # {} => Handled(t, 0),
         Elements(s) \cap MayBreak # {} => Looped(t, 0)
  PROVE  /\ s \o t \in Seq(Elems) /\ Stack(s \o t) /\ Settled(s \o t) /\ Uncapped(s \o t)
         /\ \A v : InForce(s \o t, 1, v) <=> InForce(t, 1, v)
<1> DEFINE n == Len(s)
           u == s \o t
<1>1. s \in Seq(Elems)
  BY DEF Elems
<1>2. /\ u \in Seq(Elems) /\ EndsIn(u, n, t) /\ Len(u) = n + Len(t) /\ n \in Nat /\ Len(t) \in Nat
      /\ \A i \in 1..n : u[i] = s[i]
      /\ \A i \in 1..Len(t) : u[i + n] = t[i]
  BY <1>1, CatIs, CatEnds
<1>3. \A i \in 1..n : /\ s[i] \in Elements(s) /\ s[i] \in Instructions \cup Scans
                      /\ s[i].op \notin {"caught", "mark", "undo", "restore", "guard", "grown"}
  BY ElementOfSeq, PlainKinds DEF Elements
<1> HIDE DEF u
<1>4. 0 \in 0..Len(t) /\ 0 + n = n
  BY <1>2
<1>5. Handled(t, 0) => \E j \in (n + 1)..Len(u) : u[j].op \in {"caught", "mark"}
  <2>1. Handled(u, 0 + n) <=> Handled(t, 0)
    BY <1>2, <1>4, BelowIs
  <2> QED
    BY <1>4, <2>1 DEF Handled
<1>6. Looped(t, 0) => \E j \in (n + 1)..Len(u) : u[j].op = "loop" /\ \A k \in (n + 1)..(j - 1) : u[k].op \notin {"caught", "mark", "restore"}
  <2>1. Looped(u, 0 + n) <=> Looped(t, 0)
    BY <1>2, <1>4, BelowIs
  <2> QED
    BY <1>4, <2>1 DEF Looped
<1> HIDE DEF n
<1>7. ASSUME NEW i \in 1..n PROVE Rests(u, i)
  <2>1. u[i] = s[i] /\ s[i] \in Elements(s) /\ u[i].op \notin {"caught", "mark", "undo", "restore", "guard", "grown"}
    BY <1>2, <1>3
  <2>2. Handled(t, 0) => Handled(u, i)
    <3>1. \A j \in (n + 1)..Len(u) : j \in (i + 1)..Len(u)
      BY <1>2
    <3> QED
      BY <1>5, <3>1 DEF Handled
  <2>3. Looped(t, 0) => Looped(u, i)
    <3>1. \A j \in (n + 1)..Len(u) : j \in (i + 1)..Len(u)
      BY <1>2
    <3>2. ASSUME NEW j \in (n + 1)..Len(u), NEW k \in (i + 1)..(j - 1), k \notin (n + 1)..(j - 1)
          PROVE  u[k].op \notin {"caught", "mark", "restore"}
      <4>1. k \in 1..n
        BY <1>2, <3>2
      <4> QED
        BY <1>2, <1>3, <4>1
    <3> QED
      BY <1>6, <3>1, <3>2 DEF Looped
  <2> QED
    BY <2>1, <2>2, <2>3 DEF Rests, Fits
<1>8. Stack(u)
  <2>1. \A i \in 1..Len(s) : Rests(s \o t, i)
    BY <1>7 DEF n, u
  <2>2. Len(s) > 0 /\ t # << >> /\ t[1].op = "restore" => Caps(s[Len(s)], t[1])
    BY DEF Uncapped
  <2> QED
    BY <1>1, <2>1, <2>2, StackGrows DEF u
<1>9. Settled(u) /\ Uncapped(u)
  <2>1. \A i \in 1..Len(u) : i \in 1..n \/ (i - n \in 1..Len(t) /\ (i - n) + n = i)
    BY <1>2
  <2>2. Settled(u)
    <3>1. \A i \in 1..n : u[i].op # "undo" /\ u[i].op # "restore"
      BY <1>2, <1>3
    <3>2. \A i \in 1..Len(t) : u[i + n].op # "undo" /\ (u[i + n].op = "restore" => ~u[i + n].failed)
      BY <1>2 DEF Settled
    <3> QED
      BY <2>1, <3>1, <3>2 DEF Settled
  <2>3. CASE n = 0
    <3>1. u = t
      <4>1. Len(u) = Len(t) /\ \A i \in 1..Len(t) : u[i] = t[i]
        BY <1>2, <2>3
      <4> QED
        BY <1>2, <4>1, SeqEqual
    <3> QED
      BY <3>1
  <2>4. CASE n > 0
    <3>1. 1 \in 1..n
      BY <1>2, <2>4
    <3> QED
      BY <1>2, <1>3, <2>2, <3>1 DEF Uncapped
  <2> QED
    BY <1>2, <2>2, <2>3, <2>4
<1>10. \A v : InForce(u, 1, v) <=> InForce(t, 1, v)
  <2>1. \A k \in 1..n : u[k].op # "restore"
    BY <1>2, <1>3
  <2> QED
    BY <1>2, <2>1, ForceEnds
<1> QED
  BY <1>2, <1>8, <1>9, <1>10 DEF u

\* A frame that may stand on t.
Frames == {"caught", "mark", "undo", "restore", "guard", "grown"}
Stands(x, t) ==
  /\ x \in Elems /\ x.op \in Frames
  /\ x.op = "grown" => Looped(t, 0)
  /\ x.op = "caught" => \/ x.then \in Seq(Instructions) /\ Uncapped(t) /\ \A y \in Elements(x.then) : Fits(t, 0, y)
                        \/ ~Uncapped(t) /\ x.then = <<Twin(t[1], TRUE)>> /\ Handled(t, 1)
  /\ x.op = "restore" => \/ ~x.failed /\ Uncapped(t) /\ InForce(t, 1, x.nsl)
                         \/ x.failed /\ ~Uncapped(t) /\ t[1] = Twin(x, FALSE) /\ x = Twin(t[1], TRUE) /\ Handled(t, 1)
  /\ x.op \notin {"caught", "restore"} => Uncapped(t)

LEMMA PushFrame ==
  ASSUME NEW t \in Seq(Elems), Stack(t), Settled(t), NEW x, Stands(x, t)
  PROVE  /\ <<x>> \o t \in Seq(Elems) /\ Stack(<<x>> \o t)
         /\ x.op # "undo" /\ (x.op = "restore" => ~x.failed) => Settled(<<x>> \o t)
         /\ x.op # "restore" => Uncapped(<<x>> \o t) /\ \A v : InForce(<<x>> \o t, 1, v) <=> InForce(t, 1, v)
<1> DEFINE u == <<x>> \o t
<1>1. x \in Elems /\ x.op \in {"caught", "mark", "undo", "restore", "guard", "grown"}
  BY DEF Stands, Frames
<1>2. /\ u \in Seq(Elems) /\ Len(u) = Len(t) + 1 /\ EndsIn(u, 1, t) /\ u[1] = x
      /\ \A i \in 1..Len(t) : u[i + 1] = t[i]
      /\ Handled(u, 1) <=> Handled(t, 0)
      /\ Looped(u, 1) <=> Looped(t, 0)
      /\ \A v : InForce(u, 2, v) <=> InForce(t, 1, v)
      /\ \A y : Fits(u, 1, y) <=> Fits(t, 0, y)
      /\ Len(t) >= 1 => (Handled(u, 2) <=> Handled(t, 1))
  BY <1>1, OnTop
<1> HIDE DEF u
<1>3. t # << >> => Len(t) >= 1 /\ u[2] = t[1]
  <2>1. t # << >> => Len(t) >= 1 /\ 1 \in 1..Len(t) /\ 1 + 1 = 2
    BY EmptySeq, LenProperties
  <2> QED
    BY <1>2, <2>1
<1>4. ~Uncapped(t) => t # << >> /\ t[1].op = "restore" /\ ~t[1].failed
  <2>1. t # << >> => 1 \in 1..Len(t)
    BY <1>3
  <2> QED
    BY <2>1 DEF Uncapped, Settled
<1>5. Fits(u, 1, x) /\ (x.op = "grown" => Looped(u, 1))
  <2>1. x \notin MayFail \cup MayBreak
    BY <1>1, PlainKinds
  <2> QED
    BY <1>2, <2>1 DEF Fits, Stands
<1>6. ASSUME x.op = "caught" PROVE Resumes(u, 1)
  <2>1. CASE x.then \in Seq(Instructions) /\ \A y \in Elements(x.then) : Fits(t, 0, y)
    BY <1>2, <2>1 DEF Resumes
  <2>2. CASE ~Uncapped(t) /\ x.then = <<Twin(t[1], TRUE)>> /\ Handled(t, 1)
    <3>1. 1 < Len(u) /\ u[1 + 1] = t[1] /\ Handled(u, 1 + 1)
      BY <1>2, <1>3, <1>4, <2>2
    <3> QED
      BY <1>2, <1>4, <2>2, <3>1 DEF Resumes
  <2> QED
    BY <1>6, <2>1, <2>2 DEF Stands
<1>7. ASSUME x.op = "restore" PROVE Kept(u, 1)
  <2>1. CASE ~x.failed /\ InForce(t, 1, x.nsl)
    <3>1. InForce(u, 1 + 1, x.nsl)
      BY <1>2, <2>1
    <3> QED
      BY <1>2, <2>1, <3>1 DEF Kept
  <2>2. CASE x.failed /\ ~Uncapped(t) /\ t[1] = Twin(x, FALSE) /\ Handled(t, 1)
    <3>2. t # << >> /\ Len(t) \in Nat
      BY <1>4, <2>2
    <3>0. Len(t) \in Nat /\ Len(t) >= 1 /\ Len(u) = Len(t) + 1 /\ u[2] = t[1]
      BY <1>2, <1>3, <3>2
    <3>1. Len(u) > 1 /\ u[2] = Twin(u[1], FALSE) /\ Handled(u, 2)
      BY <1>2, <2>2, <3>0
    <3> QED
      BY <1>2, <2>2, <3>1 DEF Kept
  <2> QED
    BY <1>7, <2>1, <2>2 DEF Stands
<1>8. Rests(u, 1)
  BY <1>2, <1>5, <1>6, <1>7 DEF Rests
<1>9. Stack(u)
  <2>0. <<x>> \in Seq(Elems) /\ Len(<<x>>) = 1 /\ <<x>>[1] = x
    BY <1>1, OneIs
  <2>1. PICK s \in Seq(Elems) : s = <<x>> /\ Len(s) = 1 /\ s[1] = x
    BY <2>0
  <2>2. s \o t = u
    BY <2>1 DEF u
  <2>3. \A i \in 1..Len(s) : Rests(s \o t, i)
    <3>1. \A i \in 1..Len(s) : i = 1
      BY <2>1
    <3> QED
      BY <1>8, <2>2, <3>1
  <2>4. ASSUME t # << >>, t[1].op = "restore" PROVE Caps(s[Len(s)], t[1])
    <3>1. ~Uncapped(t)
      BY <2>4 DEF Uncapped
    <3> QED
      BY <1>1, <2>1, <3>1 DEF Caps, Stands
  <2>5. Stack(s \o t)
    BY <2>3, <2>4, StackGrows
  <2> QED
    BY <2>2, <2>5
<1>10. ASSUME x.op # "undo", x.op = "restore" => ~x.failed PROVE Settled(u)
  <2>1. \A i \in 1..Len(u) : i = 1 \/ (i - 1 \in 1..Len(t) /\ (i - 1) + 1 = i)
    BY <1>2
  <2>2. \A i \in 1..Len(t) : u[i + 1].op # "undo" /\ (u[i + 1].op = "restore" => ~u[i + 1].failed)
    BY <1>2 DEF Settled
  <2> QED
    BY <1>2, <1>10, <2>1, <2>2 DEF Settled
<1>11. ASSUME x.op # "restore" PROVE Uncapped(u) /\ \A v : InForce(u, 1, v) <=> InForce(t, 1, v)
  <2>1. \A k \in 1..1 : u[k].op # "restore"
    BY <1>2, <1>11
  <2>2. \A v : InForce(u, 1, v) <=> InForce(t, 1, v)
    BY <1>2, <2>1, ForceEnds
  <2> QED
    BY <1>2, <1>11, <2>2 DEF Uncapped
<1> QED
  BY <1>2, <1>9, <1>10, <1>11 DEF u

\* What is below an instruction is not something it should have put back.
LEMMA UncappedBelow ==
  ASSUME NEW t \in Seq(Elems), Stack(t), NEW k \in 1..Len(t), t[k].op # "restore",
         t[k].op = "caught" => t[k].then \in Seq(Instructions)
  PROVE  Uncapped(Sfx(t, k))
<1> SUFFICES ASSUME Sfx(t, k) # << >>, Sfx(t, k)[1].op = "restore" PROVE FALSE
  BY DEF Uncapped
<1>1. Len(t) \in Nat /\ k \in 0..Len(t)
  OBVIOUS
<1>2. Sfx(t, k) \in Seq(Elems) /\ Len(Sfx(t, k)) = Len(t) - k /\ \A i \in 1..(Len(t) - k) : Sfx(t, k)[i] = t[i + k]
  BY <1>1, SfxIs
<1>3. Len(t) - k >= 1
  BY <1>1, <1>2, EmptySeq
<1>4. k + 1 \in 1..Len(t) /\ (k + 1) - 1 = k /\ k + 1 # 1 /\ Sfx(t, k)[1] = t[k + 1]
  <2>1. 1 \in 1..(Len(t) - k) /\ 1 + k = k + 1
    BY <1>1, <1>3
  <2> QED
    BY <1>1, <1>2, <1>3, <2>1
<1>5. Rests(t, k + 1) /\ t[k + 1].op = "restore"
  BY <1>4 DEF Stack
<1>6. Caps(t[k], t[k + 1])
  <2>1. PICK m \in Nat : m = k + 1
    BY <1>1
  <2>2. Kept(t, m) /\ m > 1 /\ m - 1 = k
    BY <1>1, <1>5, <2>1 DEF Rests
  <2>3. ~t[m].failed
    <3>1. m # 1
      BY <2>1, <2>2
    <3> QED
      BY <2>2, <3>1, Zenon DEF Kept
  <2>4. Caps(t[m - 1], t[m])
    BY <2>2, <2>3 DEF Kept
  <2> QED
    BY <2>1, <2>2, <2>4
<1>7. t[k].op = "caught" /\ t[k].then = <<Twin(t[k + 1], TRUE)>>
  BY <1>6 DEF Caps, Twin
<1>8. \A y : <<y>> \in Seq(Instructions) => y \in Instructions
  <2> TAKE y
  <2> HAVE <<y>> \in Seq(Instructions)
  <2>1. <<y>>[1] = y /\ 1 \in 1..Len(<<y>>)
    OBVIOUS
  <2> QED
    BY <2>1, ElementOfSeq
<1>9. Twin(t[k + 1], TRUE).op = "restore"
  BY DEF Twin
<1>10. Twin(t[k + 1], TRUE) \in Instructions
  BY <1>7, <1>8
<1> QED
  BY <1>9, <1>10, PlainKinds

LEMMA Dropped ==
  ASSUME NEW t \in Seq(Elems), Stack(t), NEW j \in 1..Len(t)
  PROVE  /\ Sfx(t, j) \in Seq(Elems) /\ Stack(Sfx(t, j)) /\ Settled(Sfx(t, j)) /\ EndsIn(t, j, Sfx(t, j))
         /\ Len(Sfx(t, j)) = Len(t) - j
         /\ Handled(Sfx(t, j), 0) <=> Handled(t, j)
         /\ Looped(Sfx(t, j), 0) <=> Looped(t, j)
         /\ \A y : Fits(Sfx(t, j), 0, y) <=> Fits(t, j, y)
         /\ \A v : InForce(Sfx(t, j), 1, v) <=> InForce(t, j + 1, v)
<1> DEFINE B == Sfx(t, j)
<1>1. j \in 0..Len(t) /\ Len(t) \in Nat
  OBVIOUS
<1>2. B \in Seq(Elems) /\ Len(B) = Len(t) - j /\ EndsIn(t, j, B)
  BY <1>1, SfxIs, SfxEnds
<1>3. Stack(B) /\ Settled(B)
  BY <1>1, StackEnds, SettledEnds
<1> HIDE DEF B
<1>4. 0 \in 0..Len(B) /\ 0 + j = j /\ 0 + 1 + j = j + 1 /\ 0 + 1 = 1
  BY <1>1, <1>2
<1>5. /\ Handled(t, 0 + j) <=> Handled(B, 0)
      /\ Looped(t, 0 + j) <=> Looped(B, 0)
      /\ \A v : InForce(t, 0 + 1 + j, v) <=> InForce(B, 0 + 1, v)
      /\ \A y : Fits(t, 0 + j, y) <=> Fits(B, 0, y)
  BY <1>2, <1>4, BelowIs
<1>6. /\ Handled(B, 0) <=> Handled(t, j)
      /\ Looped(B, 0) <=> Looped(t, j)
      /\ \A y : Fits(B, 0, y) <=> Fits(t, j, y)
  BY <1>4, <1>5
<1>7. \A v : InForce(B, 1, v) <=> InForce(t, j + 1, v)
  BY <1>4, <1>5
<1> QED
  BY <1>2, <1>3, <1>6, <1>7 DEF B

\* The stack after a failure is well formed, with the ban in force that was in force at its handler.
LEMMA GaveUpStack ==
  ASSUME NEW t \in Seq(Elems), Stack(t), t # << >>, Handled(t, 1), NEW a \in 1..2,
         \/ a = 1 /\ t[1].op \notin {"caught", "restore"}
         \/ a = 2 /\ t[1].op = "restore" /\ t[1].failed
  PROVE  LET G == GaveUp(Tail(t))
         IN G \in Seq(Elems) /\ Stack(G) /\ \A v : InForce(t, a + 1, v) => InForce(G, 1, v)
<1> DEFINE G == GaveUp(Tail(t))
<1>1. PICK j \in 2..Len(t) :
        /\ t[j].op \in {"caught", "mark"} /\ \A k \in 2..(j - 1) : t[k].op \notin {"caught", "mark"}
        /\ G = (IF t[j].op = "caught" THEN t[j].then ELSE <<[t[j] EXCEPT !.op = "undo"]>>) \o Sfx(t, j)
  BY GaveUpIs
<1> HIDE DEF G
<1> DEFINE B == Sfx(t, j)
<1>2. /\ B \in Seq(Elems) /\ Stack(B) /\ Settled(B) /\ EndsIn(t, j, B) /\ Len(B) = Len(t) - j
      /\ \A y : Fits(B, 0, y) <=> Fits(t, j, y)
      /\ \A v : InForce(B, 1, v) <=> InForce(t, j + 1, v)
  BY Dropped
<1>3. Len(t) \in Nat /\ j \in 1..Len(t) /\ t[j] \in Elems /\ 1 \in 1..Len(t)
  BY ElementOfSeq
<1>4. a \in 1..j /\ t[a].op # "caught" /\ (t[a].op = "restore" => ~t[a].failed) /\ t[j].op # "restore"
  <2>1. CASE a = 1
    BY <1>1, <1>3, <2>1
  <2>2. CASE a = 2
    <3>1. Kept(t, 1)
      BY <1>3, <2>2 DEF Stack, Rests
    <3>4. t[1].failed
      BY <2>2
    <3>2. t[2] = Twin(t[1], FALSE)
      BY <3>1, <3>4, Zenon DEF Kept
    <3>3. t[2].op = "restore" /\ ~t[2].failed
      BY <3>2 DEF Twin
    <3> QED
      BY <1>1, <1>3, <2>2, <3>3
  <2> QED
    BY <2>1, <2>2
<1>5. \A k \in (a + 1)..j : t[k].op # "restore"
  <2>1. \A k \in (a + 1)..(j - 1) : k \in 2..(j - 1)
    BY <1>3
  <2> QED
    BY <1>1, <1>3, <1>4, <2>1, NoneDropped
<1>6. \A v : InForce(t, a + 1, v) <=> InForce(B, 1, v)
  <2>1. a + 1 \in 1..(j + 1)
    BY <1>3, <1>4
  <2> QED
    BY <1>2, <1>5, <2>1, ForceEnds
<1>7. CASE t[j].op = "mark"
  <2> DEFINE x == [t[j] EXCEPT !.op = "undo"]
  <2>1. x \in Saves /\ x.op = "undo"
    <3>1. t[j] \in Saves
      BY <1>3, <1>7, ElemKinds
    <3> QED
      BY <3>1 DEF Saves
  <2>2. Uncapped(B)
    BY <1>3, <1>7, UncappedBelow
  <2> HIDE DEF x, B
  <2>3. Stands(x, B)
    BY <2>1, <2>2 DEF Stands, Frames, Elems
  <2>4. G = <<x>> \o B
    BY <1>1, <1>7 DEF x, B
  <2>5. <<x>> \o B \in Seq(Elems) /\ Stack(<<x>> \o B) /\ \A v : InForce(<<x>> \o B, 1, v) <=> InForce(B, 1, v)
    BY <1>2, <2>1, <2>3, PushFrame
  <2> QED
    BY <1>6, <2>4, <2>5 DEF G
<1>8. CASE t[j].op = "caught"
  <2>1. Resumes(t, j) /\ G = t[j].then \o B
    BY <1>1, <1>3, <1>8 DEF Stack, Rests
  <2>2. CASE t[j].then \in Seq(Instructions) /\ \A x \in Elements(t[j].then) : Fits(t, j, x)
    <3>1. PICK s \in Seq(Instructions) : s = t[j].then
      BY <2>2
    <3>2. Uncapped(B)
      BY <1>3, <1>8, <2>2, UncappedBelow
    <3>3. \A x \in Elements(s) : Fits(B, 0, x)
      BY <1>2, <2>2, <3>1
    <3> HIDE DEF B
    <3>4. (Elements(s) \cap MayFail # {} => Handled(B, 0)) /\ (Elements(s) \cap MayBreak # {} => Looped(B, 0))
      BY <3>3 DEF Fits
    <3>5. s \in Seq(Instructions \cup Scans)
      OBVIOUS
    <3>6. s \o B \in Seq(Elems) /\ Stack(s \o B) /\ \A v : InForce(s \o B, 1, v) <=> InForce(B, 1, v)
      BY <1>2, <3>2, <3>4, <3>5, PushCode
    <3> QED
      BY <1>6, <2>1, <3>1, <3>6 DEF G
  <2>3. CASE /\ j < Len(t) /\ t[j + 1].op = "restore" /\ ~t[j + 1].failed
             /\ t[j].then = <<Twin(t[j + 1], TRUE)>> /\ Handled(t, j + 1)
    <3> DEFINE y == t[j + 1]
               x == Twin(y, TRUE)
    <3>1. 1 \in 1..Len(B) /\ B[1] = y /\ B # << >> /\ (Handled(t, 1 + j) <=> Handled(B, 1)) /\ 1 + j = j + 1
      <4>1. 1 \in 1..Len(B) /\ 1 \in 0..Len(B) /\ 1 + j = j + 1
        BY <1>2, <1>3, <2>3
      <4>2. t[1 + j] = B[1]
        BY <1>2, <4>1 DEF EndsIn
      <4>3. Handled(t, 1 + j) <=> Handled(B, 1)
        BY <1>2, <4>1, BelowIs
      <4> HIDE DEF B
      <4> QED
        BY <4>1, <4>2, <4>3
    <3>2. y \in Backs /\ y.op = "restore" /\ ~y.failed
      <4>1. y \in Elems
        BY <1>3, <2>3, ElementOfSeq
      <4> QED
        BY <2>3, <4>1, ElemKinds
    <3> HIDE DEF y, B
    <3>3. x \in Backs /\ x.op = "restore" /\ x.failed /\ x.head = y.head /\ y = Twin(x, FALSE)
      BY <3>2 DEF Backs, Twin
    <3>4. Stands(x, B)
      <4>1. ~Uncapped(B)
        BY <3>1, <3>2 DEF Uncapped
      <4>2. Handled(B, 1)
        BY <2>3, <3>1
      <4> HIDE DEF x
      <4>3. x = Twin(B[1], TRUE)
        BY <3>1 DEF x
      <4> QED
        BY <3>1, <3>3, <4>1, <4>2, <4>3 DEF Stands, Frames, Elems
    <3>5. G = <<x>> \o B
      BY <2>1, <2>3 DEF y
    <3>6. <<x>> \o B \in Seq(Elems) /\ Stack(<<x>> \o B)
      BY <1>2, <3>4, PushFrame
    <3>7. ASSUME NEW v, InForce(B, 1, v) PROVE InForce(<<x>> \o B, 1, v)
      <4>1. v = y.head
        <5>1. ~(\A i \in 1..Len(B) : B[i].op # "restore")
          BY <3>1, <3>2
        <5>2. PICK m \in 1..Len(B) : B[m].head = v /\ \A k \in 1..(m - 1) : B[k].op # "restore"
          BY <3>7, <5>1 DEF InForce
        <5>3. m = 1
          <6>1. m # 1 => 1 \in 1..(m - 1)
            OBVIOUS
          <6> QED
            BY <3>1, <3>2, <5>2, <6>1
        <5> QED
          BY <3>1, <5>2, <5>3
      <4>4. x \in Elems
        BY <3>4 DEF Stands
      <4>5. <<x>> \o B \in Seq(Elems) /\ Len(<<x>> \o B) = Len(B) + 1 /\ (<<x>> \o B)[1] = x
        BY <1>2, <4>4, OnTop
      <4>2. PICK u \in Seq(Elems) : u = <<x>> \o B /\ Len(u) = Len(B) + 1 /\ u[1] = x
        BY <4>5
      <4>3. 1 \in 1..Len(u) /\ \A k \in 1..(1 - 1) : u[k].op # "restore"
        BY <1>2, <4>2
      <4> QED
        BY <3>3, <4>1, <4>2, <4>3 DEF InForce
    <3> QED
      BY <1>6, <3>5, <3>6, <3>7 DEF G, B
  <2> QED
    BY <2>1, <2>2, <2>3 DEF Resumes
<1> QED
  BY <1>1, <1>7, <1>8

LEMMA LeftStack ==
  ASSUME NEW t \in Seq(Elems), Stack(t), t # << >>, Looped(t, 1), t[1].op \notin {"caught", "restore"}
  PROVE  LET G == Left(Tail(t))
         IN G \in Seq(Elems) /\ Stack(G) /\ \A v : InForce(t, 2, v) => InForce(G, 1, v)
<1>1. PICK j \in 2..Len(t) :
        /\ t[j].op = "loop" /\ \A k \in 2..(j - 1) : t[k].op \notin {"loop", "caught", "mark", "restore"}
        /\ Left(Tail(t)) = Sfx(t, j)
  BY LeftIs
<1> DEFINE B == Sfx(t, j)
<1>2. /\ B \in Seq(Elems) /\ Stack(B) /\ EndsIn(t, j, B)
  BY Dropped
<1>3. j \in Nat /\ 2 \in 1..(j + 1) /\ \A k \in 2..j : k \in 2..(j - 1) \/ k = j
  OBVIOUS
<1>4. \A k \in 2..j : t[k].op # "restore"
  BY <1>1, <1>3
<1> HIDE DEF B
<1>5. \A v : InForce(t, 2, v) <=> InForce(B, 1, v)
  BY <1>2, <1>3, <1>4, ForceEnds
<1> QED
  BY <1>1, <1>2, <1>5 DEF B

\* The marks left by such a step are those there were.
LEMMA SinceIs ==
  ASSUME NEW b
  PROVE  /\ Instructions \cup Scans \cup Backs \subseteq Since(b) /\ Since(b) \subseteq Elems
         /\ Handlers \cup Guards \cup Growns \subseteq Since(b)
<1>1. \A x \in Instructions \cup Scans : x.op \notin {"mark", "undo"}
  BY PlainKinds
<1>2. \A x \in Backs \cup Handlers \cup Guards \cup Growns : x.op \notin {"mark", "undo"}
  BY DEF Backs, Handlers, Guards, Growns
<1> QED
  BY <1>1, <1>2 DEF Since, Elems

LEMMA GaveUpSince ==
  ASSUME NEW b, NEW t \in Seq(Since(b)), t # << >>, Handled(t, 1)
  PROVE  GaveUp(Tail(t)) \in Seq(Since(b))
<1>1. t \in Seq(Elems)
  BY SinceIs
<1>2. PICK j \in 2..Len(t) :
        /\ t[j].op \in {"caught", "mark"}
        /\ GaveUp(Tail(t)) = (IF t[j].op = "caught" THEN t[j].then ELSE <<[t[j] EXCEPT !.op = "undo"]>>) \o Sfx(t, j)
  BY <1>1, GaveUpIs
<1>3. j \in 0..Len(t) /\ j \in 1..Len(t) /\ t[j] \in Since(b) /\ t[j] \in Elems
  BY SinceIs, ElementOfSeq
<1>4. Sfx(t, j) \in Seq(Since(b))
  BY <1>3, SfxIs
<1>5. CASE t[j].op = "caught"
  <2>1. t[j].then \in Seq(Instructions \cup Backs)
    BY <1>3, <1>5, ElemKinds DEF Handlers
  <2>2. PICK s \in Seq(Since(b)) : s = t[j].then
    BY <2>1, SinceIs
  <2>3. s \o Sfx(t, j) \in Seq(Since(b))
    BY <1>4, CatIs
  <2> QED
    BY <1>2, <1>5, <2>2, <2>3
<1>6. CASE t[j].op = "mark"
  <2> DEFINE x == [t[j] EXCEPT !.op = "undo"]
  <2>1. t[j] \in Saves /\ b <= t[j].pos
    BY <1>3, <1>6, ElemKinds DEF Since
  <2>2. x \in Saves /\ x.pos = t[j].pos
    BY <2>1 DEF Saves
  <2>3. x \in Since(b)
    BY <2>1, <2>2 DEF Since, Elems
  <2> HIDE DEF x
  <2>4. PICK s \in Seq(Since(b)) : s = <<x>>
    BY <2>3, OneIs
  <2>5. s \o Sfx(t, j) \in Seq(Since(b))
    BY <1>4, CatIs
  <2>6. t[j].op # "caught"
    BY <1>6
  <2> QED
    BY <1>2, <2>4, <2>5, <2>6 DEF x
<1> QED
  BY <1>2, <1>5, <1>6

-----------------------------------------------------------------------------
(* A step keeps the shape of the call stack.                               *)

LEMMA RestIs ==
  ASSUME NEW b, todo \in Seq(Since(b)), Stack(todo), todo # << >>
  PROVE  /\ todo \in Seq(Elems) /\ ins \in Elems /\ Rests(todo, 1) /\ rest = Sfx(todo, 1)
         /\ rest \in Seq(Since(b)) /\ rest \in Seq(Elems) /\ Stack(rest) /\ Settled(rest)
         /\ Handled(rest, 0) <=> Handled(todo, 1)
         /\ Looped(rest, 0) <=> Looped(todo, 1)
         /\ \A y : Fits(rest, 0, y) <=> Fits(todo, 1, y)
         /\ \A v : InForce(rest, 1, v) <=> InForce(todo, 2, v)
         /\ ins.op \notin {"caught", "restore"} => Uncapped(rest)
         /\ ins.op # "restore" => \A v : InForce(rest, 1, v) <=> InForce(todo, 1, v)
         /\ ins \in MayFail => Handled(todo, 1)
         /\ ins \in MayBreak => Looped(todo, 1)
<1>1. todo \in Seq(Elems)
  BY SinceIs
<1>2. rest = Sfx(todo, 1) /\ Len(todo) >= 1 /\ ins \in Elems /\ rest \in Seq(Since(b)) /\ 1 \in 1..Len(todo)
  <2>1. rest = Sfx(todo, 1) /\ Len(todo) >= 1 /\ ins \in Elems
    BY <1>1, TailIs DEF rest, ins
  <2>2. rest \in Seq(Since(b))
    BY TailIs DEF rest
  <2> QED
    BY <2>1, <2>2
<1>3. /\ rest \in Seq(Elems) /\ Stack(rest) /\ Settled(rest) /\ EndsIn(todo, 1, rest)
      /\ Handled(rest, 0) <=> Handled(todo, 1)
      /\ Looped(rest, 0) <=> Looped(todo, 1)
      /\ \A y : Fits(rest, 0, y) <=> Fits(todo, 1, y)
      /\ \A v : InForce(rest, 1, v) <=> InForce(todo, 2, v)
  BY <1>1, <1>2, Dropped
<1>4. Rests(todo, 1)
  BY <1>2 DEF Stack
<1>5. ins.op \notin {"caught", "restore"} => Uncapped(rest)
  BY <1>1, <1>2, UncappedBelow DEF ins
<1>6. ASSUME ins.op # "restore" PROVE \A v : InForce(rest, 1, v) <=> InForce(todo, 1, v)
  <2>1. 1 \in 1..(1 + 1) /\ \A k \in 1..1 : todo[k].op # "restore"
    BY <1>6 DEF ins
  <2> QED
    BY <1>1, <1>3, <2>1, ForceEnds
<1>7. (ins \in MayFail => Handled(todo, 1)) /\ (ins \in MayBreak => Looped(todo, 1))
  BY <1>4 DEF Rests, Fits, ins
<1> QED
  BY <1>1, <1>2, <1>3, <1>4, <1>5, <1>6, <1>7

LEMMA Brought ==
  ASSUME NEW b, todo \in Seq(Since(b)), Stack(todo), InForce(todo, 1, nsl), todo # << >>, ins.op # "restore",
         NEW s, Brings(s)
  PROVE  s \o rest \in Seq(Since(b)) /\ Stack(s \o rest) /\ InForce(s \o rest, 1, nsl)
<1>1. /\ rest \in Seq(Since(b)) /\ rest \in Seq(Elems) /\ Stack(rest) /\ Settled(rest)
      /\ Handled(rest, 0) <=> Handled(todo, 1)
      /\ Looped(rest, 0) <=> Looped(todo, 1)
      /\ ins.op \notin {"caught", "restore"} => Uncapped(rest)
      /\ InForce(rest, 1, nsl)
      /\ ins \in MayFail => Handled(todo, 1)
      /\ ins \in MayBreak => Looped(todo, 1)
  BY RestIs
<1>2. CASE s = << >>
  <2>1. s \o rest = rest
    BY <1>1, <1>2
  <2> QED
    BY <1>1, <2>1
<1>3. CASE s # << >>
  <2>1. s \in Seq(Instructions \cup Scans) /\ ins.op \notin {"caught", "restore"}
    BY <1>3, PlainKinds DEF Brings
  <2>2. /\ Elements(s) \cap MayFail # {} => Handled(rest, 0)
        /\ Elements(s) \cap MayBreak # {} => Looped(rest, 0)
    BY <1>1 DEF Brings
  <2>3. Stack(s \o rest) /\ InForce(s \o rest, 1, nsl)
    BY <1>1, <2>1, <2>2, PushCode
  <2>4. s \in Seq(Since(b))
    BY <2>1, SinceIs
  <2> QED
    BY <1>1, <2>3, <2>4, CatIs
<1> QED
  BY <1>2, <1>3

LEMMA Rounds ==
  ASSUME NEW b, todo \in Seq(Since(b)), Stack(todo), InForce(todo, 1, nsl), todo # << >>, ins \in Instructions,
         ins.op \in {"infix", "loop"}, NEW s \in Through(ins)
  PROVE  s \o todo \in Seq(Since(b)) /\ Stack(s \o todo) /\ InForce(s \o todo, 1, nsl)
<1>1. /\ todo \in Seq(Elems) /\ rest \in Seq(Elems) /\ Settled(rest) /\ rest = Sfx(todo, 1)
      /\ ins \in MayFail => Handled(todo, 1)
      /\ ins \in MayBreak => Looped(todo, 1)
  BY RestIs
<1>2. /\ s \in Seq(Instructions)
      /\ Elements(s) \cap MayFail # {} => ins \in MayFail
      /\ ins.op # "loop" /\ Elements(s) \cap MayBreak # {} => ins \in MayBreak
  BY ThroughIs
<1>3. Len(todo) \in Nat /\ Len(todo) >= 1 /\ todo[1] = ins /\ Uncapped(todo)
      /\ Len(rest) = Len(todo) - 1 /\ \A i \in 1..(Len(todo) - 1) : rest[i] = todo[i + 1]
  BY <1>1, TailIs DEF ins, rest, Uncapped
<1>4. Settled(todo)
  <2>1. ASSUME NEW i \in 1..Len(todo), i # 1
        PROVE todo[i].op # "undo" /\ (todo[i].op = "restore" => ~todo[i].failed)
    <3>1. PICK k \in 1..(Len(todo) - 1) : i = k + 1
      BY <1>3, <2>1
    <3> QED
      BY <1>1, <1>3, <3>1 DEF Settled
  <2>2. todo[1].op # "undo" /\ todo[1].op # "restore"
    BY <1>3
  <2> QED
    BY <2>1, <2>2 DEF Settled
<1>5. Elements(s) \cap MayFail # {} => Handled(todo, 0)
  <2>1. Handled(todo, 1) => Handled(todo, 0)
    BY <1>3 DEF Handled
  <2> QED
    BY <1>1, <1>2, <2>1
<1>6. Elements(s) \cap MayBreak # {} => Looped(todo, 0)
  <2>1. CASE ins.op = "loop"
    <3>1. 1 \in 1..Len(todo) /\ \A k \in 1..0 : todo[k].op \notin {"caught", "mark", "restore"}
      BY <1>3
    <3> QED
      BY <1>3, <2>1, <3>1 DEF Looped
  <2>2. ASSUME ins.op = "infix", Looped(todo, 1) PROVE Looped(todo, 0)
    <3>1. PICK j \in 2..Len(todo) : todo[j].op = "loop" /\ \A k \in 2..(j - 1) : todo[k].op \notin {"caught", "mark", "restore"}
      BY <2>2 DEF Looped
    <3>2. j \in 1..Len(todo) /\ \A k \in 1..(j - 1) : k = 1 \/ k \in 2..(j - 1)
      BY <1>3
    <3>3. \A k \in 1..(j - 1) : todo[k].op \notin {"caught", "mark", "restore"}
      BY <1>3, <2>2, <3>1, <3>2
    <3> QED
      BY <3>1, <3>2, <3>3 DEF Looped
  <2> QED
    BY <1>1, <1>2, <2>1, <2>2
<1>7. s \in Seq(Instructions \cup Scans) /\ s \in Seq(Since(b))
  BY <1>2, SinceIs
<1>8. Stack(s \o todo) /\ InForce(s \o todo, 1, nsl)
  BY <1>1, <1>3, <1>4, <1>5, <1>6, <1>7, PushCode
<1> QED
  BY <1>7, <1>8, CatIs

\* Code with a frame under it.
LEMMA FramedCode ==
  ASSUME NEW b, NEW t \in Seq(Since(b)), Stack(t), Settled(t), NEW x \in Since(b), Stands(x, t),
         x.op \notin {"undo", "restore"}, NEW s \in Seq(Instructions),
         Elements(s) \cap MayFail # {} => x.op \in {"caught", "mark"} \/ Handled(t, 0),
         Elements(s) \cap MayBreak # {} => x.op = "grown"
  PROVE  /\ (s \o <<x>>) \o t \in Seq(Since(b)) /\ Stack((s \o <<x>>) \o t)
         /\ \A v : InForce((s \o <<x>>) \o t, 1, v) <=> InForce(t, 1, v)
<1> DEFINE u == <<x>> \o t
<1>1. t \in Seq(Elems) /\ x \in Elems
  BY SinceIs
<1>2. /\ u \in Seq(Elems) /\ Stack(u) /\ Settled(u) /\ Uncapped(u)
      /\ \A v : InForce(u, 1, v) <=> InForce(t, 1, v)
  BY <1>1, PushFrame
<1>3. /\ Len(t) \in Nat /\ Len(u) = Len(t) + 1 /\ u[1] = x
      /\ \A i \in 1..Len(t) : u[i + 1] = t[i]
  BY <1>1, OnTop
<1>4. <<x>> \in Seq(Since(b)) /\ s \in Seq(Since(b)) /\ s \in Seq(Instructions \cup Scans)
  BY SinceIs
<1>5. u \in Seq(Since(b)) /\ s \o u \in Seq(Since(b)) /\ (s \o <<x>>) \o t = s \o u
  BY <1>4, CatIs, ConcatAssociative
<1> HIDE DEF u
<1>6. Elements(s) \cap MayFail # {} => Handled(u, 0)
  <2>1. ASSUME x.op \in {"caught", "mark"} PROVE Handled(u, 0)
    <3>1. 1 \in 1..Len(u)
      BY <1>3
    <3> QED
      BY <1>3, <2>1, <3>1 DEF Handled
  <2>2. ASSUME Handled(t, 0) PROVE Handled(u, 0)
    <3>1. PICK j \in 1..Len(t) : t[j].op \in {"caught", "mark"}
      BY <2>2 DEF Handled
    <3>2. PICK m \in 1..Len(u) : m = j + 1
      BY <1>3
    <3>3. u[m].op \in {"caught", "mark"}
      BY <1>3, <3>1, <3>2
    <3> QED
      BY <3>2, <3>3 DEF Handled
  <2> QED
    BY <2>1, <2>2
<1>7. Elements(s) \cap MayBreak # {} => Looped(u, 0)
  <2> SUFFICES ASSUME x.op = "grown" PROVE Looped(u, 0)
    OBVIOUS
  <2>1. Looped(t, 0)
    BY DEF Stands
  <2>2. PICK j \in 1..Len(t) : t[j].op = "loop" /\ \A k \in 1..(j - 1) : t[k].op \notin {"caught", "mark", "restore"}
    BY <2>1, SMTT(60) DEF Looped
  <2>3. PICK m \in 1..Len(u) : m = j + 1
    BY <1>3
  <2>4. ASSUME NEW k \in 1..(m - 1) PROVE u[k].op \notin {"caught", "mark", "restore"}
    <3>1. CASE k = 1
      BY <1>3, <3>1
    <3>2. CASE k # 1
      <4>1. PICK i \in 1..(j - 1) : k = i + 1
        BY <2>3, <3>2
      <4>2. i \in 1..Len(t)
        BY <4>1
      <4> QED
        BY <1>3, <2>2, <4>1, <4>2
    <3> QED
      BY <3>1, <3>2
  <2>5. u[m].op = "loop"
    BY <1>3, <2>2, <2>3
  <2> QED
    BY <2>3, <2>4, <2>5 DEF Looped
<1>8. Stack(s \o u) /\ \A v : InForce(s \o u, 1, v) <=> InForce(u, 1, v)
  BY <1>2, <1>4, <1>6, <1>7, PushCode
<1> QED
  BY <1>2, <1>5, <1>8

\* The frames: a handler, a mark, a note of the position, of the item made before, of the ban to put back.
LEMMA Framing ==
  ASSUME TypeOK, NEW b \in Nat, todo \in Seq(Since(b)), Stack(todo), InForce(todo, 1, nsl),
         Now("speculate") => b <= pos,
         \/ Handle \/ NotePosition \/ BlockItem
         \/ nsl' = nsl /\ events' = events /\ Now("speculate") /\ todo' = ins.body \o <<Saved>> \o rest
  PROVE  todo' \in Seq(Since(b)) /\ Stack(todo') /\ InForce(todo', 1, nsl')
<1> DEFINE S(x) == /\ x \in Since(b) /\ Stands(x, rest) /\ x.op \notin {"undo", "restore"}
<1>1. ASSUME todo # << >>, ins.op \notin {"caught", "restore"}, nsl' = nsl, NEW s \in Seq(Instructions), NEW x, S(x),
             todo' = s \o <<x>> \o rest,
             Elements(s) \cap MayFail # {} => x.op \in {"caught", "mark"} \/ Handled(todo, 1),
             Elements(s) \cap MayBreak # {} => x.op = "grown"
      PROVE  todo' \in Seq(Since(b)) /\ Stack(todo') /\ InForce(todo', 1, nsl')
  <2>1. /\ rest \in Seq(Since(b)) /\ Stack(rest) /\ Settled(rest)
        /\ Handled(rest, 0) <=> Handled(todo, 1)
        /\ InForce(rest, 1, nsl)
    BY <1>1, RestIs
  <2>2. Elements(s) \cap MayFail # {} => x.op \in {"caught", "mark"} \/ Handled(rest, 0)
    BY <1>1, <2>1
  <2>3. /\ (s \o <<x>>) \o rest \in Seq(Since(b)) /\ Stack((s \o <<x>>) \o rest)
        /\ \A v : InForce((s \o <<x>>) \o rest, 1, v) <=> InForce(rest, 1, v)
    BY <1>1, <2>1, <2>2, FramedCode
  <2> QED
    BY <1>1, <2>1, <2>3
<1>2. CASE Handle
  <2>1. Now("catch") /\ nsl' = nsl
    BY <1>2 DEF Handle, flags
  <2>2. ins \in Instructions /\ ins.op = "catch" /\ todo # << >>
    BY <2>1, TopIs DEF Kinds
  <2>3. ins.then \in Through(ins) /\ ins.body \in Seq(Instructions) /\ Elements(ins.body) \cap MayBreak = {}
    BY <2>2, ThroughOf, Climbing
  <2> DEFINE x == [op |-> "caught", then |-> ins.then]
  <2>4. todo' = ins.body \o <<x>> \o rest
    BY <1>2 DEF Handle
  <2>5. /\ Uncapped(rest) /\ \A y : Fits(rest, 0, y) <=> Fits(todo, 1, y)
        /\ ins \in MayFail => Handled(todo, 1)
        /\ ins \in MayBreak => Looped(todo, 1)
    BY <2>2, RestIs
  <2>6. x.then = ins.then /\ x.op = "caught" /\ ins.then \in Seq(Instructions) /\ x \in Handlers
    BY <2>2, <2>3, ThroughIs DEF Handlers
  <2> HIDE DEF x
  <2>7. \A y \in Elements(ins.then) : Fits(rest, 0, y)
    BY <2>2, <2>3, <2>5, ThroughIs DEF Fits
  <2>8. x \in Since(b) /\ x \in Elems
    BY <2>6, SinceIs
  <2>9. Stands(x, rest)
    BY <2>5, <2>6, <2>7, <2>8 DEF Stands, Frames
  <2> QED
    BY <1>1, <2>1, <2>2, <2>3, <2>4, <2>6, <2>8, <2>9
<1>3. CASE NotePosition
  <2>1. Now("advancing") /\ nsl' = nsl
    BY <1>3 DEF NotePosition, flags
  <2>2. ins \in Instructions /\ ins.op = "advancing" /\ todo # << >>
    BY <2>1, TopIs DEF Kinds
  <2>3. ins.body \in Through(ins) /\ Elements(ins.body) \cap MayBreak = {}
    BY <2>2, ThroughOf, Climbing
  <2> DEFINE x == [op |-> "guard", from |-> pos]
  <2>4. todo' = ins.body \o <<x>> \o rest
    BY <1>3 DEF NotePosition
  <2>5. Uncapped(rest) /\ (ins \in MayFail => Handled(todo, 1))
    BY <2>2, RestIs
  <2>6. x.op = "guard" /\ x \in Guards
    BY DEF Guards, TypeOK
  <2> HIDE DEF x
  <2>7. ins.body \in Seq(Instructions) /\ (Elements(ins.body) \cap MayFail # {} => Handled(todo, 1))
    BY <2>2, <2>3, <2>5, ThroughIs
  <2>8. x \in Since(b) /\ x \in Elems
    BY <2>6, SinceIs
  <2>9. Stands(x, rest)
    BY <2>5, <2>6, <2>8 DEF Stands, Frames
  <2> QED
    BY <1>1, <2>1, <2>2, <2>3, <2>4, <2>6, <2>7, <2>8, <2>9
<1>4. CASE BlockItem
  <2>1. Now("item") /\ nsl' = nsl
    BY <1>4 DEF BlockItem
  <2>2. ins \in Instructions /\ ins.op = "item" /\ todo # << >>
    BY <2>1, TopIs DEF Kinds
  <2>3. <<Call("item")>> \in Through(ins) /\ ins \in MayBreak
    BY <2>2, ThroughOf, Climbing
  <2> DEFINE x == [op |-> "grown", was |-> made]
  <2>4. todo' = <<Call("item"), x>> \o rest
    BY <1>4 DEF BlockItem
  <2>5. /\ Uncapped(rest) /\ (ins \in MayFail => Handled(todo, 1))
        /\ Looped(rest, 0)
    BY <2>2, <2>3, RestIs
  <2>6. x.op = "grown" /\ x \in Growns
    BY DEF Growns, TypeOK
  <2> HIDE DEF x
  <2> DEFINE s == <<Call("item")>>
  <2>7. s \in Seq(Instructions) /\ (Elements(s) \cap MayFail # {} => Handled(todo, 1))
    BY <2>2, <2>3, <2>5, ThroughIs
  <2>8. x \in Since(b) /\ x \in Elems
    BY <2>6, SinceIs
  <2>9. Stands(x, rest)
    BY <2>5, <2>6, <2>8 DEF Stands, Frames
  <2>10. <<Call("item"), x>> = s \o <<x>>
    OBVIOUS
  <2> HIDE DEF s
  <2>11. todo' = s \o <<x>> \o rest
    BY <2>4, <2>10
  <2> QED
    BY <1>1, <2>1, <2>2, <2>6, <2>7, <2>8, <2>9, <2>11
<1>5. CASE nsl' = nsl /\ events' = events /\ Now("speculate") /\ todo' = ins.body \o <<Saved>> \o rest
  <2>1. ins \in Instructions /\ ins.op = "speculate" /\ todo # << >>
    BY <1>5, TopIs DEF Kinds
  <2>2. ins.body \in Seq(Instructions) /\ Elements(ins.body) \cap MayBreak = {} /\ ins.memo \in BOOLEAN
    BY <2>1, ThroughOf, Climbing, Closed
  <2>3. Saved.op = "mark" /\ Saved \in Saves /\ Saved.pos = pos
    BY <2>2 DEF Saved, Saves, TypeOK
  <2>4. Saved \in Since(b) /\ Saved \in Elems
    BY <1>5, <2>3 DEF Since, Elems
  <2>5. Uncapped(rest)
    BY <2>1, RestIs
  <2>6. Stands(Saved, rest)
    BY <2>3, <2>4, <2>5 DEF Stands, Frames
  <2> QED
    BY <1>1, <1>5, <2>1, <2>2, <2>3, <2>4, <2>6
<1> QED
  BY <1>2, <1>3, <1>4, <1>5

\* A ban that begins or is lifted, and one that ends.
LEMMA Limiting ==
  ASSUME TypeOK, NEW b, todo \in Seq(Since(b)), Stack(todo), InForce(todo, 1, nsl), Limit
  PROVE  todo' \in Seq(Since(b)) /\ Stack(todo') /\ InForce(todo', 1, nsl')
<1>1. Now("nsl") /\ nsl' = ins.nsl
  BY DEF Limit
<1>2. ins \in Instructions /\ ins.op = "nsl" /\ todo # << >>
  BY <1>1, TopIs DEF Kinds
<1>3. ins.body \in Through(ins) /\ Elements(ins.body) \cap MayBreak = {} /\ ins.nsl \in BOOLEAN /\ ins \in MayFail
  BY <1>2, ThroughOf, Climbing, Closed
<1>4. /\ rest \in Seq(Since(b)) /\ rest \in Seq(Elems) /\ Stack(rest) /\ Settled(rest) /\ Uncapped(rest)
      /\ Handled(rest, 0) /\ InForce(rest, 1, nsl)
  BY <1>2, <1>3, RestIs
<1> DEFINE back == [op |-> "restore", nsl |-> nsl, head |-> ins.nsl, open |-> Len(nest), failed |-> FALSE]
           out == [op |-> "restore", nsl |-> nsl, head |-> ins.nsl, open |-> Len(nest), failed |-> TRUE]
           x == [op |-> "caught", then |-> <<out>>]
           u == <<back>> \o rest
<1>5. todo' = ins.body \o <<x, back>> \o rest
  BY DEF Limit
<1>6. /\ back \in Backs /\ out \in Backs /\ Twin(back, TRUE) = out
      /\ back.op = "restore" /\ ~back.failed /\ back.nsl = nsl /\ back.head = ins.nsl
  BY <1>3 DEF Backs, Twin, TypeOK
<1>7. x.op = "caught" /\ x.then = <<out>>
  OBVIOUS
<1>8. x \in Handlers
  <2>1. <<out>> \in Seq(Instructions \cup Backs)
    BY <1>6
  <2> HIDE DEF out
  <2> QED
    BY <2>1 DEF Handlers
<1> HIDE DEF back, out, x
<1>9. x \in Since(b) /\ back \in Since(b) /\ back \in Elems /\ x \in Elems
  BY <1>6, <1>8, SinceIs
<1>10. Stands(back, rest)
  BY <1>4, <1>6, <1>9 DEF Stands, Frames
<1>11. u \in Seq(Elems) /\ Stack(u) /\ Settled(u)
  BY <1>4, <1>6, <1>10, PushFrame
<1>12. /\ Len(rest) \in Nat /\ Len(u) = Len(rest) + 1 /\ u[1] = back
       /\ Handled(u, 1) <=> Handled(rest, 0)
  BY <1>4, <1>9, OnTop
<1>13. <<back>> \in Seq(Since(b)) /\ <<x>> \in Seq(Since(b))
  BY <1>9
<1>14. u \in Seq(Since(b))
  BY <1>4, <1>13, CatIs
<1>15. ~Uncapped(u)
  <2>1. u # << >>
    BY <1>11, <1>12
  <2> QED
    BY <1>6, <1>12, <2>1 DEF Uncapped
<1>16. Stands(x, u)
  BY <1>4, <1>6, <1>7, <1>9, <1>12, <1>15 DEF Stands, Frames
<1>17. ins.body \in Seq(Instructions)
  BY <1>2, <1>3, ThroughIs
<1>18. InForce(u, 1, ins.nsl)
  <2>1. 1 \in 1..Len(u) /\ \A k \in 1..(1 - 1) : u[k].op # "restore"
    BY <1>12
  <2> QED
    BY <1>6, <1>12, <2>1 DEF InForce
<1>19. todo' = (ins.body \o <<x>>) \o u
  <2>1. <<x, back>> = <<x>> \o <<back>>
    OBVIOUS
  <2>2. ins.body \in Seq(Since(b))
    BY <1>17, SinceIs
  <2>3. ins.body \o <<x>> \in Seq(Since(b))
    BY <1>13, <2>2, CatIs
  <2>4. ins.body \o (<<x>> \o <<back>>) = (ins.body \o <<x>>) \o <<back>>
    BY <1>13, <2>2, ConcatAssociative
  <2>5. ((ins.body \o <<x>>) \o <<back>>) \o rest = (ins.body \o <<x>>) \o (<<back>> \o rest)
    <3>1. PICK m \in Seq(Since(b)) : m = ins.body \o <<x>>
      BY <2>3
    <3>2. PICK n \in Seq(Since(b)) : n = <<back>>
      BY <1>13
    <3>3. (m \o n) \o rest = m \o (n \o rest)
      BY <1>4, ConcatAssociative, SMTT(60)
    <3> QED
      BY <3>1, <3>2, <3>3
  <2> QED
    BY <1>5, <2>1, <2>4, <2>5
<1> HIDE DEF u
<1>20. /\ (ins.body \o <<x>>) \o u \in Seq(Since(b)) /\ Stack((ins.body \o <<x>>) \o u)
       /\ \A v : InForce((ins.body \o <<x>>) \o u, 1, v) <=> InForce(u, 1, v)
  BY <1>3, <1>7, <1>9, <1>11, <1>14, <1>16, <1>17, FramedCode
<1> QED
  BY <1>1, <1>18, <1>19, <1>20

LEMMA Restoring ==
  ASSUME TypeOK, NEW b, todo \in Seq(Since(b)), Stack(todo), InForce(todo, 1, nsl), Restore
  PROVE  todo' \in Seq(Since(b)) /\ Stack(todo') /\ InForce(todo', 1, nsl')
<1>1. Now("restore") /\ nsl' = ins.nsl /\ todo' = IF ins.failed THEN GaveUp(rest) ELSE rest
  BY DEF Restore
<1>2. ins.op = "restore" /\ todo # << >> /\ ins = todo[1]
  BY <1>1, TopIs DEF ins
<1>3. /\ todo \in Seq(Elems) /\ Rests(todo, 1) /\ rest \in Seq(Since(b)) /\ Stack(rest)
      /\ \A v : InForce(rest, 1, v) <=> InForce(todo, 2, v)
  BY <1>2, RestIs
<1>4. Kept(todo, 1)
  BY <1>2, <1>3 DEF Rests
<1>5. CASE ~ins.failed
  <2>1. InForce(todo, 2, ins.nsl)
    BY <1>2, <1>4, <1>5 DEF Kept
  <2> QED
    BY <1>1, <1>3, <1>5, <2>1
<1>6. CASE ins.failed
  <2>1. Len(todo) > 1 /\ todo[2] = Twin(todo[1], FALSE) /\ Handled(todo, 2)
    BY <1>2, <1>4, <1>6, Zenon DEF Kept
  <2>2. todo[2].op = "restore" /\ todo[2].nsl = ins.nsl
    BY <1>2, <2>1 DEF Twin
  <2>3. Len(todo) \in Nat /\ 2 \in 1..Len(todo)
    BY <1>3, <2>1
  <2>4. Kept(todo, 2)
    BY <2>2, <2>3 DEF Stack, Rests
  <2>5. InForce(todo, 2 + 1, todo[2].nsl)
    BY <2>4, KeptAt
  <2>6. Handled(todo, 1)
    BY <2>1, <2>3 DEF Handled
  <2>7. /\ GaveUp(rest) \in Seq(Elems) /\ Stack(GaveUp(rest))
        /\ \A v : InForce(todo, 2 + 1, v) => InForce(GaveUp(rest), 1, v)
    BY <1>2, <1>3, <1>6, <2>6, GaveUpStack DEF rest
  <2>8. GaveUp(rest) \in Seq(Since(b))
    BY <1>2, <2>6, GaveUpSince DEF rest
  <2> QED
    BY <1>1, <1>6, <2>2, <2>5, <2>7, <2>8
<1> QED
  BY <1>5, <1>6

LEMMA StackStep ==
  ASSUME TypeOK, Stack(todo), InForce(todo, 1, nsl), Moved, NEW b \in Nat, todo \in Seq(Since(b)),
         Now("speculate") => b <= pos
  PROVE  todo' \in Seq(Since(b)) /\ Stack(todo') /\ InForce(todo', 1, nsl')
<1>1. CASE todo' = todo /\ nsl' = nsl
  BY <1>1
<1>2. ASSUME nsl' = nsl, todo # << >>, ins.op # "restore", NEW s, Brings(s), todo' = s \o rest
      PROVE  todo' \in Seq(Since(b)) /\ Stack(todo') /\ InForce(todo', 1, nsl')
  BY <1>2, Brought
<1>3. ASSUME nsl' = nsl, todo # << >>, ins \in Instructions, ins.op \in {"infix", "loop"},
             NEW s \in Through(ins), todo' = s \o todo
      PROVE  todo' \in Seq(Since(b)) /\ Stack(todo') /\ InForce(todo', 1, nsl')
  BY <1>3, Rounds
<1>4. CASE nsl' = nsl /\ todo # << >> /\ ins \in MayFail /\ todo' = GaveUp(rest)
  <2>1. ins.op \notin {"caught", "restore"}
    BY <1>4, PlainKinds
  <2>2. todo \in Seq(Elems) /\ Handled(todo, 1)
    BY <1>4, RestIs
  <2>3. \A v : InForce(todo, 1 + 1, v) <=> InForce(todo, 1, v)
    BY <1>4, <2>1, RestIs
  <2>4. /\ Stack(GaveUp(rest))
        /\ \A v : InForce(todo, 1 + 1, v) => InForce(GaveUp(rest), 1, v)
    BY <1>4, <2>1, <2>2, GaveUpStack DEF rest, ins
  <2>5. GaveUp(rest) \in Seq(Since(b))
    BY <1>4, <2>2, GaveUpSince DEF rest
  <2> QED
    BY <1>4, <2>3, <2>4, <2>5
<1>5. CASE nsl' = nsl /\ todo # << >> /\ (ins \in MayBreak \/ ins.op = "grown") /\ todo' = Left(rest)
  <2>1. ins.op \notin {"caught", "restore"}
    BY <1>5, PlainKinds
  <2>2. todo \in Seq(Elems) /\ Rests(todo, 1)
    BY <1>5, RestIs
  <2>3. Looped(todo, 1)
    BY <1>5, <2>2 DEF Rests, Fits, ins
  <2>4. \A v : InForce(todo, 2, v) <=> InForce(todo, 1, v)
    BY <1>5, <2>1, RestIs
  <2>5. /\ Stack(Left(rest))
        /\ \A v : InForce(todo, 2, v) => InForce(Left(rest), 1, v)
    BY <1>5, <2>1, <2>2, <2>3, LeftStack DEF rest, ins
  <2>6. PICK j \in 2..Len(todo) : Left(rest) = Sfx(todo, j)
    BY <1>5, <2>2, <2>3, LeftIs DEF rest
  <2>7. Left(rest) \in Seq(Since(b))
    BY <2>6, SfxIs
  <2> QED
    BY <1>5, <2>4, <2>5, <2>7
<1> QED
  BY <1>1, <1>2, <1>3, <1>4, <1>5, Framing, Limiting, Restoring DEF Moved

-----------------------------------------------------------------------------
(* What a step does to the cursor and to what was reported.                *)

Reads ==
  \/ Ignored
  \/ Lex
  \/ todo # << >> /\ ins.op \notin {"undo", "speculate", "restore"} /\ \E E \in SUBSET Happenings : "abandoned" \notin E /\ Took(E)
  \/ Reported /\ UNCHANGED cursor
  \/ \E E \in SUBSET Happenings : "abandoned" \notin E /\ Saw(E) /\ UNCHANGED <<cursor, nest>>
  \/ Now("gclose") /\ Consumed /\ UNCHANGED account
  \/ half' = pos /\ UNCHANGED <<file, drawn, base, pos, miss, account>>
  \/ Undo

LEMMA CursorMoves == ASSUME TypeOK, [Next]_vars PROVE Reads
<1>1. /\ {} \subseteq Happenings /\ {"pool type"} \subseteq Happenings
      /\ "abandoned" \notin {} /\ "abandoned" \notin {"pool type"}
  BY DEF Happenings
<1>2. \A op \in Kinds \cup {"guard"} : Now(op) => todo # << >> /\ ins.op = op /\ ins.op \notin {"undo", "restore"}
  BY TopIs DEF Kinds
<1>3. \A op \in {"quiet", "eat", "noted"} : Now(op) => {ins.place} \subseteq Happenings /\ "abandoned" \notin {ins.place}
  <2>1. ASSUME NEW op \in {"quiet", "eat", "noted"}, Now(op) PROVE {ins.place} \subseteq Happenings /\ "abandoned" \notin {ins.place}
    <3>1. ins \in Instructions /\ ins.op \in {"quiet", "eat", "noted"}
      BY <2>1, TopIs DEF Kinds
    <3>2. ins.place # "abandoned"
      BY <3>1, Places
    <3> QED
      BY <3>1, <3>2 DEF Happenings
  <2> QED
    BY <2>1
<1>4. \A op \in {"expect", "quiet", "eat", "noted", "close", "advance", "skip", "gclose", "infix", "guard"} :
         Now(op) /\ Took({}) => Reads
  BY <1>1, <1>2 DEF Reads, Kinds
<1>5. CASE Lex \/ Undo
  BY <1>5 DEF Reads
<1>6. CASE UNCHANGED vars
  BY <1>6 DEF vars, Ignored, Reads
<1>7. CASE Expect
  BY <1>4, <1>7 DEF Expect, Reads
<1>8. CASE ExpectQuietly
  BY <1>3, <1>4, <1>8 DEF ExpectQuietly, Reads
<1>9. CASE EatIf
  <2>1. Now("eat") /\ (Took({}) \/ (Saw({ins.place} \ {""}) /\ UNCHANGED <<cursor, nest>>))
    BY <1>9 DEF EatIf
  <2>2. {ins.place} \ {""} \subseteq Happenings /\ "abandoned" \notin {ins.place} \ {""}
    BY <1>3, <2>1
  <2> QED
    BY <1>4, <2>1, <2>2 DEF Reads
<1>10. CASE EatNoted
  <2>1. Now("noted") /\ (Took({ins.place}) \/ Ignored)
    BY <1>10 DEF EatNoted
  <2> QED
    BY <1>2, <1>3, <2>1 DEF Reads, Kinds
<1>11. CASE CloseOrReport
  BY <1>4, <1>11 DEF CloseOrReport, Reads
<1>12. CASE Advance
  BY <1>4, <1>12 DEF Advance
<1>13. CASE Report
  BY <1>13 DEF Report, Reads
<1>14. CASE GiveUp \/ LookAhead \/ MatchToken \/ SetVal \/ NoteTier \/ AskVal \/ CallRule \/ ParseBp \/ Repeat \/ BreakOut
            \/ Handle \/ NothingCaught \/ NotePosition \/ Limit \/ Restore \/ Attempt \/ Succeed \/ LambdaResult \/ BlockItem
            \/ BlockGrown \/ ItemMade
  <2>1. Ignored
    BY <1>14, Zenon DEF GiveUp, LookAhead, MatchToken, SetVal, NoteTier, AskVal, CallRule, ParseBp, Repeat, BreakOut, Handle,
       NothingCaught, NotePosition, Limit, Restore, Attempt, Succeed, LambdaResult, BlockItem, BlockGrown, ItemMade
  <2> QED
    BY <2>1 DEF Reads
<1>15. CASE SkipToSync
  <2>1. Now("skip") /\ (Took({}) \/ Ignored)
    BY <1>15 DEF SkipToSync
  <2> QED
    BY <1>4, <2>1 DEF Reads
<1>16. CASE GenericClose
  <2>1. Now("gclose") /\ ins \in Instructions /\ ins.op = "gclose"
    BY <1>16, TopIs DEF GenericClose, Kinds
  <2>2. ins.how \in {"emit", "expect", "hope", "fail"}
    BY <2>1, Climbing DEF GClose
  <2>3. \/ Took({})
        \/ Consumed /\ UNCHANGED account
        \/ half' = pos /\ UNCHANGED <<file, drawn, base, pos, miss, account>>
        \/ UNCHANGED cursor /\ (Reported \/ UNCHANGED account \/ (Saw({"pool type"}) /\ UNCHANGED nest))
    BY <1>16, <2>2 DEF GenericClose
  <2>4. CASE UNCHANGED cursor /\ UNCHANGED account
    BY <2>4 DEF Reads, Ignored
  <2> QED
    BY <1>1, <1>4, <2>1, <2>3, <2>4 DEF Reads
<1>17. CASE InfixRound
  <2>1. Now("infix") /\ (Took({}) \/ Ignored)
    BY <1>17 DEF InfixRound
  <2> QED
    BY <1>4, <2>1 DEF Reads
<1>18. CASE GuardProgress
  <2>1. Now("guard") /\ (Took({}) \/ Ignored)
    BY <1>18 DEF GuardProgress
  <2> QED
    BY <1>4, <2>1 DEF Reads
<1> QED
  BY <1>5, <1>6, <1>7, <1>8, <1>9, <1>10, <1>11, <1>12, <1>13, <1>14, <1>15, <1>16, <1>17, <1>18 DEF Next

LEMMA NestedIs == ASSUME nest \in Seq(Closing), NEW t PROVE Nested(t) \in Seq(Closing)
<1>1. CASE t \in Opening
  <2>1. Partner[t] \in Closing
    BY <1>1 DEF Partner, Opening, Closing
  <2>2. <<Partner[t]>> \in Seq(Closing)
    BY <2>1
  <2>3. <<Partner[t]>> \o nest \in Seq(Closing)
    BY <2>2, CatIs
  <2> QED
    BY <1>1, <2>3 DEF Nested
<1>2. CASE t \notin Opening /\ t \in Closing
  <2>1. <<t>> \in Seq(Closing)
    BY <1>2
  <2>2. <<t>> \o nest \in Seq(Closing)
    BY <2>1, CatIs
  <2>3. nest # << >> => Tail(nest) \in Seq(Closing)
    BY TailIs
  <2> QED
    BY <1>2, <2>2, <2>3 DEF Nested
<1> QED
  BY <1>1, <1>2 DEF Nested

LEMMA ConsumedIs ==
  ASSUME TypeOK, Consumed
  PROVE  /\ drawn' \in Seq(Tokens) /\ file' \in Files /\ base' \in Nat /\ pos' \in Nat /\ base' <= pos'
         /\ half' \in Int /\ half' <= pos' /\ pos <= pos'
         /\ base' = base \/ (~Speculating /\ base' = pos')
<1>0. base \in Nat /\ pos \in Nat /\ base <= pos /\ half \in Int /\ half <= pos /\ file \in Files
  BY DEF TypeOK
<1>1. pos' \in Nat /\ pos <= pos' /\ file' = file /\ half' = half
  BY <1>0 DEF Consumed
<1>2. CASE Speculating
  <2>1. drawn' = drawn /\ base' = base
    BY <1>2 DEF Consumed
  <2> QED
    BY <1>1, <2>1 DEF TypeOK
<1>3. CASE ~Speculating
  <2>1. drawn' = SubSeq(drawn, pos' - base + 1, Len(drawn)) /\ base' = pos'
    BY <1>3 DEF Consumed
  <2>2. PICK k \in Nat : k = pos' - base /\ pos' - base + 1 = k + 1
    <3>1. \A x, y, z \in Nat : x <= y /\ y <= z => \E k \in Nat : k = z - x /\ z - x + 1 = k + 1
      OBVIOUS
    <3> QED
      BY <1>0, <1>1, <3>1
  <2>3. \A i \in (k + 1)..Len(drawn) : drawn[i] \in Tokens
    BY <2>2 DEF TypeOK
  <2>4. SubSeq(drawn, k + 1, Len(drawn)) \in Seq(Tokens)
    <3>1. drawn \in Seq(Tokens) /\ Len(drawn) \in Nat
      BY DEF TypeOK
    <3> QED
      BY <2>3, <3>1, SubSeqProperties
  <2> QED
    <3>1. drawn' \in Seq(Tokens)
      BY <2>1, <2>2, <2>4
    <3>2. base' = pos' /\ base' \in Nat /\ base' <= pos' /\ half' \in Int /\ half' <= pos'
      BY <1>0, <1>1, <2>1
    <3> QED
      BY <1>0, <1>1, <1>3, <3>1, <3>2
<1> QED
  BY <1>2, <1>3

LEMMA LexIs ==
  ASSUME TypeOK, Lex
  PROVE  drawn' \in Seq(Tokens) /\ UNCHANGED <<file, todo, base, pos, half, miss, flags, account>>
<1> DEFINE n == base + Len(drawn)
           given == Len(file.begins)
<1>1. PICK t \in CASE n < given -> {file.begins[n + 1]}
                  [] n < given + file.more -> file.tokens \cup {"eof"}
                  [] OTHER -> {"eof"} : drawn' = Append(drawn, t)
  BY DEF Lex
<1>2. file.begins \in Seq(STRING) /\ file.tokens \subseteq STRING /\ n \in Nat /\ given \in Nat
  BY FilesAssumption DEF TypeOK
<1>3. n < given => file.begins[n + 1] \in STRING
  BY <1>2
<1>4. t \in Tokens
  BY <1>1, <1>2, <1>3 DEF Tokens
<1> QED
  BY <1>1, <1>4 DEF Lex, TypeOK

\* The types of all but the call stack, and what becomes of the position of the first token kept.
LEMMA TypeMoves ==
  ASSUME TypeOK, [Next]_vars
  PROVE  /\ nest' \in Seq(Closing) /\ drawn' \in Seq(Tokens) /\ file' \in Files
         /\ base' \in Nat /\ pos' \in Nat /\ base' <= pos' /\ half' \in Int /\ half' <= pos'
         /\ errs' \in BOOLEAN /\ events' \subseteq Happenings
         /\ \/ base' = base
            \/ todo # << >> /\ ins.op \notin {"undo", "speculate", "restore"} /\ ~Speculating
<1>1. Reads
  BY CursorMoves
<1>2. \A E \in SUBSET Happenings : Saw(E) => events' \subseteq Happenings /\ errs' = errs
  BY DEF Saw, TypeOK
<1>3. CASE Ignored
  BY <1>3 DEF Ignored, cursor, account, TypeOK
<1>4. CASE Lex
  BY <1>4, LexIs DEF account, TypeOK
<1>5. ASSUME todo # << >>, ins.op \notin {"undo", "speculate", "restore"}, NEW E \in SUBSET Happenings, Took(E)
      PROVE  /\ nest' \in Seq(Closing) /\ drawn' \in Seq(Tokens) /\ file' \in Files
             /\ base' \in Nat /\ pos' \in Nat /\ base' <= pos' /\ half' \in Int /\ half' <= pos'
             /\ errs' \in BOOLEAN /\ events' \subseteq Happenings
             /\ base' = base \/ ~Speculating
  <2>1. Consumed /\ Saw(E) /\ nest' = IF errs THEN nest ELSE Nested(Peek)
    BY <1>5 DEF Took
  <2>2. nest' \in Seq(Closing)
    BY <2>1, NestedIs DEF TypeOK
  <2> QED
    BY <1>2, <2>1, <2>2, ConsumedIs DEF TypeOK
<1>6. CASE Reported /\ UNCHANGED cursor
  <2>1. nest' \in Seq(Closing) /\ errs' = TRUE /\ events' = events
    BY <1>6 DEF Reported
  <2> QED
    BY <1>6, <2>1 DEF cursor, TypeOK
<1>7. ASSUME NEW E \in SUBSET Happenings, Saw(E), UNCHANGED <<cursor, nest>>
      PROVE  /\ nest' \in Seq(Closing) /\ drawn' \in Seq(Tokens) /\ file' \in Files
             /\ base' \in Nat /\ pos' \in Nat /\ base' <= pos' /\ half' \in Int /\ half' <= pos'
             /\ errs' \in BOOLEAN /\ events' \subseteq Happenings /\ base' = base
  BY <1>2, <1>7 DEF cursor, TypeOK
<1>8. CASE Now("gclose") /\ Consumed /\ UNCHANGED account
  <2>1. todo # << >> /\ ins.op = "gclose"
    BY <1>8, TopIs
  <2> QED
    BY <1>8, <2>1, ConsumedIs DEF account, TypeOK
<1>9. CASE half' = pos /\ UNCHANGED <<file, drawn, base, pos, miss, account>>
  BY <1>9 DEF account, TypeOK
<1>10. CASE Undo
  <2>1. Now("undo") /\ UNCHANGED <<file, drawn, base, errs>> /\ pos' = ins.pos /\ half' = NoSplit
        /\ nest' = IF errs THEN nest ELSE ins.nest
    BY <1>10 DEF Undo
  <2>2. todo # << >> /\ ins.op = "undo"
    BY <2>1, TopIs
  <2>3. ins \in Since(base)
    BY <2>2, TailIs DEF TypeOK, ins
  <2>4. ins \in Saves /\ base <= ins.pos
    BY <2>2, <2>3, ElemKinds DEF Since
  <2>5. ins.pos \in Nat /\ ins.nest \in Seq(Closing) /\ ins.events \subseteq Happenings
    BY <2>4 DEF Saves
  <2>6. events' \subseteq Happenings
    <3>1. \A e \in {"abandoned"} : e \in Happenings
      BY DEF Happenings
    <3>2. events' = events \/ events' = ins.events \cup {e \in {"abandoned"} : ins.memo /\ ~errs /\ (Seen(1) => Peek # "eof")}
      BY <1>10 DEF Undo
    <3> QED
      BY <2>5, <3>1, <3>2 DEF TypeOK
  <2> QED
    BY <2>1, <2>4, <2>5, <2>6 DEF NoSplit, TypeOK
<1> QED
  BY <1>1, <1>3, <1>4, <1>5, <1>6, <1>7, <1>8, <1>9, <1>10 DEF Reads

LEMMA MadeMoves == ASSUME TypeOK, [Next]_vars PROVE made' \in BOOLEAN
<1>1. CASE BlockGrown
  <2>1. Now("grown") /\ (made' = made \/ made' = ins.was)
    BY <1>1 DEF BlockGrown
  <2>2. ins \in Growns
    BY <2>1, TopIs, ElemKinds
  <2> QED
    BY <2>1, <2>2 DEF Growns, TypeOK
<1>2. CASE BlockItem \/ ItemMade
  <2>1. made' \in {TRUE, FALSE}
    BY <1>2, Zenon DEF BlockItem, ItemMade
  <2> QED
    BY <2>1
<1>3. CASE Lex \/ Expect \/ ExpectQuietly \/ EatIf \/ EatNoted \/ CloseOrReport \/ Advance \/ Report \/ GiveUp
           \/ SkipToSync \/ GenericClose \/ LookAhead \/ MatchToken \/ AskVal \/ CallRule \/ UNCHANGED vars
  <2>1. CASE UNCHANGED vars
    BY <2>1 DEF vars, flags, TypeOK
  <2>2. CASE Lex \/ Expect \/ ExpectQuietly \/ EatIf \/ EatNoted \/ CloseOrReport \/ Advance \/ Report
    <3>1. made' = made
      BY <2>2, ZenonT(60) DEF flags, Lex, Expect, ExpectQuietly, EatIf, EatNoted, CloseOrReport, Advance, Report
    <3> QED
      BY <3>1 DEF TypeOK
  <2>3. CASE GiveUp \/ SkipToSync \/ GenericClose \/ LookAhead \/ MatchToken \/ AskVal \/ CallRule
    <3>1. made' = made
      BY <2>3, ZenonT(60) DEF flags, GiveUp, SkipToSync, GenericClose, LookAhead, MatchToken, AskVal, CallRule
    <3> QED
      BY <3>1 DEF TypeOK
  <2> QED
    BY <1>3, <2>1, <2>2, <2>3
<1>4. CASE SetVal \/ NoteTier \/ ParseBp \/ InfixRound \/ Repeat \/ BreakOut \/ Handle \/ NothingCaught \/ NotePosition
           \/ GuardProgress \/ Limit \/ Restore \/ Attempt \/ Succeed \/ Undo \/ LambdaResult
  <2>1. made' = made
    BY <1>4 DEF flags, SetVal, NoteTier, ParseBp, InfixRound, Repeat, BreakOut, Handle, NothingCaught, NotePosition,
       GuardProgress, Limit, Restore, Attempt, Succeed, Undo, LambdaResult
  <2> QED
    BY <2>1 DEF TypeOK
<1> QED
  BY <1>1, <1>2, <1>3, <1>4 DEF Next

-----------------------------------------------------------------------------
(* The types and the shape of the call stack are kept.                     *)

Shape == TypeOK /\ Stack(todo) /\ InForce(todo, 1, nsl)

LEMMA ShapeInit == Init => Shape
<1> SUFFICES ASSUME Init PROVE Shape
  OBVIOUS
<1>1. todo \in Seq(Instructions) /\ todo = Program
  BY Closed DEF Init
<1>2. Elements(todo) \cap (MayFail \cup MayBreak) = {}
  BY <1>1, Climbing
<1>3. \A i \in 1..Len(todo) : todo[i] \in Instructions /\ todo[i] \in Elements(todo)
  BY <1>1, ElementOfSeq DEF Elements
<1>4. \A i \in 1..Len(todo) : todo[i] \notin MayFail \cup MayBreak /\ todo[i].op \notin {"caught", "mark", "undo", "restore", "guard", "grown"}
  BY <1>2, <1>3, PlainKinds
<1>5. Stack(todo)
  BY <1>4 DEF Stack, Rests, Fits
<1>6. InForce(todo, 1, nsl)
  BY <1>4 DEF InForce, Init
<1>7. todo \in Seq(Since(base))
  BY <1>1, SinceIs
<1>8. TypeOK
  <2>1. << >> \in Seq(Closing) /\ << >> \in Seq(Tokens)
    OBVIOUS
  <2>2. -1 \in Int /\ -1 <= 0 /\ 0 \in Nat /\ 0 <= 0
    OBVIOUS
  <2>3. {} \subseteq Happenings
    OBVIOUS
  <2> QED
    BY <1>7, <2>1, <2>2, <2>3, Zenon DEF TypeOK, Init, NoSplit
<1> QED
  BY <1>5, <1>6, <1>8 DEF Shape

LEMMA ShapeStep == Shape /\ [Next]_vars => Shape'
<1> SUFFICES ASSUME Shape, [Next]_vars PROVE Shape'
  OBVIOUS
<1>1. TypeOK /\ Stack(todo) /\ InForce(todo, 1, nsl) /\ Moved
  BY TodoMoves DEF Shape
<1>2. /\ nest' \in Seq(Closing) /\ drawn' \in Seq(Tokens) /\ file' \in Files
      /\ base' \in Nat /\ pos' \in Nat /\ base' <= pos' /\ half' \in Int /\ half' <= pos'
      /\ errs' \in BOOLEAN /\ events' \subseteq Happenings
  BY <1>1, TypeMoves
<1>3. todo' \in Seq(Since(base')) /\ Stack(todo') /\ InForce(todo', 1, nsl')
  <2>1. CASE base' = base
    <3>1. base \in Nat /\ base <= pos /\ todo \in Seq(Since(base))
      BY <1>1 DEF TypeOK
    <3> QED
      BY <1>1, <2>1, <3>1, StackStep
  <2>2. CASE todo # << >> /\ ins.op \notin {"undo", "speculate", "restore"} /\ ~Speculating
    <3>1. todo \in Seq(Elems)
      BY <1>1, SinceIs DEF TypeOK
    <3>2. ASSUME NEW i \in 1..Len(todo) PROVE todo[i] \in Since(base')
      <4>1. todo[i].op # "mark"
        BY <2>2, <3>1 DEF Speculating
      <4>2. todo[i].op = "undo" => i = 1
        BY <1>1, <3>2 DEF Stack, Rests
      <4>3. todo[i].op # "undo"
        BY <2>2, <4>2 DEF ins
      <4> QED
        BY <3>1, <4>1, <4>3, ElementOfSeq DEF Since
    <3>3. todo \in Seq(Since(base'))
      BY <3>1, <3>2, SeqDef
    <3>4. ~Now("speculate")
      BY <2>2 DEF Now
    <3> QED
      BY <1>1, <1>2, <3>3, <3>4, StackStep
  <2> QED
    BY <1>1, <2>1, <2>2, TypeMoves
<1>4. nsl' \in BOOLEAN
  <2>1. todo' \in Seq(Elems)
    BY <1>3, SinceIs
  <2>2. CASE nsl' = FALSE
    BY <2>2
  <2>3. ASSUME NEW j \in 1..Len(todo'), todo'[j].op = "restore", todo'[j].head = nsl' PROVE nsl' \in BOOLEAN
    <3>1. todo'[j] \in Backs
      BY <2>1, <2>3, ElementOfSeq, ElemKinds
    <3> QED
      BY <2>3, <3>1 DEF Backs
  <2> QED
    BY <1>3, <2>2, <2>3 DEF InForce
<1>5. made' \in BOOLEAN
  BY <1>1, MadeMoves
<1> QED
  BY <1>2, <1>3, <1>4, <1>5 DEF Shape, TypeOK

\* Whatever the files, every failure has a handler on the call stack and every loop that is left is on it
\* with nothing between that is to be put back, and the ban in force is that of the innermost head.
THEOREM WellFormed == Spec => []Shape
<1>1. Init => Shape
  BY ShapeInit
<1>2. Shape /\ [Next]_vars => Shape'
  BY ShapeStep
<1> QED
  BY <1>1, <1>2, PTL DEF Spec

-----------------------------------------------------------------------------
(* What is known all along the call stack while nothing was reported.  The *)
(* stack is counted from its bottom: h[d] is what is known where the d-th  *)
(* element begins and h[d - 1] what is known where it ends.                *)

Points == [kind : {"live", "dead", "lost"}, nest : Seq(Closing), low : Nat, look : Seq(SUBSET STRING),
           mode : {"free", "tight", "bare", "loose"}]
\* f, of a function that began with the brackets R open and n tokens consumed.
Placed(f, R, n) == [kind |-> f.kind, nest |-> f.nest \o R, low |-> f.low + n, look |-> f.look, mode |-> f.mode]
Exit(o, R, n) == [kind |-> "live", nest |-> o.nest \o R, low |-> o.low + n, look |-> << >>,
                  mode |-> IF o.loose THEN "loose" ELSE "free"]
Nowhere == [kind |-> "dead", nest |-> << >>, low |-> 0, look |-> << >>, mode |-> "free"]
\* Where an error follows, whatever is consumed before.
Lost == [kind |-> "lost", nest |-> << >>, low |-> 0, look |-> << >>, mode |-> "free"]

Elem(t, d) == t[Len(t) + 1 - d]
Nearest(t, d, S, j) ==
  j \in 1..(d - 1) /\ Elem(t, j).op \in S /\ \A e \in (j + 1)..(d - 1) : Elem(t, e).op \notin S

\* The places the properties except: at level 1 those that are silent, at 2 the call with a second "(" too,
\* at 3 the brackets that keep a restriction in force too.
Silent(lv) == KnownSilent \cup {e \in {"second ("} : lv >= 2} \cup {e \in {"?.(", "sized ("} : lv = 3}
Clean(lv, E) == E \cap Silent(lv) = {}

\* f may be known at the depth d: what it says of handlers, loops and heads is so of the stack.
Allowed(lv, t, h, d, f, R, n) ==
  /\ f.sp => \E j \in 1..(d - 1) : Nearest(t, d, {"caught", "mark"}, j) /\ Elem(t, j).op = "mark"
  /\ f.out # {} => \E j \in 1..(d - 1) : Nearest(t, d, {"loop"}, j) /\ \A o \in f.out : Leads(Exit(o, R, n), h[j - 1])
  /\ lv = 3 /\ f.mode = "tight" =>
        \E j \in 1..(d - 1) : /\ Nearest(t, d, {"restore"}, j)
                              /\ \/ f.room + Len(R) <= Elem(t, j).open
                                 \/ f.room = 0 /\ R # << >> /\ R[1] = "}"
  /\ f.mode = "free" => \A e \in 1..(d - 1) : Elem(t, e).op # "restore"

Known(T, k) == IF T.seq[k].op \in {"loop", "infix"} THEN Blind(T.at[k]) ELSE T.at[k]
Stood(lv, t, h, d, T, k, R, n) ==
  /\ Elem(t, d) = T.seq[k]
  /\ Leads(h[d], Placed(Known(T, k), R, n)) /\ Leads(Placed(T.at[k + 1], R, n), h[d - 1])
  /\ Allowed(lv, t, h, d, T.at[k], R, n)
Code(lv, t, h, d) ==
  \E T \in Typed : \E k \in 1..Len(T.seq) : \E R \in Seq(Closing) : \E n \in Nat : Stood(lv, t, h, d, T, k, R, n)

Told(lv, x, p) ==
  /\ p.kind = "live" /\ p.low <= x.pos /\ p.look = << >>
  /\ lv >= 2 => p.nest = x.nest
  /\ lv = 3 => p.mode # "loose"
Between(t, h, d, x, a, b) ==
  /\ x.op \in {"caught", "mark", "restore", "guard", "grown"} /\ Leads(a, b)
  /\ x.op = "restore" => ~x.failed
  /\ x.op = "guard" => x.from < a.low
  /\ x.op = "grown" => \E j \in 1..(d - 1) : Nearest(t, d, {"loop"}, j) /\ Leads(a, h[j - 1])
Link(lv, t, h, d) ==
  /\ Elem(t, d).op \in {"mark", "undo"} =>
        ~Elem(t, d).errs /\ (Clean(lv, Elem(t, d).events) => Told(lv, Elem(t, d), h[d - 1]))
  /\ \/ h[d].kind = "dead"
     \/ h[d].kind = "lost" /\ (\/ Elem(t, d).op = "undo"
                               \/ Elem(t, d) = Error
                               \/ Elem(t, d) = Adv /\ h[d - 1].kind = "lost")
     \/ h[d].kind = "live" /\ (\/ Code(lv, t, h, d)
                               \/ Elem(t, d).op = "scan" /\ Leads(Blind(h[d]), h[d - 1])
                               \/ Between(t, h, d, Elem(t, d), h[d], h[d - 1]))

Chain(lv, t, h) ==
  /\ h \in [0..Len(t) -> Points] /\ h[0].kind = "live" /\ h[0].nest = << >>
  /\ \A d \in 1..Len(t) : Link(lv, t, h, d)

\* What is so of the tokens ahead.
Looking == {l \in Seq(SUBSET STRING) : \A k \in 1..Len(l) : Seen(k) /\ At(k) \in l[k]}
TellsOf(lv, p, place, open, looking) ==
  \/ p.kind = "lost"
  \/ /\ p.kind = "live" /\ p.low <= place /\ p.look \in looking
     /\ lv >= 2 => p.nest = open
     /\ lv = 3 => p.mode # "loose"
Tells(lv, p) == TellsOf(lv, p, pos, nest, Looking)
Good(lv) == \E h : Chain(lv, todo, h) /\ (Clean(lv, events) => Tells(lv, h[Len(todo)]))

LEMMA CatThree ==
  ASSUME NEW S, NEW s \in Seq(S), NEW t \in Seq(S), NEW u \in Seq(S)
  PROVE  (s \o t) \o u = s \o (t \o u)
BY ConcatAssociative

LEMMA CatElems == \A s, t, u \in Seq(Elems) : (s \o t) \o u = s \o (t \o u)
BY CatThree

LEMMA CatClosings == \A s, t, u \in Seq(Closing) : (s \o t) \o u = s \o (t \o u)
BY CatThree

LEMMA ElemIs ==
  ASSUME NEW S, NEW t \in Seq(S), NEW d \in 1..Len(t)
  PROVE  Elem(t, d) \in S
<1>0. Len(t) \in Nat
  BY LenProperties
<1>1. Len(t) + 1 - d \in 1..Len(t)
  BY <1>0
<1>2. PICK i \in 1..Len(t) : i = Len(t) + 1 - d
  BY <1>1
<1> QED
  BY <1>2, ElementOfSeq DEF Elem

LEMMA ElemCat ==
  ASSUME NEW S, NEW s \in Seq(S), NEW t \in Seq(S)
  PROVE  /\ \A d \in 1..Len(t) : Elem(s \o t, d) = Elem(t, d)
         /\ \A i \in 1..Len(s) : Elem(s \o t, Len(t) + i) = s[Len(s) + 1 - i]
         /\ Len(s \o t) = Len(s) + Len(t)
<1>1. /\ Len(s \o t) = Len(s) + Len(t) /\ Len(s) \in Nat /\ Len(t) \in Nat
      /\ \A i \in 1..Len(s) : (s \o t)[i] = s[i]
      /\ \A i \in 1..Len(t) : (s \o t)[i + Len(s)] = t[i]
  BY CatIs
<1>2. ASSUME NEW d \in 1..Len(t) PROVE Elem(s \o t, d) = Elem(t, d)
  <2>0. Len(t) + 1 - d \in 1..Len(t)
    BY <1>1
  <2>1. PICK i \in 1..Len(t) : i = Len(t) + 1 - d
    BY <2>0
  <2>2. Len(s \o t) + 1 - d = i + Len(s)
    BY <1>1, <2>1
  <2> QED
    BY <1>1, <2>1, <2>2 DEF Elem
<1>3. ASSUME NEW i \in 1..Len(s) PROVE Elem(s \o t, Len(t) + i) = s[Len(s) + 1 - i]
  <2>1. PICK m : m = Len(s) + 1 - i /\ m \in 1..Len(s)
    <3>1. Len(s) + 1 - i \in 1..Len(s)
      BY <1>1
    <3> QED
      BY <3>1
  <2>2. Len(s \o t) + 1 - (Len(t) + i) = m
    BY <1>1, <2>1
  <2> QED
    BY <1>1, <2>1, <2>2 DEF Elem
<1> QED
  BY <1>1, <1>2, <1>3

LEMMA ElemSfx ==
  ASSUME NEW S, NEW t \in Seq(S), NEW j \in 0..Len(t)
  PROVE  \A d \in 1..(Len(t) - j) : Elem(Sfx(t, j), d) = Elem(t, d)
<1> SUFFICES ASSUME NEW d \in 1..(Len(t) - j) PROVE Elem(Sfx(t, j), d) = Elem(t, d)
  OBVIOUS
<1>0. Len(Sfx(t, j)) = Len(t) - j /\ \A i \in 1..(Len(t) - j) : Sfx(t, j)[i] = t[i + j]
  BY SfxIs, Zenon
<1>1. /\ Len(Sfx(t, j)) = Len(t) - j /\ Len(t) \in Nat
      /\ \A i \in 1..(Len(t) - j) : Sfx(t, j)[i] = t[i + j]
  BY <1>0, LenProperties
<1>2. PICK i : i = Len(t) - j + 1 - d /\ i \in 1..(Len(t) - j)
  <2>1. Len(t) - j + 1 - d \in 1..(Len(t) - j)
    BY <1>1
  <2> QED
    BY <2>1
<1>3. i + j = Len(t) + 1 - d
  BY <1>1, <1>2
<1> QED
  BY <1>1, <1>2, <1>3 DEF Elem

\* The lower part of the stack, up to the depth D, is the same.
Agree(t, u, h, i, D) == (\A e \in 1..D : Elem(u, e) = Elem(t, e)) /\ \A e \in 0..D : i[e] = h[e]

LEMMA AllowedSame ==
  ASSUME NEW t, NEW u, NEW h, NEW i, NEW D \in Nat, Agree(t, u, h, i, D), NEW d \in 1..(D + 1),
         NEW lv, NEW f, NEW R, NEW n, Allowed(lv, t, h, d, f, R, n)
  PROVE  Allowed(lv, u, i, d, f, R, n)
<1>1. ASSUME NEW S, NEW j, Nearest(t, d, S, j)
      PROVE  Nearest(u, d, S, j) /\ Elem(u, j) = Elem(t, j) /\ i[j - 1] = h[j - 1]
  <2>1. j \in 1..(d - 1) /\ j \in 1..D /\ j - 1 \in 0..D /\ \A e \in (j + 1)..(d - 1) : e \in 1..D
    BY <1>1 DEF Nearest
  <2> QED
    BY <1>1, <2>1 DEF Nearest, Agree
<1>2. ASSUME f.sp PROVE \E j \in 1..(d - 1) : Nearest(u, d, {"caught", "mark"}, j) /\ Elem(u, j).op = "mark"
  <2>1. PICK j \in 1..(d - 1) : Nearest(t, d, {"caught", "mark"}, j) /\ Elem(t, j).op = "mark"
    BY <1>2 DEF Allowed
  <2>2. Nearest(u, d, {"caught", "mark"}, j) /\ Elem(u, j) = Elem(t, j)
    BY <1>1, <2>1
  <2> QED
    BY <2>1, <2>2
<1>3. f.out # {} => \E j \in 1..(d - 1) : Nearest(u, d, {"loop"}, j) /\ \A o \in f.out : Leads(Exit(o, R, n), i[j - 1])
  BY <1>1 DEF Allowed
<1>4. lv = 3 /\ f.mode = "tight" =>
        \E j \in 1..(d - 1) : /\ Nearest(u, d, {"restore"}, j)
                              /\ \/ f.room + Len(R) <= Elem(u, j).open
                                 \/ f.room = 0 /\ R # << >> /\ R[1] = "}"
  BY <1>1 DEF Allowed
<1>5. f.mode = "free" => \A e \in 1..(d - 1) : Elem(u, e).op # "restore"
  <2>1. \A e \in 1..(d - 1) : e \in 1..D
    OBVIOUS
  <2> QED
    BY <2>1 DEF Allowed, Agree
<1> QED
  BY <1>2, <1>3, <1>4, <1>5 DEF Allowed

LEMMA LinkSame ==
  ASSUME NEW t, NEW u, NEW h, NEW i, NEW D \in Nat, Agree(t, u, h, i, D), NEW d \in 1..D,
         NEW lv, Link(lv, t, h, d)
  PROVE  Link(lv, u, i, d)
<1>1. Elem(u, d) = Elem(t, d) /\ i[d] = h[d] /\ i[d - 1] = h[d - 1]
  <2>1. d \in 0..D /\ d - 1 \in 0..D
    OBVIOUS
  <2> QED
    BY <2>1 DEF Agree
<1>2. ASSUME Code(lv, t, h, d) PROVE Code(lv, u, i, d)
  <2>1. PICK T \in Typed : \E k \in 1..Len(T.seq) : \E R \in Seq(Closing) : \E n \in Nat : Stood(lv, t, h, d, T, k, R, n)
    BY <1>2 DEF Code
  <2>2. PICK k \in 1..Len(T.seq) : \E R \in Seq(Closing) : \E n \in Nat : Stood(lv, t, h, d, T, k, R, n)
    BY <2>1
  <2>3. PICK R \in Seq(Closing) : \E n \in Nat : Stood(lv, t, h, d, T, k, R, n)
    BY <2>2
  <2>4. PICK n \in Nat : Stood(lv, t, h, d, T, k, R, n)
    BY <2>3
  <2>5. Allowed(lv, u, i, d, T.at[k], R, n)
    BY <2>4, AllowedSame DEF Stood
  <2>6. Stood(lv, u, i, d, T, k, R, n)
    BY <1>1, <2>4, <2>5 DEF Stood
  <2> QED
    BY <2>6 DEF Code
<1>3. ASSUME Between(t, h, d, Elem(t, d), h[d], h[d - 1]) PROVE Between(u, i, d, Elem(u, d), i[d], i[d - 1])
  <2>1. ASSUME NEW j, Nearest(t, d, {"loop"}, j) PROVE Nearest(u, d, {"loop"}, j) /\ i[j - 1] = h[j - 1]
    <3>1. j \in 1..(d - 1) /\ j \in 1..D /\ j - 1 \in 0..D /\ \A e \in (j + 1)..(d - 1) : e \in 1..D
      BY <2>1 DEF Nearest
    <3> QED
      BY <2>1, <3>1 DEF Nearest, Agree
  <2> QED
    BY <1>1, <1>3, <2>1 DEF Between
<1> QED
  BY <1>1, <1>2, <1>3 DEF Link

\* What is dropped from the top takes nothing from what is below.
Below(lv, t, h, j, i) == /\ Chain(lv, Sfx(t, j), i) /\ (\A e \in 0..(Len(t) - j) : i[e] = h[e])
                         /\ i[Len(Sfx(t, j))] = h[Len(t) - j]
LEMMA ChainDrops ==
  ASSUME NEW lv, NEW t \in Seq(Elems), NEW h, Chain(lv, t, h), NEW j \in 0..Len(t)
  PROVE  \E i : Below(lv, t, h, j, i)
<1> DEFINE u == Sfx(t, j)
           L == Len(t) - j
           i == [e \in 0..L |-> h[e]]
<1>1. u \in Seq(Elems) /\ Len(u) = L /\ L \in Nat /\ L <= Len(t)
  <2>1. u \in Seq(Elems) /\ Len(u) = L
    BY SfxIs
  <2>2. L \in Nat /\ L <= Len(t)
    BY LenProperties
  <2> QED
    BY <2>1, <2>2
<1>2. \A e \in 1..L : Elem(u, e) = Elem(t, e)
  BY ElemSfx
<1> HIDE DEF u
<1>3. Agree(t, u, h, i, L)
  BY <1>2 DEF Agree
<1>4. i \in [0..L -> Points] /\ i[0] = h[0] /\ i[L] = h[L]
  <2>1. \A e \in 0..L : e \in 0..Len(t)
    BY <1>1
  <2> QED
    BY <1>1, <2>1 DEF Chain
<1> HIDE DEF i
<1>5. ASSUME NEW d \in 1..L PROVE Link(lv, u, i, d)
  <2>1. d \in 1..Len(t)
    BY <1>1
  <2> QED
    BY <1>1, <1>3, <2>1, LinkSame DEF Chain
<1>6. Chain(lv, u, i)
  BY <1>1, <1>4, <1>5 DEF Chain
<1>7. (\A e \in 0..L : i[e] = h[e]) /\ i[Len(u)] = h[L]
  BY <1>1, <1>3, <1>4 DEF Agree
<1>8. Below(lv, t, h, j, i)
  BY <1>6, <1>7 DEF u, Below
<1> QED
  BY <1>8

\* One more element, with what is known where it begins.
Topped(t, h, x, p, i) ==
  Agree(t, <<x>> \o t, h, i, Len(t)) /\ i[Len(t) + 1] = p /\ Elem(<<x>> \o t, Len(t) + 1) = x
Joins(lv, t, h, x, p) == \A i : Topped(t, h, x, p, i) => Link(lv, <<x>> \o t, i, Len(t) + 1)
Grown(lv, t, h, x, p, i) ==
  /\ <<x>> \o t \in Seq(Elems) /\ Chain(lv, <<x>> \o t, i) /\ (\A e \in 0..Len(t) : i[e] = h[e])
  /\ i[Len(t) + 1] = p /\ Len(<<x>> \o t) = Len(t) + 1 /\ Topped(t, h, x, p, i)
LEMMA ChainGrows ==
  ASSUME NEW lv, NEW t \in Seq(Elems), NEW h, Chain(lv, t, h), NEW x \in Elems, NEW p \in Points, Joins(lv, t, h, x, p)
  PROVE  \E i : Grown(lv, t, h, x, p, i)
<1> DEFINE u == <<x>> \o t
           L == Len(t)
           i == [e \in 0..(L + 1) |-> IF e = L + 1 THEN p ELSE h[e]]
<1>1. /\ u \in Seq(Elems) /\ Len(u) = L + 1 /\ L \in Nat
      /\ \A d \in 1..L : Elem(u, d) = Elem(t, d)
      /\ Elem(u, L + 1) = x
  <2>1. <<x>> \in Seq(Elems) /\ Len(<<x>>) = 1 /\ <<x>>[1] = x
    OBVIOUS
  <2>2. PICK s \in Seq(Elems) : s = <<x>>
    BY <2>1
  <2>3. /\ \A d \in 1..L : Elem(s \o t, d) = Elem(t, d)
        /\ \A e \in 1..Len(s) : Elem(s \o t, L + e) = s[Len(s) + 1 - e]
        /\ Len(s \o t) = Len(s) + L /\ s \o t \in Seq(Elems)
    BY ElemCat, CatIs
  <2>4. 1 \in 1..Len(s) /\ Len(s) + 1 - 1 = 1
    BY <2>1, <2>2
  <2> QED
    BY <2>1, <2>2, <2>3, <2>4
<1> HIDE DEF u
<1>2. i \in [0..(L + 1) -> Points] /\ i[0] = h[0] /\ i[L + 1] = p /\ \A e \in 0..L : i[e] = h[e]
  <2>1. h \in [0..L -> Points]
    BY DEF Chain
  <2>2. 0 \in 0..L /\ L + 1 \notin 0..L /\ 0 \in 0..(L + 1) /\ L + 1 \in 0..(L + 1)
        /\ \A e \in 0..(L + 1) : e = L + 1 \/ e \in 0..L
    BY <1>1
  <2> QED
    BY <1>1, <2>1, <2>2
<1> HIDE DEF i
<1>3. Agree(t, u, h, i, L)
  BY <1>1, <1>2 DEF Agree
<1>4. ASSUME NEW d \in 1..(L + 1) PROVE Link(lv, u, i, d)
  <2>1. CASE d = L + 1
    <3>1. Topped(t, h, x, p, i)
      BY <1>1, <1>2, <1>3 DEF u, Topped
    <3> QED
      BY <2>1, <3>1 DEF u, Joins
  <2>2. CASE d # L + 1
    <3>1. d \in 1..L
      BY <1>1, <2>2
    <3> QED
      BY <1>1, <1>3, <3>1, LinkSame DEF Chain
  <2> QED
    BY <2>1, <2>2
<1>5. Chain(lv, u, i)
  BY <1>1, <1>2, <1>4 DEF Chain
<1>6. Topped(t, h, x, p, i)
  BY <1>1, <1>2, <1>3 DEF u, Topped
<1>7. Grown(lv, t, h, x, p, i)
  BY <1>1, <1>2, <1>5, <1>6 DEF u, Grown
<1> QED
  BY <1>7

LEMMA LeadsTrans ==
  ASSUME NEW a, NEW b, NEW c, a.low \in Nat, b.low \in Nat, c.low \in Nat, Leads(a, b), Leads(b, c)
  PROVE  Leads(a, c)
<1>1. CASE a.kind = "dead"
  BY <1>1 DEF Leads
<1>2. CASE a.kind # "dead"
  <2>1. /\ a.kind = "live" /\ b.kind = "live" /\ a.nest = b.nest /\ b.low <= a.low
        /\ b.look \in {<< >>, a.look}
        /\ b.mode = "loose" => a.mode = "loose"
    BY <1>2 DEF Leads
  <2>2. /\ c.kind = "live" /\ b.nest = c.nest /\ c.low <= b.low
        /\ c.look \in {<< >>, b.look}
        /\ c.mode = "loose" => b.mode = "loose"
    BY <2>1 DEF Leads
  <2>3. c.low <= a.low
    BY <2>1, <2>2
  <2>4. c.look \in {<< >>, a.look}
    BY <2>1, <2>2
  <2> QED
    BY <2>1, <2>2, <2>3, <2>4 DEF Leads
<1> QED
  BY <1>1, <1>2

LEMMA LeadsSame == ASSUME NEW a, a.kind \in {"live", "dead"}, a.low \in Nat PROVE Leads(a, a)
BY DEF Leads

\* The fields of what is placed.
LEMMA PlacedIs ==
  ASSUME NEW f, NEW R \in Seq(Closing), NEW n \in Nat, f.nest \in Seq(Closing), f.low \in Nat
  PROVE  /\ Placed(f, R, n).kind = f.kind /\ Placed(f, R, n).nest = f.nest \o R /\ Placed(f, R, n).low = f.low + n
         /\ Placed(f, R, n).look = f.look /\ Placed(f, R, n).mode = f.mode
         /\ Placed(f, R, n).low \in Nat /\ Placed(f, R, n).nest \in Seq(Closing)
<1>1. f.low + n \in Nat
  OBVIOUS
<1>2. f.nest \o R \in Seq(Closing)
  BY CatIs
<1> QED
  BY <1>1, <1>2 DEF Placed

LEMMA PlacedPoint ==
  ASSUME NEW f \in Facts, NEW R \in Seq(Closing), NEW n \in Nat
  PROVE  Placed(f, R, n) \in Points
<1>1. f.kind \in {"live", "dead", "lost"} /\ f.nest \in Seq(Closing) /\ f.low \in Nat /\ f.look \in Seq(SUBSET STRING)
      /\ f.mode \in {"free", "tight", "bare", "loose"}
  BY DEF Facts
<1>2. f.low + n \in Nat
  BY <1>1
<1>3. f.nest \o R \in Seq(Closing)
  BY <1>1, CatIs
<1> QED
  BY <1>1, <1>2, <1>3 DEF Placed, Points

LEMMA PlacedSame ==
  ASSUME NEW f \in Facts, NEW R \in Seq(Closing), NEW n \in Nat
  PROVE  Leads(Placed(f, R, n), Placed(f, R, n)) /\ Placed(f, R, n).kind = f.kind /\ f.kind \in {"live", "dead"}
<1>1. f.nest \in Seq(Closing) /\ f.low \in Nat /\ f.kind \in {"live", "dead"}
  BY DEF Facts
<1>2. Placed(f, R, n).kind = f.kind /\ Placed(f, R, n).low \in Nat
  BY <1>1, PlacedIs
<1> QED
  BY <1>1, <1>2, LeadsSame

LEMMA LeadsPlaced ==
  ASSUME NEW f, NEW g, NEW R \in Seq(Closing), NEW n \in Nat,
         f.nest \in Seq(Closing), f.low \in Nat, g.nest \in Seq(Closing), g.low \in Nat, Leads(f, g)
  PROVE  Leads(Placed(f, R, n), Placed(g, R, n))
<1>1. /\ Placed(f, R, n).kind = f.kind /\ Placed(f, R, n).nest = f.nest \o R /\ Placed(f, R, n).low = f.low + n
      /\ Placed(f, R, n).look = f.look /\ Placed(f, R, n).mode = f.mode
      /\ Placed(g, R, n).kind = g.kind /\ Placed(g, R, n).nest = g.nest \o R /\ Placed(g, R, n).low = g.low + n
      /\ Placed(g, R, n).look = g.look /\ Placed(g, R, n).mode = g.mode
  BY PlacedIs, ZenonT(60)
<1>2. g.low <= f.low => g.low + n <= f.low + n
  OBVIOUS
<1> QED
  BY <1>1, <1>2 DEF Leads

LEMMA LeadsTells ==
  ASSUME NEW lv, NEW a \in Points, NEW b \in Points, NEW place \in Nat, NEW open, NEW looking, << >> \in looking,
         a.kind # "lost", TellsOf(lv, a, place, open, looking), Leads(a, b)
  PROVE  TellsOf(lv, b, place, open, looking) /\ b.kind = "live"
<1>1. /\ a.kind = "live" /\ a.low <= place /\ a.look \in looking
      /\ lv >= 2 => a.nest = open
      /\ lv = 3 => a.mode # "loose"
  BY DEF TellsOf
<1>2. /\ b.kind = "live" /\ a.nest = b.nest /\ b.low <= a.low
      /\ b.look \in {<< >>, a.look}
      /\ b.mode = "loose" => a.mode = "loose"
  BY <1>1 DEF Leads
<1>3. b.low <= place
  <2>1. a.low \in Nat /\ b.low \in Nat
    BY DEF Points
  <2> QED
    BY <1>1, <1>2, <2>1
<1> QED
  BY <1>1, <1>2, <1>3 DEF TellsOf

LEMMA BlankAhead == << >> \in Looking /\ (<< >> \in Looking)'
<1>1. << >> \in Seq(SUBSET STRING) /\ Len(<< >>) = 0
  OBVIOUS
<1> QED
  BY <1>1 DEF Looking

\* A piece is all that is known of it.
LEMMA TypedIs ==
  ASSUME NEW T \in Typed
  PROVE  /\ T.seq \in Seq(Instructions) /\ T.at \in Seq(Facts) /\ Len(T.at) = Len(T.seq) + 1 /\ Len(T.seq) \in Nat
         /\ \A k \in 1..(Len(T.seq) + 1) : T.at[k] \in Facts /\ T.at[k].kind \in {"live", "dead"}
         /\ \A k \in 1..(Len(T.seq) + 1) :
               /\ T.at[k].sp = T.at[1].sp /\ T.at[k].out = T.at[1].out /\ T.at[k].room = T.at[1].room
               /\ T.at[k].mode \in {T.at[1].mode, "loose"}
         /\ T.at[1].out # {} => \A k \in 1..Len(T.seq) : T.seq[k].op # "loop"
         /\ T.at[1].kind = "live" /\ Final(T.at) = T.at[Len(T.seq) + 1]
<1>1. T.seq \in Seq(Instructions) /\ T.at \in Seq(Facts) /\ Len(T.at) = Len(T.seq) + 1 /\ Len(T.seq) \in Nat
  BY Uniform, LenProperties
<1>2. DOMAIN T.at = 1..(Len(T.seq) + 1) /\ DOMAIN T.seq = 1..Len(T.seq)
  BY <1>1, LenProperties
<1>3. \A k \in 1..(Len(T.seq) + 1) : T.at[k] \in Facts
  BY <1>1, <1>2, ElementOfSeq
<1>4. \A f \in Facts : f.kind \in {"live", "dead"}
  BY DEF Facts
<1> QED
  BY <1>1, <1>2, <1>3, <1>4, Uniform DEF Final

\* What is allowed stays so when what comes on the stack is of no concern to it.
LEMMA AllowedAbove ==
  ASSUME NEW t, NEW u, NEW h, NEW i, NEW L \in Nat, Agree(t, u, h, i, L), NEW c, c = L + 1, NEW d \in Nat, L < d,
         NEW lv, NEW f, NEW R, NEW n, Allowed(lv, t, h, c, f, R, n),
         \A e \in (L + 1)..(d - 1) : /\ f.sp => Elem(u, e).op \notin {"caught", "mark"}
                                     /\ f.out # {} => Elem(u, e).op # "loop"
                                     /\ f.mode \in {"free", "tight"} => Elem(u, e).op # "restore"
  PROVE  Allowed(lv, u, i, d, f, R, n)
<1>1. ASSUME NEW S, NEW j, Nearest(t, c, S, j), \A e \in (L + 1)..(d - 1) : Elem(u, e).op \notin S
      PROVE  Nearest(u, d, S, j) /\ Elem(u, j) = Elem(t, j) /\ i[j - 1] = h[j - 1] /\ j \in 1..(d - 1)
  <2>1. /\ j \in 1..L /\ j \in 1..(d - 1) /\ j - 1 \in 0..L
        /\ \A e \in (j + 1)..(d - 1) : e \in (L + 1)..(d - 1) \/ (e \in 1..L /\ e \in (j + 1)..(c - 1))
    BY <1>1 DEF Nearest
  <2>2. Elem(u, j) = Elem(t, j) /\ i[j - 1] = h[j - 1] /\ Elem(t, j).op \in S
    BY <1>1, <2>1 DEF Agree, Nearest
  <2>3. \A e \in (j + 1)..(d - 1) : Elem(u, e).op \notin S
    BY <1>1, <2>1 DEF Agree, Nearest
  <2> QED
    BY <2>1, <2>2, <2>3 DEF Nearest
<1>2. ASSUME f.sp PROVE \E j \in 1..(d - 1) : Nearest(u, d, {"caught", "mark"}, j) /\ Elem(u, j).op = "mark"
  <2>1. PICK j \in 1..(c - 1) : Nearest(t, c, {"caught", "mark"}, j) /\ Elem(t, j).op = "mark"
    BY <1>2, Zenon DEF Allowed
  <2>2. \A e \in (L + 1)..(d - 1) : Elem(u, e).op \notin {"caught", "mark"}
    BY <1>2
  <2>3. Nearest(u, d, {"caught", "mark"}, j) /\ Elem(u, j) = Elem(t, j) /\ j \in 1..(d - 1)
    BY <1>1, <2>1, <2>2
  <2> QED
    BY <2>1, <2>3
<1>3. ASSUME f.out # {}
      PROVE  \E j \in 1..(d - 1) : Nearest(u, d, {"loop"}, j) /\ \A o \in f.out : Leads(Exit(o, R, n), i[j - 1])
  <2>1. PICK j \in 1..(c - 1) : Nearest(t, c, {"loop"}, j) /\ \A o \in f.out : Leads(Exit(o, R, n), h[j - 1])
    BY <1>3, Zenon DEF Allowed
  <2>2. \A e \in (L + 1)..(d - 1) : Elem(u, e).op \notin {"loop"}
    BY <1>3
  <2>3. Nearest(u, d, {"loop"}, j) /\ i[j - 1] = h[j - 1] /\ j \in 1..(d - 1)
    BY <1>1, <2>1, <2>2
  <2> QED
    BY <2>1, <2>3
<1>4. ASSUME lv = 3, f.mode = "tight"
      PROVE  \E j \in 1..(d - 1) : /\ Nearest(u, d, {"restore"}, j)
                                   /\ \/ f.room + Len(R) <= Elem(u, j).open
                                      \/ f.room = 0 /\ R # << >> /\ R[1] = "}"
  <2>1. PICK j \in 1..(c - 1) : /\ Nearest(t, c, {"restore"}, j)
                                    /\ \/ f.room + Len(R) <= Elem(t, j).open
                                       \/ f.room = 0 /\ R # << >> /\ R[1] = "}"
    BY <1>4, Zenon DEF Allowed
  <2>2. \A e \in (L + 1)..(d - 1) : Elem(u, e).op \notin {"restore"}
    BY <1>4
  <2>3. Nearest(u, d, {"restore"}, j) /\ Elem(u, j) = Elem(t, j) /\ j \in 1..(d - 1)
    BY <1>1, <2>1, <2>2
  <2> QED
    BY <2>1, <2>3
<1>5. ASSUME f.mode = "free" PROVE \A e \in 1..(d - 1) : Elem(u, e).op # "restore"
  <2>1. \A e \in 1..(c - 1) : Elem(t, e).op # "restore"
    BY <1>5 DEF Allowed
  <2>2. \A e \in 1..(d - 1) : e \in (L + 1)..(d - 1) \/ (e \in 1..L /\ e \in 1..(c - 1))
    OBVIOUS
  <2> QED
    BY <1>5, <2>1, <2>2 DEF Agree
<1> QED
  BY <1>2, <1>3, <1>4, <1>5 DEF Allowed

\* f says no more than g does.
Covers(f, g) == /\ f.sp => g.sp
                /\ f.out = {} \/ f.out = g.out
                /\ f.room = g.room /\ f.mode \in {g.mode, "loose"}
LEMMA AllowedCovers ==
  ASSUME NEW lv, NEW t, NEW h, NEW d, NEW f, NEW g, NEW R, NEW n, Allowed(lv, t, h, d, g, R, n), Covers(f, g)
  PROVE  Allowed(lv, t, h, d, f, R, n)
<1>1. f.mode \in {"free", "tight"} => f.mode = g.mode
  BY DEF Covers
<1>2. f.sp => \E j \in 1..(d - 1) : Nearest(t, d, {"caught", "mark"}, j) /\ Elem(t, j).op = "mark"
  BY DEF Covers, Allowed
<1>3. f.out # {} => \E j \in 1..(d - 1) : Nearest(t, d, {"loop"}, j) /\ \A o \in f.out : Leads(Exit(o, R, n), h[j - 1])
  BY DEF Covers, Allowed
<1>4. lv = 3 /\ f.mode = "tight" =>
        \E j \in 1..(d - 1) : /\ Nearest(t, d, {"restore"}, j)
                              /\ \/ f.room + Len(R) <= Elem(t, j).open
                                 \/ f.room = 0 /\ R # << >> /\ R[1] = "}"
  BY <1>1 DEF Covers, Allowed
<1>5. f.mode = "free" => \A e \in 1..(d - 1) : Elem(t, e).op # "restore"
  BY <1>1 DEF Allowed
<1> QED
  BY <1>2, <1>3, <1>4, <1>5 DEF Allowed

\* A piece comes on the stack.
LEMMA Pushed ==
  ASSUME NEW lv, NEW t \in Seq(Elems), NEW h, Chain(lv, t, h), NEW T \in Typed, NEW R \in Seq(Closing), NEW n \in Nat,
         Allowed(lv, t, h, Len(t) + 1, T.at[1], R, n), Leads(Placed(Final(T.at), R, n), h[Len(t)])
  PROVE  \E i : /\ Chain(lv, T.seq \o t, i) /\ \A e \in 0..Len(t) : i[e] = h[e]
                /\ Leads(Placed(T.at[1], R, n), i[Len(T.seq \o t)])
<1> DEFINE u == T.seq \o t
           L == Len(t)
           M == Len(T.seq)
           i == [e \in 0..(L + M) |-> IF e <= L THEN h[e] ELSE Placed(T.at[M + 1 - (e - L)], R, n)]
<1>1. /\ T.seq \in Seq(Instructions) /\ M \in Nat /\ L \in Nat
      /\ \A k \in 1..(M + 1) : T.at[k] \in Facts /\ T.at[k].kind \in {"live", "dead"}
      /\ \A k \in 1..(M + 1) : /\ T.at[k].sp = T.at[1].sp /\ T.at[k].out = T.at[1].out /\ T.at[k].room = T.at[1].room
                               /\ T.at[k].mode \in {T.at[1].mode, "loose"}
      /\ T.at[1].out # {} => \A k \in 1..M : T.seq[k].op # "loop"
      /\ T.at[1].kind = "live" /\ Final(T.at) = T.at[M + 1]
  BY TypedIs, LenProperties
<1>2. /\ u \in Seq(Elems) /\ Len(u) = L + M
      /\ \A d \in 1..L : Elem(u, d) = Elem(t, d)
      /\ \A m \in 1..M : Elem(u, L + m) = T.seq[M + 1 - m]
  <2>1. T.seq \in Seq(Elems)
    BY <1>1 DEF Elems
  <2>2. Len(u) = M + L
    BY <2>1, ElemCat
  <2>3. u \in Seq(Elems) /\ \A d \in 1..L : Elem(u, d) = Elem(t, d)
    BY <2>1, ElemCat, CatIs
  <2>4. \A m \in 1..M : Elem(u, L + m) = T.seq[M + 1 - m]
    BY <2>1, ElemCat
  <2>5. M + L = L + M
    BY <1>1
  <2> QED
    BY <2>2, <2>3, <2>4, <2>5
<1> HIDE DEF u, M, L
<1>3. i \in [0..(L + M) -> Points] /\ \A e \in 0..L : i[e] = h[e]
  <2>1. h \in [0..L -> Points]
    BY DEF Chain, L
  <2>2. ASSUME NEW e \in 0..(L + M), ~(e <= L) PROVE Placed(T.at[M + 1 - (e - L)], R, n) \in Points
    <3>1. M + 1 - (e - L) \in 1..(M + 1)
      BY <1>1, <2>2
    <3>2. T.at[M + 1 - (e - L)] \in Facts
      BY <1>1, <3>1
    <3> QED
      BY <3>2, PlacedPoint
  <2>3. \A e \in 0..L : e \in 0..(L + M) /\ e <= L
    BY <1>1
  <2>4. \A e \in 0..(L + M) : e <= L => e \in 0..L
    BY <1>1
  <2> QED
    BY <2>1, <2>2, <2>3, <2>4
<1>4. \A m \in 1..M : i[L + m] = Placed(T.at[M + 1 - m], R, n)
  <2>1. ASSUME NEW m \in 1..M PROVE i[L + m] = Placed(T.at[M + 1 - m], R, n)
    <3>1. L + m \in 0..(L + M) /\ ~(L + m <= L) /\ (L + m) - L = m
      BY <1>1
    <3> QED
      BY <3>1
  <2> QED
    BY <2>1
<1> HIDE DEF i
<1>5. Agree(t, u, h, i, L)
  BY <1>2, <1>3 DEF Agree
<1>6. ASSUME NEW m \in 1..M PROVE Link(lv, u, i, L + m)
  <2>1. PICK k : k = M + 1 - m /\ k \in 1..M
    <3>1. M + 1 - m \in 1..M
      BY <1>1
    <3> QED
      BY <3>1
  <2>2. Elem(u, L + m) = T.seq[k] /\ i[L + m] = Placed(T.at[k], R, n) /\ k \in 1..(M + 1) /\ k + 1 \in 1..(M + 1)
    BY <1>1, <1>2, <1>4, <2>1
  <2>3. /\ T.at[k].nest \in Seq(Closing) /\ T.at[k].low \in Nat /\ T.at[k].kind \in {"live", "dead"} /\ T.at[k] \in Facts
        /\ T.at[k + 1].nest \in Seq(Closing) /\ T.at[k + 1].low \in Nat /\ T.at[k + 1].kind \in {"live", "dead"}
    BY <1>1, <2>2 DEF Facts
  <2>4. Leads(Placed(T.at[k + 1], R, n), i[L + m - 1])
    <3>1. CASE m = 1
      <4>1. L + m - 1 = L /\ k + 1 = M + 1 /\ L \in 0..L
        BY <1>1, <2>1, <3>1
      <4> QED
        BY <1>1, <1>3, <4>1 DEF L
    <3>2. CASE m # 1
      <4>1. m - 1 \in 1..M /\ L + (m - 1) = L + m - 1 /\ M + 1 - (m - 1) = k + 1
        BY <1>1, <2>1, <3>2
      <4>2. i[L + m - 1] = Placed(T.at[k + 1], R, n)
        BY <1>4, <4>1
      <4>3. Leads(Placed(T.at[k + 1], R, n), Placed(T.at[k + 1], R, n))
        BY <1>1, <2>2, PlacedSame
      <4> QED
        BY <4>2, <4>3
    <3> QED
      BY <3>1, <3>2
  <2>5. Leads(Placed(T.at[k], R, n), Placed(Known(T, k), R, n))
    <3>2. /\ Blind(T.at[k]).kind = T.at[k].kind /\ Blind(T.at[k]).nest = T.at[k].nest /\ Blind(T.at[k]).low = T.at[k].low
          /\ Blind(T.at[k]).look = << >> /\ Blind(T.at[k]).mode = T.at[k].mode
      BY <2>3 DEF Blind, Facts
    <3>3. Leads(T.at[k], Blind(T.at[k]))
      BY <2>3, <3>2 DEF Leads
    <3>4. Leads(Placed(T.at[k], R, n), Placed(Blind(T.at[k]), R, n))
      BY <2>3, <3>2, <3>3, LeadsPlaced
    <3>5. Leads(Placed(T.at[k], R, n), Placed(T.at[k], R, n))
      BY <2>3, PlacedSame
    <3> QED
      BY <3>4, <3>5 DEF Known
  <2>6. Allowed(lv, u, i, L + m, T.at[k], R, n)
    <3>1. Allowed(lv, t, h, L + 1, T.at[k], R, n)
      <4>1. Covers(T.at[k], T.at[1])
        BY <1>1, <2>2 DEF Covers
      <4> QED
        BY <4>1, AllowedCovers DEF L
    <3>2. ASSUME NEW e \in (L + 1)..(L + m - 1)
          PROVE  Elem(u, e).op \notin {"caught", "mark", "restore"} /\ (T.at[k].out # {} => Elem(u, e).op # "loop")
      <4>1. PICK o \in 1..M : e = L + o
        <5>1. e - L \in 1..M /\ e = L + (e - L)
          BY <1>1
        <5> QED
          BY <5>1
      <4>2. M + 1 - o \in 1..M
        BY <1>1
      <4>3. Elem(u, e) = T.seq[M + 1 - o] /\ T.seq[M + 1 - o] \in Instructions
        BY <1>1, <1>2, <4>1, <4>2, ElementOfSeq DEF M
      <4>4. Elem(u, e).op \notin {"caught", "mark", "restore"}
        BY <4>3, PlainKinds
      <4> QED
        BY <1>1, <2>2, <4>2, <4>3, <4>4
    <3>3. L + m \in Nat /\ L < L + m
      BY <1>1
    <3> QED
      BY <1>1, <1>5, <3>1, <3>2, <3>3, AllowedAbove, SMTT(60)
  <2>7. Stood(lv, u, i, L + m, T, k, R, n)
    <3>1. PICK d : d = L + m
      OBVIOUS
    <3>2. Elem(u, d) = T.seq[k] /\ Leads(i[d], Placed(Known(T, k), R, n))
      BY <2>2, <2>5, <3>1
    <3>5. d - 1 = L + m - 1
      BY <1>1, <3>1
    <3>3. Leads(Placed(T.at[k + 1], R, n), i[d - 1]) /\ Allowed(lv, u, i, d, T.at[k], R, n)
      BY <2>4, <2>6, <3>1, <3>5
    <3>4. Stood(lv, u, i, d, T, k, R, n)
      BY <3>2, <3>3, Zenon DEF Stood
    <3> QED
      BY <3>1, <3>4
  <2>8. Code(lv, u, i, L + m)
    BY <2>1, <2>7 DEF Code, M
  <2>9. Elem(u, L + m).op \notin {"mark", "undo"}
    <3>1. T.seq[k] \in Instructions
      BY <1>1, <2>1, ElementOfSeq DEF M
    <3> QED
      BY <2>2, <3>1, PlainKinds
  <2>10. i[L + m].kind \in {"live", "dead"}
    BY <2>2, <2>3, PlacedSame
  <2> QED
    BY <2>8, <2>9, <2>10 DEF Link
<1>7. ASSUME NEW d \in 1..Len(u) PROVE Link(lv, u, i, d)
  <2>1. CASE d <= L
    <3>1. d \in 1..L /\ d \in 1..Len(t)
      BY <1>1, <2>1 DEF L
    <3> QED
      BY <1>1, <1>5, <3>1, LinkSame DEF Chain
  <2>2. CASE ~(d <= L)
    <3>1. d - L \in 1..M /\ d = L + (d - L)
      BY <1>1, <1>2, <2>2
    <3> QED
      BY <1>6, <3>1
  <2> QED
    BY <2>1, <2>2
<1>8. Chain(lv, u, i)
  <2>1. 0 \in 0..L /\ h[0].kind = "live" /\ h[0].nest = << >>
    BY <1>1 DEF Chain
  <2> QED
    BY <1>2, <1>3, <1>7, <2>1 DEF Chain
<1>9. Leads(Placed(T.at[1], R, n), i[Len(u)])
  <2>1. CASE M = 0
    <3>1. L \in 0..L /\ Len(u) = L /\ M + 1 = 1
      BY <1>1, <1>2, <2>1
    <3> QED
      BY <1>1, <1>3, <3>1 DEF L
  <2>2. CASE M # 0
    <3>1. M \in 1..M /\ M + 1 - M = 1 /\ 1 \in 1..(M + 1)
      BY <1>1, <2>2
    <3>2. i[Len(u)] = Placed(T.at[1], R, n)
      BY <1>2, <1>4, <3>1
    <3>4. Leads(Placed(T.at[1], R, n), Placed(T.at[1], R, n))
      BY <1>1, <3>1, PlacedSame
    <3> QED
      BY <3>2, <3>4
  <2> QED
    BY <2>1, <2>2
<1> QED
  BY <1>3, <1>8, <1>9 DEF u, L

-----------------------------------------------------------------------------
(* What is known at the top of the stack before and after a step.          *)

\* The instruction at the top: where it stands in a piece, f before and g behind it, over the chain i.
Facing(lv, i, T, k, R, n) ==
  /\ todo # << >> /\ T \in Typed /\ k \in 1..Len(T.seq) /\ R \in Seq(Closing) /\ n \in Nat
  /\ ins = T.seq[k] /\ Chain(lv, rest, i)
  /\ T.at[k] \in Facts /\ T.at[k + 1] \in Facts /\ T.at[k].kind = "live"
  /\ Step(T.at[k], ins, T.at[k + 1])
  /\ Tells(lv, Placed(Known(T, k), R, n))
  /\ Leads(Placed(T.at[k + 1], R, n), i[Len(rest)])
  /\ Allowed(lv, rest, i, Len(rest) + 1, T.at[k], R, n)

LEMMA BlindIs ==
  ASSUME NEW f \in Facts
  PROVE  /\ Blind(f) \in Facts /\ Blind(f).kind = f.kind /\ Blind(f).nest = f.nest /\ Blind(f).low = f.low
         /\ Blind(f).look = << >> /\ Blind(f).mode = f.mode /\ Blind(f).sp = f.sp /\ Blind(f).out = f.out
         /\ Blind(f).room = f.room
<1>1. << >> \in Seq(SUBSET STRING)
  OBVIOUS
<1> QED
  BY <1>1 DEF Blind, Facts

LEMMA TopFacing ==
  ASSUME Shape, NEW lv, NEW h, Chain(lv, todo, h), Tells(lv, h[Len(todo)]), h[Len(todo)].kind = "live",
         todo # << >>, ins.op \in Kinds \ {"scan"}
  PROVE  \E i, T, k, R, n : Facing(lv, i, T, k, R, n)
<1> DEFINE N == Len(todo)
           L == Len(rest)
<1>1. todo \in Seq(Elems) /\ N \in Nat /\ N >= 1 /\ L = N - 1 /\ L \in Nat /\ rest = Sfx(todo, 1) /\ Elem(todo, N) = ins /\ pos \in Nat
  <2>1. todo \in Seq(Elems) /\ pos \in Nat
    BY SinceIs DEF Shape, TypeOK
  <2>2. N \in Nat /\ N >= 1 /\ L = N - 1 /\ rest = Sfx(todo, 1)
    BY <2>1, TailIs, LenProperties DEF rest
  <2>3. N + 1 - N = 1
    BY <2>2
  <2> QED
    BY <2>1, <2>2, <2>3 DEF Elem, ins
<1>2. Code(lv, todo, h, N)
  <2>1. Link(lv, todo, h, N)
    BY <1>1 DEF Chain
  <2>2. ins.op \notin {"scan", "caught", "mark", "restore", "guard", "grown"}
    BY DEF Kinds
  <2> QED
    BY <1>1, <2>1, <2>2 DEF Link, Between
<1>21. PICK T \in Typed : \E k \in 1..Len(T.seq) : \E R \in Seq(Closing) : \E n \in Nat : Stood(lv, todo, h, N, T, k, R, n)
  BY <1>2 DEF Code
<1>22. PICK k \in 1..Len(T.seq) : \E R \in Seq(Closing) : \E n \in Nat : Stood(lv, todo, h, N, T, k, R, n)
  BY <1>21
<1>23. PICK R \in Seq(Closing) : \E n \in Nat : Stood(lv, todo, h, N, T, k, R, n)
  BY <1>22
<1>3. PICK n \in Nat : Stood(lv, todo, h, N, T, k, R, n)
  BY <1>23
<1>4. ins = T.seq[k] /\ Leads(h[N], Placed(Known(T, k), R, n)) /\ Leads(Placed(T.at[k + 1], R, n), h[N - 1])
      /\ Allowed(lv, todo, h, N, T.at[k], R, n)
  BY <1>1, <1>3 DEF Stood
<1>5. PICK i : Chain(lv, rest, i) /\ (\A e \in 0..(N - 1) : i[e] = h[e]) /\ i[L] = h[N - 1]
  <2>1. 1 \in 0..Len(todo)
    BY <1>1
  <2>2. PICK j \in 0..Len(todo) : j = 1
    BY <2>1
  <2>3. PICK i : Below(lv, todo, h, j, i)
    BY <1>1, ChainDrops
  <2> QED
    BY <1>1, <2>2, <2>3 DEF Below
<1>6. Allowed(lv, rest, i, L + 1, T.at[k], R, n)
  <2>1. \A e \in 1..L : Elem(rest, e) = Elem(todo, e)
    <3>1. 1 \in 0..Len(todo)
      BY <1>1
    <3> QED
      BY <1>1, <3>1, ElemSfx
  <2>2. Agree(todo, rest, h, i, L)
    BY <1>1, <1>5, <2>1 DEF Agree
  <2>3. N \in 1..(L + 1) /\ N = L + 1
    BY <1>1
  <2> QED
    BY <1>1, <1>4, <2>2, <2>3, AllowedSame
<1>7. /\ T.at[k] \in Facts /\ T.at[k + 1] \in Facts /\ T.at[k].kind \in {"live", "dead"}
      /\ DOMAIN T.seq = 1..Len(T.seq)
  <2>1. Len(T.seq) \in Nat /\ T.seq \in Seq(Instructions)
    BY TypedIs
  <2>2. k \in 1..(Len(T.seq) + 1) /\ k + 1 \in 1..(Len(T.seq) + 1)
    BY <2>1
  <2> QED
    BY <2>1, <2>2, TypedIs, LenProperties
<1>8. Known(T, k) \in Facts /\ Known(T, k).kind = T.at[k].kind
  BY <1>7, BlindIs DEF Known
<1>9. Tells(lv, Placed(Known(T, k), R, n)) /\ Placed(Known(T, k), R, n).kind = "live"
  <2>1. h[N] \in Points
    BY <1>1 DEF Chain
  <2>2. Placed(Known(T, k), R, n) \in Points
    BY <1>8, PlacedPoint
  <2> QED
    BY <1>1, <1>4, <2>1, <2>2, LeadsTells, BlankAhead DEF Tells
<1>10. T.at[k].kind = "live"
  BY <1>8, <1>9, PlacedSame
<1>11. Step(T.at[k], ins, T.at[k + 1])
  BY <1>4, <1>7, <1>10, Disciplined
<1> QED
  BY <1>4, <1>5, <1>6, <1>7, <1>9, <1>10, <1>11 DEF Facing

\* The step ends where t begins.
LEMMA Stops ==
  ASSUME NEW lv, NEW t \in Seq(Elems), NEW h, Chain(lv, t, h), todo' = t,
         NEW p \in Points, p.kind = "live", Tells(lv, p)', Leads(p, h[Len(t)]), pos' \in Nat
  PROVE  Good(lv)'
<1>1. h[Len(t)] \in Points
  <2>1. Len(t) \in 0..Len(t)
    BY LenProperties
  <2> QED
    BY <2>1 DEF Chain
<1>2. Tells(lv, h[Len(t)])'
  BY <1>1, LeadsTells, BlankAhead DEF Tells
<1> QED
  BY <1>2 DEF Good

\* The step puts a piece on t.
LEMMA Continues ==
  ASSUME NEW lv, NEW t \in Seq(Elems), NEW h, Chain(lv, t, h), NEW T \in Typed, NEW R \in Seq(Closing), NEW n \in Nat,
         Allowed(lv, t, h, Len(t) + 1, T.at[1], R, n), Leads(Placed(Final(T.at), R, n), h[Len(t)]),
         todo' = T.seq \o t, Tells(lv, Placed(T.at[1], R, n))', pos' \in Nat
  PROVE  Good(lv)'
<1>1. PICK i : Chain(lv, T.seq \o t, i) /\ Leads(Placed(T.at[1], R, n), i[Len(T.seq \o t)])
  BY Pushed
<1>2. T.at[1] \in Facts /\ T.at[1].kind = "live" /\ T.seq \o t \in Seq(Elems)
  <2>1. Len(T.seq) \in Nat /\ T.seq \in Seq(Instructions)
    BY TypedIs
  <2>2. 1 \in 1..(Len(T.seq) + 1)
    BY <2>1
  <2>3. T.seq \in Seq(Elems)
    BY <2>1 DEF Elems
  <2> QED
    BY <2>2, <2>3, TypedIs, CatIs
<1>3. Placed(T.at[1], R, n) \in Points /\ Placed(T.at[1], R, n).kind = "live"
  BY <1>2, PlacedPoint, PlacedSame
<1> QED
  BY <1>1, <1>2, <1>3, Stops

-----------------------------------------------------------------------------
(* What is known of the tokens ahead stays known.                          *)

LEMMA LookingKept == ASSUME UNCHANGED <<drawn, base, pos>> PROVE \A l \in Looking : (l \in Looking)'
<1>1. \A k : (Seen(k)' <=> Seen(k)) /\ At(k)' = At(k)
  BY DEF Seen, At, Ended
<1> QED
  BY <1>1 DEF Looking

LEMMA SeenLexed == ASSUME TypeOK, Lex, NEW k \in Nat, k >= 1, Seen(k) PROVE Seen(k)' /\ At(k)' = At(k)
<1>1. drawn' \in Seq(Tokens) /\ base' = base /\ pos' = pos /\ base \in Nat /\ pos \in Nat /\ base <= pos
      /\ drawn \in Seq(Tokens) /\ ~Ended
  BY LexIs DEF Lex, Seen, TypeOK
<1>2. PICK x : drawn' = Append(drawn, x)
  BY DEF Lex
<1>3. Len(drawn') = Len(drawn) + 1 /\ Len(drawn) \in Nat /\ \A i \in 1..Len(drawn) : drawn'[i] = drawn[i]
  <2>1. x \in Tokens
    <3>1. Len(Append(drawn, x)) = Len(drawn) + 1 /\ Append(drawn, x)[Len(drawn) + 1] = x /\ Len(drawn) \in Nat
      BY <1>1, LenProperties
    <3>2. Len(drawn) + 1 \in 1..Len(drawn')
      BY <1>2, <3>1
    <3> QED
      BY <1>1, <1>2, <3>1, <3>2, ElementOfSeq
  <2> QED
    BY <1>1, <1>2, <2>1, AppendProperties
<1>4. PICK m \in Nat : m = pos - base + k
  BY <1>1
<1>5. m >= 1 /\ m <= Len(drawn)
  BY <1>1, <1>4 DEF Seen
<1>6. drawn'[m] = drawn[m] /\ m <= Len(drawn')
  BY <1>3, <1>5
<1>7. At(k) = drawn[m]
  BY <1>4, <1>5 DEF At
<1>8. At(k)' = drawn'[m] /\ Seen(k)'
  BY <1>1, <1>4, <1>6 DEF At, Seen
<1> QED
  BY <1>6, <1>7, <1>8

LEMMA LookingLexed == ASSUME TypeOK, Lex PROVE \A l \in Looking : (l \in Looking)'
<1> SUFFICES ASSUME NEW l \in Looking PROVE (l \in Looking)'
  OBVIOUS
<1>1. \A k \in 1..Len(l) : k \in Nat /\ k >= 1 /\ Seen(k) /\ At(k) \in l[k]
  BY DEF Looking
<1>2. \A k \in 1..Len(l) : Seen(k)' /\ At(k)' \in l[k]
  BY <1>1, SeenLexed
<1> QED
  BY <1>2 DEF Looking

LEMMA LookingShifts ==
  ASSUME TypeOK, Consumed, Seen(1), Peek # "eof"
  PROVE  pos' = pos + 1 /\ \A l \in Looking : l # << >> => (Tail(l) \in Looking)'
<1>1. base \in Nat /\ pos \in Nat /\ base <= pos /\ drawn \in Seq(Tokens) /\ Len(drawn) \in Nat /\ pos' = pos + 1
  BY LenProperties DEF TypeOK, Consumed
<1>2. PICK q \in Nat : q = pos - base + 1
  BY <1>1
<1>3. q >= 1 /\ q <= Len(drawn) /\ Peek = drawn[q]
  <2>1. q <= Len(drawn)
    BY <1>2 DEF Peek, At
  <2> QED
    BY <1>1, <1>2, <2>1 DEF Peek, At
<1>4. ASSUME NEW k \in Nat, k >= 1, Seen(k + 1) PROVE Seen(k)' /\ At(k)' = At(k + 1)
  <2>0. pos - base + (k + 1) = q + k /\ (pos + 1) - base + k = q + k /\ q + k \in Nat
    BY <1>1, <1>2
  <2>1. CASE Speculating
    <3>1. drawn' = drawn /\ base' = base
      BY <2>1 DEF Consumed
    <3>2. pos' - base' + k = q + k
      BY <1>1, <2>0, <3>1
    <3> QED
      BY <1>4, <2>0, <3>1, <3>2 DEF Seen, At, Ended
  <2>2. CASE ~Speculating
    <3>1. base' = pos' /\ drawn' = SubSeq(drawn, q + 1, Len(drawn)) /\ pos' - base' + k = k
      <4>1. pos' - base + 1 = q + 1
        BY <1>1, <1>2
      <4> QED
        BY <1>1, <2>2, <4>1 DEF Consumed
    <3>2. drawn' \in Seq(Tokens) /\ Len(drawn') = Len(drawn) - q /\ \A i \in 1..(Len(drawn) - q) : drawn'[i] = drawn[i + q]
      <4>1. q \in 0..Len(drawn)
        BY <1>3
      <4> QED
        BY <1>1, <3>1, <4>1, SfxIs DEF Sfx
    <3>3. q + k <= Len(drawn) <=> k <= Len(drawn')
      BY <1>1, <3>2
    <3>4. k <= Len(drawn') => drawn'[k] = drawn[q + k]
      <4>1. k + q = q + k /\ (k <= Len(drawn') => k \in 1..(Len(drawn) - q))
        BY <1>1, <1>4, <3>2
      <4> QED
        BY <3>2, <4>1
    <3>5. Ended => Ended'
      <4> SUFFICES ASSUME Ended PROVE Ended'
        OBVIOUS
      <4>1. drawn[Len(drawn)] = "eof" /\ q # Len(drawn)
        BY <1>3 DEF Ended
      <4>2. PICK e \in 1..(Len(drawn) - q) : e = Len(drawn) - q
        BY <1>1, <1>3, <4>1
      <4>3. drawn'[Len(drawn')] = drawn[Len(drawn)] /\ Len(drawn') # 0
        <5>1. e + q = Len(drawn) /\ Len(drawn') = e /\ e # 0
          BY <1>1, <3>2, <4>2
        <5> QED
          BY <3>2, <4>2, <5>1
      <4>4. drawn' # << >>
        BY <4>3
      <4> QED
        BY <4>1, <4>3, <4>4 DEF Ended
    <3>6. Seen(k)'
      BY <1>4, <2>0, <3>1, <3>3, <3>5 DEF Seen
    <3>7. At(k)' = IF k <= Len(drawn') THEN drawn'[k] ELSE "eof"
      BY <3>1 DEF At
    <3>8. At(k + 1) = IF q + k <= Len(drawn) THEN drawn[q + k] ELSE "eof"
      BY <2>0 DEF At
    <3> QED
      BY <3>3, <3>4, <3>6, <3>7, <3>8
  <2> QED
    BY <2>1, <2>2
<1>5. ASSUME NEW l \in Looking, l # << >> PROVE (Tail(l) \in Looking)'
  <2>1. l \in Seq(SUBSET STRING) /\ \A k \in 1..Len(l) : Seen(k) /\ At(k) \in l[k]
    BY <1>5 DEF Looking
  <2>2. /\ Tail(l) \in Seq(SUBSET STRING) /\ Len(Tail(l)) = Len(l) - 1 /\ Len(l) \in Nat
        /\ \A i \in 1..(Len(l) - 1) : Tail(l)[i] = l[i + 1]
    BY <1>5, <2>1, TailIs, LenProperties
  <2>3. ASSUME NEW k \in 1..Len(Tail(l)) PROVE Seen(k)' /\ At(k)' \in Tail(l)[k]
    <3>1. k \in Nat /\ k >= 1 /\ k + 1 \in 1..Len(l) /\ k \in 1..(Len(l) - 1)
      BY <2>2
    <3> QED
      BY <1>4, <2>1, <2>2, <3>1
  <2> QED
    BY <2>2, <2>3 DEF Looking
<1> QED
  BY <1>1, <1>5

LEMMA TellsKept ==
  ASSUME pos' = pos, nest' = nest, \A l \in Looking : (l \in Looking)', NEW lv, NEW p, Tells(lv, p)
  PROVE  Tells(lv, p)'
BY DEF Tells, TellsOf

LEMMA BlindTells ==
  ASSUME pos \in Nat, pos' \in Nat, pos <= pos', NEW lv \in 1..3, lv >= 2 => nest' = nest,
         NEW f \in Facts, f.kind = "live", NEW R \in Seq(Closing), NEW n \in Nat,
         Tells(lv, Placed(f, R, n)) \/ Tells(lv, Placed(Blind(f), R, n))
  PROVE  Tells(lv, Placed(Blind(f), R, n))' /\ Blind(f) \in Facts /\ Blind(f).kind = "live"
<1>1. /\ Blind(f) \in Facts /\ Blind(f).kind = "live" /\ Blind(f).nest = f.nest /\ Blind(f).low = f.low
      /\ Blind(f).look = << >> /\ Blind(f).mode = f.mode
  BY BlindIs
<1>2. f.nest \in Seq(Closing) /\ f.low \in Nat
  BY DEF Facts
<1>21. /\ Placed(f, R, n).kind = "live" /\ Placed(f, R, n).nest = f.nest \o R /\ Placed(f, R, n).low = f.low + n
       /\ Placed(f, R, n).mode = f.mode
  BY <1>2, PlacedIs
<1>22. PICK b : b = Blind(f)
  OBVIOUS
<1>23. /\ Placed(b, R, n).kind = "live" /\ Placed(b, R, n).nest = f.nest \o R
       /\ Placed(b, R, n).low = f.low + n /\ Placed(b, R, n).look = << >>
       /\ Placed(b, R, n).mode = f.mode
  <2>1. /\ b.nest = f.nest /\ b.low = f.low /\ b.kind = "live" /\ b.look = << >> /\ b.mode = f.mode
        /\ b.nest \in Seq(Closing) /\ b.low \in Nat /\ b \in Facts
    BY <1>1, <1>2, <1>22
  <2>2. /\ Placed(b, R, n).kind = b.kind /\ Placed(b, R, n).nest = b.nest \o R /\ Placed(b, R, n).low = b.low + n
        /\ Placed(b, R, n).look = b.look /\ Placed(b, R, n).mode = b.mode
    <3>1. b.nest \in Seq(Closing) /\ b.low \in Nat
      BY <2>1
    <3> QED
      BY <3>1, PlacedIs
  <2> QED
    BY <2>1, <2>2
<1>3. /\ Placed(f, R, n).kind = "live" /\ Placed(f, R, n).nest = f.nest \o R /\ Placed(f, R, n).low = f.low + n
      /\ Placed(f, R, n).mode = f.mode
      /\ Placed(Blind(f), R, n).kind = "live" /\ Placed(Blind(f), R, n).nest = f.nest \o R
      /\ Placed(Blind(f), R, n).low = f.low + n /\ Placed(Blind(f), R, n).look = << >>
      /\ Placed(Blind(f), R, n).mode = f.mode
  BY <1>21, <1>22, <1>23
<1>4. /\ f.low + n <= pos
      /\ lv >= 2 => f.nest \o R = nest
      /\ lv = 3 => f.mode # "loose"
  BY <1>3 DEF Tells, TellsOf
<1>5. f.low + n <= pos'
  BY <1>2, <1>4
<1> QED
  BY <1>1, <1>3, <1>4, <1>5, BlankAhead DEF Tells, TellsOf

LEMMA PlacedFact ==
  ASSUME NEW f \in Facts, NEW R \in Seq(Closing), NEW n \in Nat
  PROVE  /\ Placed(f, R, n).kind = f.kind /\ Placed(f, R, n).nest = f.nest \o R /\ Placed(f, R, n).low = f.low + n
         /\ Placed(f, R, n).look = f.look /\ Placed(f, R, n).mode = f.mode
         /\ f.nest \in Seq(Closing) /\ f.low \in Nat /\ f.kind \in {"live", "dead"}
<1>1. f.nest \in Seq(Closing) /\ f.low \in Nat /\ f.kind \in {"live", "dead"}
  BY DEF Facts
<1> QED
  BY <1>1, PlacedIs

LEMMA NestedInIs == ASSUME NEW m \in Seq(Closing), NEW t PROVE NestedIn(m, t) \in Seq(Closing)
<1>1. CASE t \in Opening
  <2>1. Partner[t] \in Closing
    BY <1>1 DEF Partner, Opening, Closing
  <2>2. <<Partner[t]>> \in Seq(Closing)
    BY <2>1
  <2>3. <<Partner[t]>> \o m \in Seq(Closing)
    BY <2>2, CatIs
  <2> QED
    BY <1>1, <2>3 DEF NestedIn
<1>2. CASE t \notin Opening /\ t \in Closing
  <2>1. <<t>> \in Seq(Closing)
    BY <1>2
  <2>2. <<t>> \o m \in Seq(Closing)
    BY <2>1, CatIs
  <2>3. m # << >> => Tail(m) \in Seq(Closing)
    BY TailIs
  <2> QED
    BY <1>2, <2>2, <2>3 DEF NestedIn
<1> QED
  BY <1>1, <1>2 DEF NestedIn

LEMMA NestedOver ==
  ASSUME NEW m \in Seq(Closing), NEW R \in Seq(Closing), nest = m \o R, NEW t,
         t \in Closing => m # << >> /\ m[1] = t
  PROVE  Nested(t) = NestedIn(m, t) \o R
<1>1. CASE t \in Opening
  <2>1. Partner[t] \in Closing
    BY <1>1 DEF Partner, Opening, Closing
  <2>11. <<Partner[t]>> \in Seq(Closing)
    BY <2>1
  <2>2. PICK x \in Seq(Closing) : x = <<Partner[t]>>
    BY <2>11
  <2>3. x \o (m \o R) = (x \o m) \o R
    BY CatClosings, Zenon
  <2>4. Nested(t) = x \o (m \o R) /\ NestedIn(m, t) = x \o m
    BY <1>1, <2>2, Zenon DEF Nested, NestedIn
  <2> QED
    BY <2>3, <2>4
<1>2. CASE t \notin Opening /\ t \in Closing
  <2>1. m # << >> /\ m[1] = t /\ m[1] \in Closing
    BY <1>2
  <2>2. m = <<m[1]>> \o Tail(m) /\ Tail(m) \in Seq(Closing) /\ Len(m) >= 1
    BY <2>1, TailIs
  <2>21. <<m[1]>> \in Seq(Closing)
    BY <2>1
  <2>3. PICK x \in Seq(Closing) : x = <<m[1]>>
    BY <2>21
  <2>4. m \o R = x \o (Tail(m) \o R) /\ Tail(m) \o R \in Seq(Closing)
    BY <2>2, <2>3, ConcatAssociative, CatIs
  <2>5. nest # << >> /\ nest[1] = t
    <3>1. nest \in Seq(Closing) /\ Len(nest) = Len(m) + Len(R) /\ nest[1] = m[1] /\ Len(R) \in Nat
      <4>1. 1 \in 1..Len(m)
        BY <2>2, LenProperties
      <4> QED
        BY <4>1, CatIs, LenProperties
    <3>2. Len(nest) # 0
      BY <2>2, <3>1, LenProperties
    <3> QED
      BY <2>1, <3>1, <3>2
  <2>6. Tail(nest) = Tail(m) \o R
    <3>1. PICK y \in Seq(Closing) : y = Tail(m) \o R
      BY <2>4
    <3>2. nest = <<m[1]>> \o y
      BY <2>3, <2>4, <3>1
    <3>3. Tail(<<m[1]>> \o y) = y
      BY <2>1, SMTT(60)
    <3> QED
      BY <3>1, <3>2, <3>3
  <2>7. Nested(t) = Tail(nest)
    BY <1>2, <2>5 DEF Nested
  <2>8. NestedIn(m, t) = Tail(m)
    BY <1>2, <2>1 DEF NestedIn
  <2> QED
    BY <2>6, <2>7, <2>8
<1>3. CASE t \notin Opening /\ t \notin Closing
  BY <1>3 DEF Nested, NestedIn
<1> QED
  BY <1>1, <1>2, <1>3

LEMMA TellsNext ==
  ASSUME NEW lv, NEW p, p.kind = "live", p.low <= pos', (p.look \in Looking)', lv >= 2 => p.nest = nest',
         lv = 3 => p.mode # "loose"
  PROVE  Tells(lv, p)'
BY DEF Tells, TellsOf

LEMMA LeadsNext ==
  ASSUME pos' \in Nat, NEW lv, NEW a \in Points, NEW b \in Points, a.kind = "live", Tells(lv, a)', Leads(a, b)
  PROVE  Tells(lv, b)' /\ b.kind = "live"
<1>1. a.kind # "lost"
  OBVIOUS
<1> QED
  BY <1>1, LeadsTells, BlankAhead DEF Tells

\* A token that may stand here is consumed.
Beyond(f, look) == look = << >> \/ (f.look # << >> /\ look = Tail(f.look))
LEMMA TakeTells ==
  ASSUME TypeOK, ~errs, NEW E, Took(E), Seen(1), NEW lv \in 1..3, NEW f \in Facts, f.kind = "live", NEW g \in Facts,
         NEW S, Peek \in S, NEW look, Beyond(f, look), Takes(f, S, look, g),
         NEW R \in Seq(Closing), NEW n \in Nat, Tells(lv, Placed(f, R, n))
  PROVE  Tells(lv, Placed(g, R, n))' /\ g.kind = "live"
<1>0. PICK t : t = Peek
  OBVIOUS
<1> DEFINE a == [Taken(f, t) EXCEPT !.look = look]
           m == NestedIn(f.nest, t)
<1>1. t # "eof" /\ (t \in Closing => f.nest # << >> /\ f.nest[1] = t) /\ Leads(a, g)
  BY <1>0 DEF Takes
<1>2. /\ f.nest \in Seq(Closing) /\ f.low \in Nat /\ f.look \in Seq(SUBSET STRING) /\ m \in Seq(Closing)
      /\ f.mode \in {"free", "tight", "bare", "loose"}
  BY NestedInIs DEF Facts
<1>3. look \in Seq(SUBSET STRING) /\ (look \in Looking)'
  <2>1. CASE look = << >>
    BY <2>1, BlankAhead
  <2>2. CASE f.look # << >> /\ look = Tail(f.look)
    <3>1. f.look \in Looking
      <4>1. Placed(f, R, n).kind = "live" /\ Placed(f, R, n).look = f.look
        BY PlacedFact
      <4> QED
        BY <4>1 DEF Tells, TellsOf
    <3>2. (Tail(f.look) \in Looking)'
      BY <1>0, <1>1, <2>2, <3>1, LookingShifts DEF Took
    <3> QED
      BY <1>2, <2>2, <3>2
  <2> QED
    BY <2>1, <2>2 DEF Beyond
<1>4. /\ a \in Facts /\ a.kind = "live" /\ a.nest = m /\ a.low = f.low + 1 /\ a.look = look /\ a.mode = f.mode
  <2>1. PICK w \in Nat : w = f.low + 1
    BY <1>2
  <2>2. a = [f EXCEPT !.nest = m, !.low = w, !.look = look]
    BY <2>1 DEF Taken, Facts
  <2> HIDE DEF a, m
  <2> QED
    BY <1>2, <1>3, <2>1, <2>2 DEF Facts
<1> HIDE DEF a, m
<1>5. pos' = pos + 1 /\ nest' = Nested(t) /\ pos \in Nat
  BY <1>0, <1>1, LookingShifts DEF Took, TypeOK
<1>6. lv >= 2 => nest' = m \o R
  <2>1. lv >= 2 => nest = f.nest \o R
    <3>1. Placed(f, R, n).kind = "live" /\ Placed(f, R, n).nest = f.nest \o R
      BY PlacedFact
    <3> QED
      BY <3>1 DEF Tells, TellsOf
  <2> QED
    BY <1>1, <1>2, <1>5, <2>1, NestedOver DEF m
<1>7. Tells(lv, Placed(a, R, n))' /\ Placed(a, R, n).kind = "live"
  <2>1. /\ Placed(f, R, n).kind = "live" /\ Placed(f, R, n).low = f.low + n /\ Placed(f, R, n).mode = f.mode
    BY PlacedFact
  <2>2. f.low + n <= pos /\ (lv = 3 => f.mode # "loose")
    BY <2>1 DEF Tells, TellsOf
  <2>3. /\ Placed(a, R, n).kind = "live" /\ Placed(a, R, n).nest = m \o R /\ Placed(a, R, n).low = f.low + 1 + n
        /\ Placed(a, R, n).look = look /\ Placed(a, R, n).mode = f.mode
    <3>1. /\ Placed(a, R, n).kind = a.kind /\ Placed(a, R, n).nest = a.nest \o R /\ Placed(a, R, n).low = a.low + n
          /\ Placed(a, R, n).look = a.look /\ Placed(a, R, n).mode = a.mode
      BY <1>4 DEF Placed
    <3> QED
      BY <1>4, <3>1
  <2>4. f.low + 1 + n <= pos'
    BY <1>2, <1>5, <2>2
  <2>5. PICK p : p = Placed(a, R, n)
    OBVIOUS
  <2>6. (p.look \in Looking)' /\ p.kind = "live" /\ p.low <= pos' /\ p.mode = f.mode /\ p.nest = m \o R
    BY <1>3, <2>3, <2>4, <2>5
  <2>7. Tells(lv, p)'
    BY <1>6, <2>2, <2>6, TellsNext
  <2> QED
    BY <2>5, <2>6, <2>7
<1>8. Leads(Placed(a, R, n), Placed(g, R, n))
  <2>1. g.nest \in Seq(Closing) /\ g.low \in Nat /\ a.nest \in Seq(Closing) /\ a.low \in Nat
    BY <1>4 DEF Facts
  <2> QED
    BY <1>1, <2>1, LeadsPlaced
<1>9. Tells(lv, Placed(g, R, n))' /\ Placed(g, R, n).kind = "live"
  <2>1. Placed(a, R, n) \in Points /\ Placed(g, R, n) \in Points /\ pos' \in Nat
    BY <1>4, <1>5, PlacedPoint
  <2> QED
    BY <1>7, <1>8, <2>1, LeadsNext
<1> QED
  BY <1>9, PlacedFact

-----------------------------------------------------------------------------
(* After a step that went through a place the properties except, nothing   *)
(* need be known but of the stack below the speculations.                  *)

LEMMA SfxWhole == ASSUME NEW S, NEW t \in Seq(S) PROVE Sfx(t, 0) = t
<1>1. 0 \in 0..Len(t) /\ Len(t) - 0 = Len(t) /\ \A i \in 1..Len(t) : i + 0 = i
  BY LenProperties
<1>2. Sfx(t, 0) \in Seq(S) /\ Len(Sfx(t, 0)) = Len(t) /\ \A i \in 1..Len(t) : Sfx(t, 0)[i] = t[i]
  BY <1>1, SfxIs
<1> QED
  BY <1>2, SeqEqual

LEMMA AtEnds == Nowhere \in Points /\ Lost \in Points /\ Nowhere.kind = "dead" /\ Lost.kind = "lost"
<1>1. << >> \in Seq(Closing) /\ << >> \in Seq(SUBSET STRING)
  OBVIOUS
<1> QED
  BY <1>1 DEF Nowhere, Lost, Points

\* Instructions that save nothing clean; ones of which the last reports an error.
SavesDirt(lv, s) == \A k \in 1..Len(s) : s[k].op \in {"mark", "undo"} => ~s[k].errs /\ ~Clean(lv, s[k].events)
EndsInError(s) == \A k \in 1..Len(s) : s[k] = Error \/ (s[k] = Adv /\ k < Len(s))
\* A chain over s \o t that is h over t and p above it.
OverlaidBy(lv, s, t, h, p, i) ==
  /\ Chain(lv, s \o t, i) /\ \A e \in 0..Len(t) : i[e] = h[e]
  /\ s # << >> => i[Len(s \o t)] = p

LEMMA Overlaid ==
  ASSUME NEW lv, NEW t \in Seq(Elems), NEW h, Chain(lv, t, h), NEW s \in Seq(Elems), NEW p \in {Nowhere, Lost},
         SavesDirt(lv, s), p = Lost => EndsInError(s)
  PROVE  \E i : OverlaidBy(lv, s, t, h, p, i)
<1> USE DEF SavesDirt, EndsInError, OverlaidBy
<1> DEFINE u == s \o t
           L == Len(t)
           M == Len(s)
           i == [e \in 0..(L + M) |-> IF e <= L THEN h[e] ELSE p]
<1>1. /\ u \in Seq(Elems) /\ Len(u) = L + M /\ L \in Nat /\ M \in Nat
      /\ \A d \in 1..L : Elem(u, d) = Elem(t, d)
      /\ \A m \in 1..M : Elem(u, L + m) = s[M + 1 - m]
  <2>1. u \in Seq(Elems) /\ Len(u) = M + L /\ L \in Nat /\ M \in Nat
    BY CatIs, LenProperties
  <2> QED
    BY <2>1, ElemCat
<1> HIDE DEF u
<1>2. p \in Points /\ \A e \in 0..L : h[e] \in Points
  BY AtEnds DEF Chain
<1>3. i \in [0..Len(u) -> Points] /\ (\A e \in 0..L : i[e] = h[e]) /\ (\A e \in (L + 1)..(L + M) : i[e] = p)
  <2>1. \A e \in 0..(L + M) : e <= L => e \in 0..L
    BY <1>1
  <2>2. \A e \in 0..L : e \in 0..(L + M) /\ e <= L
    BY <1>1
  <2>3. \A e \in (L + 1)..(L + M) : e \in 0..(L + M) /\ ~(e <= L)
    BY <1>1
  <2> QED
    BY <1>1, <1>2, <2>1, <2>2, <2>3
<1> HIDE DEF i
<1>4. Agree(t, u, h, i, L)
  BY <1>1, <1>3 DEF Agree
<1>5. ASSUME NEW d \in 1..Len(u) PROVE Link(lv, u, i, d)
  <2>1. CASE d \in 1..L
    BY <1>1, <1>4, <2>1, LinkSame DEF Chain
  <2>2. CASE d \notin 1..L
    <3>1. PICK m \in 1..M : d = L + m
      <4>1. d - L \in 1..M /\ d = L + (d - L)
        BY <1>1, <2>2
      <4> QED
        BY <4>1
    <3>2. PICK k \in 1..M : k = M + 1 - m
      <4>1. M + 1 - m \in 1..M
        BY <1>1
      <4> QED
        BY <4>1
    <3>3. Elem(u, d) = s[k] /\ i[d] = p
      <4>1. d \in (L + 1)..(L + M)
        BY <1>1, <3>1
      <4> QED
        BY <1>1, <1>3, <3>1, <3>2, <4>1
    <3>4. Elem(u, d).op \in {"mark", "undo"} => ~Elem(u, d).errs /\ ~Clean(lv, Elem(u, d).events)
      BY <3>3
    <3>5. CASE p = Nowhere
      BY <3>3, <3>4, <3>5, AtEnds DEF Link
    <3>6. CASE p = Lost
      <4>1. s[k] = Error \/ (s[k] = Adv /\ k < M)
        BY <3>6
      <4>2. CASE s[k] = Error
        BY <3>3, <3>4, <3>6, <4>2, AtEnds DEF Link
      <4>3. CASE s[k] = Adv /\ k < M
        <5>0. L \in Nat /\ M \in Nat /\ k < M
          BY <1>1, <4>3
        <5>1. d - 1 \in (L + 1)..(L + M)
          BY <3>1, <3>2, <5>0
        <5>2. i[d - 1].kind = "lost"
          BY <1>3, <3>6, <5>1, AtEnds
        <5> QED
          BY <3>3, <3>4, <3>6, <4>3, <5>2, AtEnds DEF Link
      <4> QED
        BY <4>1, <4>2, <4>3
    <3> QED
      BY <3>5, <3>6
  <2> QED
    BY <2>1, <2>2
<1>6. Chain(lv, u, i)
  <2>1. 0 \in 0..L /\ h[0].kind = "live" /\ h[0].nest = << >>
    BY <1>1 DEF Chain
  <2> QED
    BY <1>3, <1>5, <2>1 DEF Chain
<1>7. s # << >> => i[Len(u)] = p
  <2>1. s # << >> => Len(u) \in (L + 1)..(L + M)
    BY <1>1, EmptySeq
  <2> QED
    BY <1>3, <2>1
<1> QED
  BY <1>3, <1>6, <1>7 DEF u

\* A speculation ends in a failure: what is below it is as it was.
LEMMA Reverting ==
  ASSUME NEW lv, NEW u \in Seq(Elems), NEW h, Chain(lv, u, h), NEW j \in 1..Len(u), u[j].op = "mark",
         todo' = <<[u[j] EXCEPT !.op = "undo"]>> \o Sfx(u, j)
  PROVE  Good(lv)'
<1>1. PICK N \in Nat : N = Len(u)
  BY LenProperties
<1>2. PICK i : Below(lv, u, h, j, i)
  <2>1. j \in 0..Len(u)
    OBVIOUS
  <2> QED
    BY <2>1, ChainDrops
<1>3. PICK t \in Seq(Elems) : t = Sfx(u, j) /\ Len(t) = N - j
  <2>1. j \in 0..Len(u)
    OBVIOUS
  <2>2. Sfx(u, j) \in Seq(Elems) /\ Len(Sfx(u, j)) = N - j
    BY <1>1, <2>1, SfxIs
  <2> QED
    BY <2>2
<1>4. Chain(lv, t, i) /\ i[Len(t)] = h[N - j]
  BY <1>1, <1>2, <1>3 DEF Below
<1>5. PICK x : x = [u[j] EXCEPT !.op = "undo"]
  OBVIOUS
<1>6. u[j] \in Saves
  BY ElementOfSeq, ElemKinds
<1>7. x \in Elems /\ x.op = "undo" /\ x.errs = u[j].errs /\ x.events = u[j].events /\ x.pos = u[j].pos
      /\ x.nest = u[j].nest
  BY <1>5, <1>6 DEF Saves, Elems
<1>8. Link(lv, u, h, N + 1 - j) /\ Elem(u, N + 1 - j) = u[j]
  <2>1. N + 1 - j \in 1..Len(u) /\ N + 1 - (N + 1 - j) = j
    BY <1>1
  <2> QED
    BY <1>1, <2>1 DEF Chain, Elem
<1>9. ~x.errs /\ (Clean(lv, x.events) => Told(lv, x, i[Len(t)]))
  <2>1. (N + 1 - j) - 1 = N - j
    BY <1>1
  <2>2. ~u[j].errs /\ (Clean(lv, u[j].events) => Told(lv, u[j], h[N - j]))
    BY <1>8, <2>1 DEF Link
  <2> QED
    BY <1>4, <1>7, <2>2 DEF Told
<1>10. Joins(lv, t, i, x, Lost)
  <2> SUFFICES ASSUME NEW g, Topped(t, i, x, Lost, g) PROVE Link(lv, <<x>> \o t, g, Len(t) + 1)
    BY DEF Joins
  <2>1. Len(t) \in 0..Len(t) /\ (Len(t) + 1) - 1 = Len(t)
    BY LenProperties
  <2>2. g[(Len(t) + 1) - 1] = i[Len(t)] /\ g[Len(t) + 1] = Lost /\ Elem(<<x>> \o t, Len(t) + 1) = x
    BY <2>1 DEF Topped, Agree
  <2> QED
    BY <1>7, <1>9, <2>2, AtEnds DEF Link
<1>101. PICK g : Grown(lv, t, i, x, Lost, g)
  BY <1>4, <1>7, <1>10, AtEnds, ChainGrows
<1>11. Chain(lv, <<x>> \o t, g) /\ g[Len(t) + 1] = Lost /\ Len(<<x>> \o t) = Len(t) + 1
  BY <1>101 DEF Grown
<1>12. todo' = <<x>> \o t /\ Tells(lv, Lost)'
  BY <1>3, <1>5, AtEnds DEF Tells, TellsOf
<1> QED
  BY <1>11, <1>12 DEF Good

\* What is put on the stack below a body.
LEMMA CatOne ==
  ASSUME NEW s \in Seq(Elems), NEW x \in Elems, NEW t \in Seq(Elems)
  PROVE  s \o <<x>> \in Seq(Elems) /\ <<x>> \o t \in Seq(Elems) /\ (s \o <<x>>) \o t = s \o (<<x>> \o t)
<1>1. <<x>> \in Seq(Elems)
  OBVIOUS
<1>2. PICK y \in Seq(Elems) : y = <<x>>
  BY <1>1
<1>3. s \o y \in Seq(Elems) /\ y \o t \in Seq(Elems) /\ (s \o y) \o t = s \o (y \o t)
  BY CatIs, ConcatAssociative
<1> QED
  BY <1>2, <1>3

CodeIsElems == Seq(Instructions) \subseteq Seq(Elems)
LEMMA CodeElems == CodeIsElems
BY DEF Elems, CodeIsElems

Resuming == [op |-> "caught", then |-> ins.then]
Guarding == [op |-> "guard", from |-> pos]
Growing == [op |-> "grown", was |-> made]
Backing == [op |-> "restore", nsl |-> nsl, head |-> ins.nsl, open |-> Len(nest), failed |-> FALSE]
Resetting == [op |-> "caught", then |-> <<[op |-> "restore", nsl |-> nsl, head |-> ins.nsl, open |-> Len(nest), failed |-> TRUE]>>]

Frame(op, s, x) ==
  /\ todo # << >> /\ ins \in Instructions /\ ins.op = op /\ s \in Seq(Instructions) /\ s \in Seq(Elems)
  /\ x \in Elems /\ rest \in Seq(Elems) /\ <<x>> \o rest \in Seq(Elems) /\ todo' = s \o (<<x>> \o rest)

LEMMA FrameIs ==
  ASSUME TypeOK, NEW op \in Kinds \ {"scan"}, Now(op), NEW s \in Seq(Instructions), NEW x \in Elems,
         todo' = (s \o <<x>>) \o rest
  PROVE  Frame(op, s, x)
<1>1. todo # << >> /\ ins \in Instructions /\ ins.op = op /\ rest \in Seq(Elems)
  BY TopIs
<1>2. s \in Seq(Elems)
  BY CodeElems DEF CodeIsElems
<1> QED
  BY <1>1, <1>2, CatOne DEF Frame

LEMMA HandleIs == ASSUME TypeOK, Handle PROVE \E x : x = Resuming /\ Frame("catch", ins.body, x) /\ x.op = "caught"
<1>1. Now("catch") /\ todo' = (ins.body \o <<Resuming>>) \o rest
  BY DEF Handle, Resuming
<1>2. ins \in Instructions /\ ins.op = "catch"
  BY <1>1, TopIs DEF Kinds
<1>3. ins.then \in Seq(Instructions) /\ ins.body \in Seq(Instructions)
  BY <1>2, ThroughOf, ThroughIs
<1>4. Resuming \in Handlers /\ Resuming.op = "caught"
  BY <1>3 DEF Resuming, Handlers
<1>5. Resuming \in Elems
  BY <1>4 DEF Elems
<1>6. "catch" \in Kinds \ {"scan"}
  BY DEF Kinds
<1> QED
  BY <1>1, <1>3, <1>4, <1>5, <1>6, FrameIs

LEMMA NotePositionIs ==
  ASSUME TypeOK, NotePosition
  PROVE  \E x : x = Guarding /\ Frame("advancing", ins.body, x) /\ x.op = "guard" /\ x.from = pos
<1>1. Now("advancing") /\ todo' = (ins.body \o <<Guarding>>) \o rest
  BY DEF NotePosition, Guarding
<1>2. ins \in Instructions /\ ins.op = "advancing"
  BY <1>1, TopIs DEF Kinds
<1>3. ins.body \in Seq(Instructions)
  BY <1>2, ThroughOf, ThroughIs
<1>4. Guarding \in Guards /\ Guarding.op = "guard" /\ Guarding.from = pos
  BY DEF Guarding, Guards, TypeOK
<1>5. Guarding \in Elems
  BY <1>4 DEF Elems
<1>6. "advancing" \in Kinds \ {"scan"}
  BY DEF Kinds
<1> QED
  BY <1>1, <1>3, <1>4, <1>5, <1>6, FrameIs

LEMMA BlockItemIs ==
  ASSUME TypeOK, BlockItem
  PROVE  \E x : x = Growing /\ Frame("item", <<Call("item")>>, x) /\ x.op = "grown"
<1>1. Now("item") /\ todo' = <<Call("item"), Growing>> \o rest
  BY DEF BlockItem, Growing
<1>2. ins \in Instructions /\ ins.op = "item"
  BY <1>1, TopIs DEF Kinds
<1>3. <<Call("item")>> \in Seq(Instructions)
  BY <1>2, ThroughOf, ThroughIs
<1>4. Growing \in Growns /\ Growing.op = "grown"
  BY DEF Growing, Growns, TypeOK
<1>5. Growing \in Elems
  BY <1>4 DEF Elems
<1>6. "item" \in Kinds \ {"scan"}
  BY DEF Kinds
<1>7. <<Call("item"), Growing>> = <<Call("item")>> \o <<Growing>>
  OBVIOUS
<1>8. todo' = (<<Call("item")>> \o <<Growing>>) \o rest
  BY <1>1, <1>7
<1> QED
  BY <1>1, <1>3, <1>4, <1>5, <1>6, <1>8, FrameIs

LEMMA AttemptIs ==
  ASSUME TypeOK, Now("speculate"), todo' = ins.body \o <<Saved>> \o rest
  PROVE  \E x : /\ x = Saved /\ Frame("speculate", ins.body, x) /\ x.op = "mark" /\ x.pos = pos /\ x.errs = errs
                /\ x.events = events /\ x.nest = nest
<1>2. ins \in Instructions /\ ins.op = "speculate"
  BY TopIs DEF Kinds
<1>3. ins.body \in Seq(Instructions) /\ ins.memo \in BOOLEAN
  BY <1>2, ThroughOf, Closed
<1>4. Saved \in Saves /\ Saved.op = "mark" /\ Saved.pos = pos /\ Saved.errs = errs
      /\ Saved.events = events /\ Saved.nest = nest
  BY <1>3 DEF Saved, Saves, TypeOK
<1>5. Saved \in Elems
  BY <1>4 DEF Elems
<1>6. "speculate" \in Kinds \ {"scan"}
  BY DEF Kinds
<1> QED
  BY <1>3, <1>4, <1>5, <1>6, FrameIs

LEMMA PairIs == ASSUME NEW S, NEW x \in S, NEW y \in S PROVE <<x, y>> = <<x>> \o <<y>>
<1>1. <<x, y>> \in Seq(S) /\ Len(<<x, y>>) = 2 /\ <<x, y>>[1] = x /\ <<x, y>>[2] = y
  OBVIOUS
<1>2. PICK a \in Seq(S) : a = <<x>> /\ Len(a) = 1 /\ a[1] = x
  BY OneIs
<1>3. PICK b \in Seq(S) : b = <<y>> /\ Len(b) = 1 /\ b[1] = y
  BY OneIs
<1>4. a \o b \in Seq(S) /\ Len(a \o b) = 2 /\ (a \o b)[1] = x /\ (a \o b)[2] = y
  <2>1. 1 \in 1..1 /\ 1 + Len(a) = 2
    BY <1>2
  <2> QED
    BY <1>2, <1>3, <2>1, CatIs
<1>5. \A i \in 1..2 : <<x, y>>[i] = (a \o b)[i]
  BY <1>1, <1>4
<1> QED
  BY <1>1, <1>2, <1>3, <1>4, <1>5, SeqEqual

LEMMA CatTwo ==
  ASSUME NEW s \in Seq(Elems), NEW x \in Elems, NEW y \in Elems, NEW t \in Seq(Elems)
  PROVE  (s \o <<x, y>>) \o t = (s \o <<x>>) \o (<<y>> \o t)
<1>0. <<x, y>> = <<x>> \o <<y>>
  BY PairIs
<1>01. <<x>> \in Seq(Elems)
  OBVIOUS
<1>02. <<y>> \in Seq(Elems)
  OBVIOUS
<1>1. <<x, y>> = <<x>> \o <<y>> /\ <<x>> \in Seq(Elems) /\ <<y>> \in Seq(Elems)
  BY <1>0, <1>01, <1>02
<1>2. PICK z \in Seq(Elems) : z = s \o <<x>>
  BY CatOne
<1>3. PICK b \in Seq(Elems) : b = <<y>>
  BY <1>1
<1>4. PICK a \in Seq(Elems) : a = <<x>>
  BY <1>1
<1>5. (s \o a) \o b = s \o (a \o b)
  BY CatElems, SMTT(60)
<1>6. (z \o b) \o t = z \o (b \o t)
  BY CatElems, SMTT(60)
<1> QED
  BY <1>1, <1>2, <1>3, <1>4, <1>5, <1>6

LEMMA LimitIs ==
  ASSUME TypeOK, Limit
  PROVE  \E x, y : /\ x = Resetting /\ y = Backing /\ x \in Elems /\ y \in Elems
                   /\ x.op = "caught" /\ y.op = "restore" /\ ~y.failed /\ y.open = Len(nest)
                   /\ todo # << >> /\ ins \in Instructions /\ ins.op = "nsl" /\ ins.body \in Seq(Instructions)
                   /\ ins.body \in Seq(Elems) /\ rest \in Seq(Elems)
                   /\ <<y>> \o rest \in Seq(Elems) /\ <<x>> \o (<<y>> \o rest) \in Seq(Elems)
                   /\ todo' = ins.body \o (<<x>> \o (<<y>> \o rest))
<1>1. Now("nsl")
  BY DEF Limit
<1>2. ins \in Instructions /\ ins.op = "nsl" /\ todo # << >> /\ rest \in Seq(Elems)
  BY <1>1, TopIs DEF Kinds
<1>3. ins.body \in Seq(Instructions) /\ ins.nsl \in BOOLEAN
  BY <1>2, ThroughOf, ThroughIs, Closed
<1> DEFINE out == [op |-> "restore", nsl |-> nsl, head |-> ins.nsl, open |-> Len(nest), failed |-> TRUE]
<1>4. out \in Backs /\ Backing \in Backs /\ Backing.op = "restore" /\ ~Backing.failed /\ Backing.open = Len(nest)
  BY <1>3 DEF Backing, Backs, TypeOK
<1>5. Resetting \in Handlers /\ Resetting.op = "caught"
  <2>1. <<out>> \in Seq(Instructions \cup Backs) /\ Resetting = [op |-> "caught", then |-> <<out>>]
    BY <1>4 DEF Resetting
  <2> HIDE DEF out
  <2> QED
    BY <2>1 DEF Handlers
<1>6. todo' = ins.body \o <<Resetting, Backing>> \o rest
  BY DEF Limit, Resetting, Backing
<1>7. PICK x \in Elems : x = Resetting
  BY <1>5 DEF Elems
<1>8. PICK y \in Elems : y = Backing
  BY <1>4 DEF Elems
<1>9. PICK s \in Seq(Elems) : s = ins.body
  BY <1>3, CodeElems DEF CodeIsElems
<1>10. PICK t \in Seq(Elems) : t = rest
  BY <1>2
<1>11. /\ s \o <<x>> \in Seq(Elems) /\ <<y>> \o t \in Seq(Elems) /\ (s \o <<x>>) \o (<<y>> \o t) = s \o (<<x>> \o (<<y>> \o t))
       /\ <<x>> \o (<<y>> \o t) \in Seq(Elems)
  <2>1. PICK z \in Seq(Elems) : z = <<y>> \o t
    BY CatOne
  <2>2. s \o <<x>> \in Seq(Elems) /\ <<x>> \o z \in Seq(Elems) /\ (s \o <<x>>) \o z = s \o (<<x>> \o z)
    BY CatOne
  <2> QED
    BY <2>1, <2>2
<1>12. (s \o <<x, y>>) \o t = (s \o <<x>>) \o (<<y>> \o t)
  BY CatTwo
<1> QED
  BY <1>2, <1>3, <1>4, <1>5, <1>6, <1>7, <1>8, <1>9, <1>10, <1>11, <1>12

\* Of what comes on the stack, only the record of a speculation that begins is one of those.
Newly(E, x) ==
  x.op # "undo" /\ (x.op = "mark" => ins.op = "speculate" /\ x.memo = ins.memo /\ ~x.errs /\ x.events = E)
Fresh(E, s) == \A k \in 1..Len(s) : Newly(E, s[k])
Replaced == \E j \in 0..Len(todo) : \E s \in Seq(Elems) : todo' = s \o Sfx(todo, j) /\ Fresh(events', s)
Reverted == \E j \in 2..Len(todo) : todo[j].op = "mark" /\ todo' = <<[todo[j] EXCEPT !.op = "undo"]>> \o Sfx(todo, j)

LEMMA FreshCode ==
  ASSUME NEW E, NEW s, s \in Seq(Instructions \cup Scans) \/ s \in Seq(Instructions \cup Backs)
  PROVE  s \in Seq(Elems) /\ Fresh(E, s)
<1>1. \A x \in Instructions \cup Scans \cup Backs : x \in Elems /\ x.op \notin {"mark", "undo"}
  BY PlainKinds DEF Elems, Backs
<1>2. s \in Seq(Instructions \cup Scans \cup Backs)
  OBVIOUS
<1>3. s \in Seq(Elems)
  BY <1>1, <1>2
<1>4. \A k \in 1..Len(s) : s[k] \in Instructions \cup Scans \cup Backs
  BY <1>2, ElementOfSeq
<1> QED
  BY <1>1, <1>3, <1>4 DEF Fresh, Newly

LEMMA FreshMore ==
  ASSUME NEW E, NEW s \in Seq(Elems), Fresh(E, s), NEW x \in Elems, Newly(E, x)
  PROVE  s \o <<x>> \in Seq(Elems) /\ Fresh(E, s \o <<x>>)
<1>1. PICK y \in Seq(Elems) : y = <<x>> /\ Len(y) = 1 /\ y[1] = x
  BY OneIs
<1>2. /\ s \o y \in Seq(Elems) /\ Len(s \o y) = Len(s) + 1 /\ (\A k \in 1..Len(s) : (s \o y)[k] = s[k])
      /\ (s \o y)[1 + Len(s)] = x /\ Len(s) \in Nat
  <2>1. 1 \in 1..1
    OBVIOUS
  <2> QED
    BY <1>1, <2>1, CatIs, LenProperties
<1>3. \A k \in 1..Len(s \o y) : k \in 1..Len(s) \/ k = 1 + Len(s)
  BY <1>2
<1>4. Fresh(E, s \o y)
  BY <1>2, <1>3 DEF Fresh
<1> QED
  BY <1>1, <1>2, <1>4

LEMMA GaveUpFresh ==
  ASSUME todo \in Seq(Elems), Stack(todo), todo # << >>, Handled(todo, 1), todo' = GaveUp(rest)
  PROVE  Replaced \/ Reverted
<1>1. PICK j \in 2..Len(todo) :
        /\ todo[j].op \in {"caught", "mark"}
        /\ todo' = (IF todo[j].op = "caught" THEN todo[j].then ELSE <<[todo[j] EXCEPT !.op = "undo"]>>) \o Sfx(todo, j)
  BY GaveUpIs DEF rest
<1>2. j \in 0..Len(todo) /\ j \in 1..Len(todo) /\ todo[j] \in Elems
  BY ElementOfSeq
<1>3. CASE todo[j].op = "mark"
  BY <1>1, <1>2, <1>3 DEF Reverted
<1>4. CASE todo[j].op = "caught"
  <2>1. todo[j].then \in Seq(Instructions \cup Backs)
    BY <1>2, <1>4, ElemKinds DEF Handlers
  <2>2. todo[j].then \in Seq(Elems) /\ Fresh(events', todo[j].then)
    BY <2>1, FreshCode
  <2> QED
    BY <1>1, <1>2, <1>4, <2>2 DEF Replaced
<1> QED
  BY <1>1, <1>3, <1>4

LEMMA Rearranged == ASSUME Shape, [Next]_vars, ~errs PROVE Replaced \/ Reverted
<1>1. TypeOK /\ Stack(todo) /\ todo \in Seq(Elems) /\ todo \in Seq(Since(base)) /\ Len(todo) \in Nat
  BY SinceIs, LenProperties DEF Shape, TypeOK
<1>2. Moved
  BY <1>1, TodoMoves
<1>3. 0 \in 0..Len(todo) /\ Sfx(todo, 0) = todo /\ (todo # << >> => 1 \in 0..Len(todo) /\ rest = Sfx(todo, 1))
  <2>1. Sfx(todo, 0) = todo /\ 0 \in 0..Len(todo)
    BY <1>1, SfxWhole
  <2>2. todo # << >> => Tail(todo) = Sfx(todo, 1) /\ Len(todo) >= 1
    BY <1>1, TailIs
  <2> QED
    BY <1>1, <2>1, <2>2 DEF rest
<1>4. ASSUME NEW s, s \in Seq(Instructions \cup Scans), todo' = s \o todo \/ (todo # << >> /\ todo' = s \o rest) PROVE Replaced
  <2>1. s \in Seq(Elems) /\ Fresh(events', s)
    BY <1>4, FreshCode
  <2> QED
    BY <1>3, <1>4, <2>1 DEF Replaced
<1>5. ASSUME NEW op, NEW s, NEW x, Frame(op, s, x), Newly(events', x) PROVE Replaced
  <2>1. /\ s \in Seq(Instructions) /\ s \in Seq(Elems) /\ x \in Elems /\ rest \in Seq(Elems) /\ todo # << >>
        /\ todo' = s \o (<<x>> \o rest)
    BY <1>5 DEF Frame
  <2>2. Fresh(events', s)
    BY <2>1, FreshCode
  <2>3. s \o <<x>> \in Seq(Elems) /\ Fresh(events', s \o <<x>>)
    BY <1>5, <2>1, <2>2, FreshMore
  <2>4. todo' = (s \o <<x>>) \o rest
    BY <2>1, CatOne
  <2> QED
    BY <1>3, <2>1, <2>3, <2>4 DEF Replaced
<1>6. CASE todo' = todo
  <2>1. << >> \in Seq(Instructions \cup Scans) /\ << >> \o todo = todo
    BY <1>1
  <2> QED
    BY <1>4, <1>6, <2>1
<1>7. ASSUME todo # << >>, NEW s, Brings(s), todo' = s \o rest PROVE Replaced
  BY <1>4, <1>7 DEF Brings
<1>8. ASSUME ins \in Instructions, NEW s \in Through(ins), todo' = s \o todo PROVE Replaced
  <2>1. s \in Seq(Instructions)
    BY <1>8, ThroughIs
  <2>2. s \in Seq(Instructions \cup Scans)
    BY <2>1
  <2> QED
    BY <1>4, <1>8, <2>2
<1>9. CASE todo # << >> /\ ins \in MayFail /\ todo' = GaveUp(rest)
  <2>1. Handled(todo, 1)
    BY <1>1, <1>9, RestIs
  <2> QED
    BY <1>1, <1>9, <2>1, GaveUpFresh
<1>10. CASE todo # << >> /\ (ins \in MayBreak \/ ins.op = "grown") /\ todo' = Left(rest)
  <2>1. Rests(todo, 1) /\ (ins \in MayBreak => Looped(todo, 1))
    BY <1>1, <1>10, RestIs
  <2>2. Looped(todo, 1)
    BY <1>10, <2>1 DEF Rests, ins
  <2>3. PICK j \in 2..Len(todo) : todo' = Sfx(todo, j)
    BY <1>1, <1>10, <2>2, LeftIs DEF rest
  <2>4. j \in 0..Len(todo)
    BY <1>1
  <2>5. Sfx(todo, j) \in Seq(Elems)
    BY <1>1, <2>4, SfxIs
  <2>6. << >> \in Seq(Elems) /\ << >> \in Seq(Instructions \cup Scans) /\ todo' = << >> \o Sfx(todo, j)
    BY <2>3, <2>5
  <2>7. Fresh(events', << >>)
    BY <2>6, FreshCode
  <2> QED
    BY <2>4, <2>6, <2>7 DEF Replaced
<1>11. CASE Handle
  BY <1>1, <1>5, <1>11, HandleIs DEF Newly
<1>12. CASE NotePosition
  BY <1>1, <1>5, <1>12, NotePositionIs DEF Newly
<1>13. CASE BlockItem
  BY <1>1, <1>5, <1>13, BlockItemIs DEF Newly
<1>14. CASE events' = events /\ Now("speculate") /\ todo' = ins.body \o <<Saved>> \o rest
  <2>1. PICK x : x = Saved /\ Frame("speculate", ins.body, x) /\ x.op = "mark" /\ x.errs = errs /\ x.events = events
    BY <1>1, <1>14, AttemptIs
  <2>2. x.memo = ins.memo
    BY <2>1 DEF Saved
  <2>3. Newly(events', x)
    BY <1>14, <2>1, <2>2 DEF Newly, Frame
  <2> QED
    BY <1>5, <2>1, <2>3
<1>15. CASE Limit
  <2>1. PICK x, y : /\ x \in Elems /\ y \in Elems /\ x.op = "caught" /\ y.op = "restore" /\ todo # << >>
                    /\ ins.body \in Seq(Instructions) /\ ins.body \in Seq(Elems) /\ rest \in Seq(Elems)
                    /\ <<y>> \o rest \in Seq(Elems)
                    /\ todo' = ins.body \o (<<x>> \o (<<y>> \o rest))
    BY <1>1, <1>15, LimitIs
  <2>2. PICK s \in Seq(Elems) : s = ins.body
    BY <2>1
  <2>3. Fresh(events', s)
    BY <2>1, <2>2, FreshCode
  <2>4. PICK a \in Seq(Elems) : a = s \o <<x>>
    BY <2>1, CatOne
  <2>41. Newly(events', x) /\ Newly(events', y)
    BY <2>1 DEF Newly
  <2>5. Fresh(events', a)
    BY <2>1, <2>3, <2>4, <2>41, FreshMore
  <2>6. a \o <<y>> \in Seq(Elems) /\ Fresh(events', a \o <<y>>)
    BY <2>1, <2>41, <2>5, FreshMore
  <2>7. (a \o <<y>>) \o rest = a \o (<<y>> \o rest)
    BY <2>1, CatOne
  <2>8. a \o (<<y>> \o rest) = s \o (<<x>> \o (<<y>> \o rest))
    <3>1. PICK t \in Seq(Elems) : t = <<y>> \o rest
      BY <2>1
    <3>2. (s \o <<x>>) \o t = s \o (<<x>> \o t)
      BY <2>1, CatOne
    <3> QED
      BY <2>4, <3>1, <3>2
  <2>9. todo' = (a \o <<y>>) \o rest
    BY <2>1, <2>2, <2>7, <2>8
  <2> QED
    BY <1>3, <2>1, <2>6, <2>9 DEF Replaced
<1>16. CASE Restore
  <2>1. Now("restore") /\ todo' = IF ins.failed THEN GaveUp(rest) ELSE rest
    BY <1>16 DEF Restore
  <2>2. ins.op = "restore" /\ todo # << >> /\ ins = todo[1] /\ Rests(todo, 1) /\ rest \in Seq(Elems)
    BY <1>1, <2>1, TopIs, RestIs DEF ins
  <2>3. CASE ins.failed
    <3>1. Kept(todo, 1)
      BY <2>2 DEF Rests
    <3>2. Handled(todo, 2)
      BY <2>2, <2>3, <3>1, Zenon DEF Kept
    <3>3. Handled(todo, 1)
      BY <1>1, <3>2 DEF Handled
    <3> QED
      BY <1>1, <2>1, <2>2, <2>3, <3>3, GaveUpFresh
  <2>4. CASE ~ins.failed
    <3>1. << >> \in Seq(Instructions \cup Scans) /\ << >> \o rest = rest
      BY <2>2
    <3> QED
      BY <1>4, <2>1, <2>2, <2>4, <3>1
  <2> QED
    BY <2>3, <2>4
<1> QED
  BY <1>2, <1>6, <1>7, <1>8, <1>9, <1>10, <1>11, <1>12, <1>13, <1>14, <1>15, <1>16 DEF Moved

LEMMA Dirtied ==
  ASSUME Shape, [Next]_vars, ~errs, NEW lv, Good(lv), ~Clean(lv, events')
  PROVE  Good(lv)'
<1>1. PICK h : Chain(lv, todo, h)
  BY DEF Good
<1>2. todo \in Seq(Elems)
  BY SinceIs DEF Shape, TypeOK
<1>3. CASE Reverted
  BY <1>1, <1>2, <1>3, Reverting DEF Reverted
<1>4. CASE Replaced
  <2>1. PICK j \in 0..Len(todo) : \E s \in Seq(Elems) : todo' = s \o Sfx(todo, j) /\ Fresh(events', s)
    BY <1>4 DEF Replaced
  <2>2. PICK s \in Seq(Elems) : todo' = s \o Sfx(todo, j) /\ Fresh(events', s)
    BY <2>1
  <2>3. PICK i : Below(lv, todo, h, j, i)
    BY <1>1, <1>2, ChainDrops
  <2>4. PICK t \in Seq(Elems) : t = Sfx(todo, j)
    BY <1>2, SfxIs
  <2>5. Chain(lv, t, i)
    BY <2>3, <2>4 DEF Below
  <2>6. \A k \in 1..Len(s) : s[k].op \in {"mark", "undo"} => ~s[k].errs /\ ~Clean(lv, s[k].events)
    <3>1. ASSUME NEW k \in 1..Len(s), s[k].op \in {"mark", "undo"} PROVE ~s[k].errs /\ ~Clean(lv, s[k].events)
      BY <2>2, <3>1 DEF Fresh, Newly
    <3> QED
      BY <3>1
  <2>7. Nowhere \in {Nowhere, Lost} /\ Nowhere # Lost
    BY AtEnds
  <2>8. \E g : Chain(lv, s \o t, g)
    BY <2>5, <2>6, <2>7, Overlaid DEF SavesDirt, OverlaidBy
  <2> QED
    BY <2>2, <2>4, <2>8 DEF Good
<1> QED
  BY <1>3, <1>4, Rearranged

===============================================================================
