--------------------------- MODULE ParserSoundProofs ---------------------------
(***************************************************************************)
(* What Parser accepts and what it reports, whatever the files: brackets   *)
(* are closed in order, a ban on struct literals ends with its head, and   *)
(* recovery skips nothing in silence.  The proofs rest on Discipline, what *)
(* the functions of Grammar keep at every point, and on ParserProofs.      *)
(***************************************************************************)
EXTENDS ParserProofs

-----------------------------------------------------------------------------
(* Where nothing but what is known is on the way, a step keeps it.         *)

\* What is known of the cursor's past is more in a later state.
LEMMA EventsGrow == ASSUME TypeOK, [Next]_vars, ~errs, NEW lv, Clean(lv, events') PROVE Undo \/ Clean(lv, events)
<1>1. Reads
  BY CursorMoves
<1>2. \A E : Saw(E) => events \subseteq events'
  BY DEF Saw
<1>3. CASE Lex
  BY <1>3, LexIs DEF account, Clean
<1>4. events \subseteq events' => Clean(lv, events)
  BY DEF Clean
<1> QED
  BY <1>1, <1>2, <1>3, <1>4 DEF Reads, Ignored, account, Took, Reported

LEMMA Passing ==
  ASSUME Shape, NEW lv, NEW i, NEW T, NEW k, NEW R, NEW n, Facing(lv, i, T, k, R, n), todo' = rest, pos' \in Nat,
         Tells(lv, Placed(T.at[k + 1], R, n))', T.at[k + 1].kind = "live"
  PROVE  Good(lv)'
<1>1. /\ Chain(lv, rest, i) /\ T.at[k + 1] \in Facts /\ R \in Seq(Closing) /\ n \in Nat
      /\ Leads(Placed(T.at[k + 1], R, n), i[Len(rest)])
  BY DEF Facing
<1>2. PICK p : p = Placed(T.at[k + 1], R, n)
  OBVIOUS
<1>3. p \in Points /\ p.kind = "live" /\ Tells(lv, p)'
  BY <1>1, <1>2, PlacedPoint, PlacedFact
<1>4. PICK t \in Seq(Elems) : t = rest
  <2>1. todo \in Seq(Elems) /\ todo # << >>
    BY SinceIs DEF Shape, TypeOK, Facing
  <2>2. rest \in Seq(Elems)
    BY <2>1, TailIs DEF rest
  <2> QED
    BY <2>2
<1>5. Chain(lv, t, i) /\ todo' = t /\ Leads(p, i[Len(t)])
  BY <1>1, <1>2, <1>4
<1> QED
  BY <1>3, <1>5, Stops

LEMMA PassTaken ==
  ASSUME Shape, ~errs, NEW lv \in 1..3, NEW i, NEW T, NEW k, NEW R, NEW n, Facing(lv, i, T, k, R, n), todo' = rest,
         NEW E, Took(E), Seen(1), NEW f \in Facts, f.kind = "live", Tells(lv, Placed(f, R, n)), NEW S, Peek \in S,
         NEW look, Beyond(f, look), Takes(f, S, look, T.at[k + 1])
  PROVE  Good(lv)'
<1>1. TypeOK /\ T.at[k + 1] \in Facts /\ R \in Seq(Closing) /\ n \in Nat
  BY DEF Shape, Facing
<1>2. Tells(lv, Placed(T.at[k + 1], R, n))' /\ T.at[k + 1].kind = "live"
  BY <1>1, TakeTells
<1>3. pos' \in Nat
  BY <1>1, ConsumedIs DEF Took
<1> QED
  BY <1>2, <1>3, Passing

LEMMA BlindLeads ==
  ASSUME pos \in Nat, pos' \in Nat, pos <= pos', NEW lv \in 1..3, lv >= 2 => nest' = nest,
         NEW f \in Facts, f.kind = "live", NEW R \in Seq(Closing), NEW n \in Nat,
         Tells(lv, Placed(f, R, n)) \/ Tells(lv, Placed(Blind(f), R, n)), NEW g \in Facts, Leads(Blind(f), g)
  PROVE  Tells(lv, Placed(g, R, n))' /\ g.kind = "live"
<1>1. Tells(lv, Placed(Blind(f), R, n))' /\ Blind(f) \in Facts /\ Blind(f).kind = "live"
  BY BlindTells
<1>2. PICK b \in Facts : b = Blind(f)
  BY <1>1
<1>3. b.nest \in Seq(Closing) /\ b.low \in Nat /\ g.nest \in Seq(Closing) /\ g.low \in Nat
  BY DEF Facts
<1>4. Leads(Placed(b, R, n), Placed(g, R, n))
  BY <1>2, <1>3, LeadsPlaced
<1>5. Placed(b, R, n) \in Points /\ Placed(g, R, n) \in Points /\ Placed(b, R, n).kind = "live"
  BY <1>1, <1>2, PlacedPoint, PlacedFact
<1>6. Tells(lv, Placed(g, R, n))' /\ Placed(g, R, n).kind = "live"
  BY <1>1, <1>2, <1>4, <1>5, LeadsNext
<1> QED
  BY <1>6, PlacedFact

LEMMA PassBlind ==
  ASSUME Shape, NEW lv \in 1..3, NEW i, NEW T, NEW k, NEW R, NEW n, Facing(lv, i, T, k, R, n), todo' = rest,
         pos' \in Nat, pos <= pos', lv >= 2 => nest' = nest, Leads(Blind(T.at[k]), T.at[k + 1])
  PROVE  Good(lv)'
<1>1. /\ T.at[k] \in Facts /\ T.at[k].kind = "live" /\ T.at[k + 1] \in Facts /\ R \in Seq(Closing) /\ n \in Nat /\ pos \in Nat
      /\ Tells(lv, Placed(T.at[k], R, n)) \/ Tells(lv, Placed(Blind(T.at[k]), R, n))
  BY DEF Shape, TypeOK, Facing, Known
<1>2. Tells(lv, Placed(T.at[k + 1], R, n))' /\ T.at[k + 1].kind = "live"
  BY <1>1, BlindLeads
<1> QED
  BY <1>2, Passing

LEMMA PassOn ==
  ASSUME Shape, NEW lv \in 1..3, NEW i, NEW T, NEW k, NEW R, NEW n, Facing(lv, i, T, k, R, n), todo' = rest,
         ins.op \notin {"loop", "infix"}, UNCHANGED <<drawn, base, pos, nest>>, Leads(T.at[k], T.at[k + 1])
  PROVE  Good(lv)'
<1>1. /\ T.at[k] \in Facts /\ T.at[k].kind = "live" /\ T.at[k + 1] \in Facts /\ R \in Seq(Closing) /\ n \in Nat /\ pos' \in Nat
      /\ Tells(lv, Placed(T.at[k], R, n))
  BY DEF Shape, TypeOK, Facing, Known
<1>2. Tells(lv, Placed(T.at[k], R, n))'
  BY <1>1, LookingKept, TellsKept
<1>3. Leads(Placed(T.at[k], R, n), Placed(T.at[k + 1], R, n))
  BY <1>1, PlacedFact, LeadsPlaced
<1>4. Placed(T.at[k], R, n) \in Points /\ Placed(T.at[k + 1], R, n) \in Points /\ Placed(T.at[k], R, n).kind = "live"
  BY <1>1, PlacedPoint, PlacedFact
<1>5. Tells(lv, Placed(T.at[k + 1], R, n))' /\ Placed(T.at[k + 1], R, n).kind = "live"
  BY <1>1, <1>2, <1>3, <1>4, LeadsNext
<1>6. T.at[k + 1].kind = "live"
  BY <1>1, <1>5, PlacedFact
<1> QED
  BY <1>1, <1>5, <1>6, Passing

\* A step from where ins faces what is known, with nothing on the way that the properties except.
Going(lv, i, T, k, R, n) ==
  Shape /\ ~errs /\ ~errs' /\ Clean(lv, events') /\ pos' \in Nat /\ lv \in 1..3 /\ Facing(lv, i, T, k, R, n)

LEMMA GoingIs ==
  ASSUME NEW lv, NEW i, NEW T, NEW k, NEW R, NEW n, Going(lv, i, T, k, R, n)
  PROVE  /\ Shape /\ TypeOK /\ ~errs /\ ~errs' /\ Clean(lv, events') /\ pos' \in Nat /\ pos \in Nat /\ lv \in 1..3
         /\ Facing(lv, i, T, k, R, n) /\ todo # << >> /\ T \in Typed /\ R \in Seq(Closing) /\ n \in Nat
         /\ T.at[k] \in Facts /\ T.at[k + 1] \in Facts /\ T.at[k].kind = "live" /\ Step(T.at[k], ins, T.at[k + 1])
         /\ Tells(lv, Placed(T.at[k], R, n)) \/ Tells(lv, Placed(Blind(T.at[k]), R, n))
         /\ ins.op \notin {"loop", "infix"} => Tells(lv, Placed(T.at[k], R, n))
BY DEF Going, Facing, Shape, Known, TypeOK

\* e is nothing the properties except at that level.
Ordinary(lv, e) == e \notin KnownSilent /\ (e = "second (" => ~(lv >= 2)) /\ (e \in {"?.(", "sized ("} => lv # 3)
LEMMA NotSilent ==
  ASSUME NEW lv \in 1..3, Clean(lv, events'), ~errs, NEW E, Saw(E)
  PROVE  \A e \in E : Ordinary(lv, e)
<1>1. SUFFICES ASSUME NEW e \in E
               PROVE  Ordinary(lv, e)
  OBVIOUS
<1>2. e \in events'
  BY <1>1 DEF Saw
<1>3. e \notin Silent(lv)
  BY <1>2 DEF Clean
<1>4. e \notin KnownSilent
  BY <1>3, Zenon DEF Silent
<1>5. e = "second (" => ~(lv >= 2)
  BY <1>3, Zenon DEF Silent
<1>6. e \in {"?.(", "sized ("} => lv # 3
  BY <1>3, Zenon DEF Silent
<1> QED
  BY <1>4, <1>5, <1>6, Zenon DEF Ordinary

LEMMA TakingBlindly ==
  ASSUME NEW lv, NEW i, NEW T, NEW k, NEW R, NEW n, Going(lv, i, T, k, R, n), todo' = rest,
         NEW E, Took(E), lv >= 2 => Plain(Peek), Leads(Blind(T.at[k]), T.at[k + 1])
  PROVE  Good(lv)'
<1>1. /\ Shape /\ TypeOK /\ pos' \in Nat /\ lv \in 1..3 /\ Facing(lv, i, T, k, R, n) /\ ~errs
  BY GoingIs
<1>2. pos <= pos'
  BY <1>1, ConsumedIs DEF Took
<1>3. lv >= 2 => nest' = nest
  BY <1>1 DEF Took, Plain, Nested
<1> QED
  BY <1>1, <1>2, <1>3, PassBlind

LEMMA BlankBeyond == ASSUME NEW f PROVE Beyond(f, << >>)
BY DEF Beyond

LEMMA Taking ==
  ASSUME NEW lv, NEW i, NEW T, NEW k, NEW R, NEW n, Going(lv, i, T, k, R, n), todo' = rest, ins.op \notin {"loop", "infix"},
         NEW E, Took(E), Seen(1), NEW S, Peek \in S, NEW look, Beyond(T.at[k], look), Takes(T.at[k], S, look, T.at[k + 1])
  PROVE  Good(lv)'
<1>1. /\ Shape /\ ~errs /\ lv \in 1..3 /\ Facing(lv, i, T, k, R, n) /\ T.at[k] \in Facts /\ T.at[k].kind = "live"
      /\ Tells(lv, Placed(T.at[k], R, n))
  BY GoingIs
<1> QED
  BY <1>1, PassTaken

LEMMA StepExpect ==
  ASSUME NEW lv, NEW i, NEW T, NEW k, NEW R, NEW n, Going(lv, i, T, k, R, n), Expect \/ ExpectQuietly \/ CloseOrReport
  PROVE  Good(lv)'
<1>1. ins.op \in {"expect", "quiet", "close"} /\ Seen(1)
  BY DEF Expect, ExpectQuietly, CloseOrReport, Now, Looks
<1>2. Step(T.at[k], ins, T.at[k + 1]) /\ ~errs /\ ~errs' /\ lv \in 1..3 /\ Clean(lv, events')
  BY GoingIs
<1>3. Takes(T.at[k], ins.toks, << >>, T.at[k + 1]) /\ (ins.op = "quiet" => ins.place \in KnownSilent)
  BY <1>1, <1>2 DEF Step
<1>4. ~Saw({ins.place}) \/ ins.op # "quiet"
  <2>1. \A e \in {ins.place} : Saw({ins.place}) => e \notin KnownSilent
    BY <1>2, NotSilent, Zenon DEF Ordinary
  <2> QED
    BY <1>3, <2>1
<1>5. Peek \in ins.toks /\ Took({}) /\ todo' = rest
  <2>1. CASE Expect
    BY <1>2, <2>1 DEF Expect, Reported
  <2>2. CASE ExpectQuietly
    BY <1>4, <2>2 DEF ExpectQuietly, Now
  <2>3. CASE CloseOrReport
    BY <1>2, <2>3 DEF CloseOrReport, Reported
  <2> QED
    BY <2>1, <2>2, <2>3
<1>6. Beyond(T.at[k], << >>) /\ ins.op \notin {"loop", "infix"}
  BY <1>1, BlankBeyond
<1> QED
  BY <1>1, <1>3, <1>5, <1>6, Taking

LEMMA StepEat ==
  ASSUME NEW lv, NEW i, NEW T, NEW k, NEW R, NEW n, Going(lv, i, T, k, R, n), EatIf
  PROVE  Good(lv)'
<1>1. ins.op = "eat" /\ Seen(1) /\ todo' = rest
      /\ \/ Peek \in ins.toks /\ Took({})
         \/ Peek \notin ins.toks /\ Saw({ins.place} \ {""}) /\ UNCHANGED <<cursor, nest>>
  BY DEF EatIf, Now, Looks
<1>2. /\ Shape /\ Facing(lv, i, T, k, R, n) /\ Step(T.at[k], ins, T.at[k + 1]) /\ ~errs /\ lv \in 1..3 /\ Clean(lv, events')
      /\ pos \in Nat /\ pos' \in Nat
  BY GoingIs
<1>3. CASE ins.place = ""
  <2>1. Leads(Blind(T.at[k]), T.at[k + 1]) /\ \A t \in ins.toks : Plain(t)
    BY <1>1, <1>2, <1>3 DEF Step
  <2>2. CASE Peek \in ins.toks /\ Took({})
    BY <1>1, <2>1, <2>2, TakingBlindly
  <2>3. CASE UNCHANGED <<cursor, nest>>
    <3>1. pos' = pos /\ nest' = nest
      BY <2>3 DEF cursor
    <3>2. pos <= pos'
      BY <1>2, <3>1
    <3> QED
      BY <1>1, <1>2, <2>1, <3>1, <3>2, PassBlind
  <2> QED
    BY <1>1, <2>2, <2>3
<1>4. CASE ins.place # ""
  <2>1. ins.place \in KnownSilent /\ Takes(T.at[k], ins.toks, << >>, T.at[k + 1])
    BY <1>1, <1>2, <1>4 DEF Step
  <2>2. ins.place \in {ins.place} \ {""}
    BY <1>4
  <2>3. ~Saw({ins.place} \ {""})
    <3>1. \A e \in {ins.place} \ {""} : Saw({ins.place} \ {""}) => e \notin KnownSilent
      BY <1>2, NotSilent, Zenon DEF Ordinary
    <3> QED
      BY <2>1, <2>2, <3>1
  <2>4. Beyond(T.at[k], << >>) /\ ins.op \notin {"loop", "infix"}
    BY <1>1, BlankBeyond
  <2> QED
    BY <1>1, <2>1, <2>3, <2>4, Taking
<1> QED
  BY <1>3, <1>4

LEMMA Foreseen ==
  ASSUME NEW lv, NEW i, NEW T, NEW k, NEW R, NEW n, Going(lv, i, T, k, R, n), ins.op \notin {"loop", "infix"},
         T.at[k].look # << >>
  PROVE  Peek \in T.at[k].look[1]
<1>1. T.at[k] \in Facts /\ T.at[k].kind = "live" /\ R \in Seq(Closing) /\ n \in Nat /\ Tells(lv, Placed(T.at[k], R, n))
  BY GoingIs
<1>2. T.at[k].look \in Looking
  <2>1. Placed(T.at[k], R, n).kind = "live" /\ Placed(T.at[k], R, n).look = T.at[k].look
    BY <1>1, PlacedFact
  <2> QED
    BY <1>1, <2>1 DEF Tells, TellsOf
<1>3. 1 \in 1..Len(T.at[k].look)
  BY <1>2, TailIs, LenProperties DEF Looking
<1> QED
  BY <1>2, <1>3 DEF Looking, Peek

LEMMA StepAdvance ==
  ASSUME NEW lv, NEW i, NEW T, NEW k, NEW R, NEW n, Going(lv, i, T, k, R, n), Advance
  PROVE  Good(lv)'
<1>1. ins.op = "advance" /\ Seen(1) /\ todo' = rest /\ Took({})
  BY DEF Advance, Now, Looks
<1>2. Step(T.at[k], ins, T.at[k + 1]) /\ T.at[k] \in Facts /\ T.at[k].kind = "live" /\ R \in Seq(Closing) /\ n \in Nat
      /\ Tells(lv, Placed(T.at[k], R, n))
  BY <1>1, GoingIs
<1>3. T.at[k].look # << >> /\ Takes(T.at[k], T.at[k].look[1], Tail(T.at[k].look), T.at[k + 1])
  BY <1>1, <1>2 DEF Step
<1>5. Peek \in T.at[k].look[1]
  BY <1>1, <1>3, Foreseen
<1>6. Beyond(T.at[k], Tail(T.at[k].look)) /\ ins.op \notin {"loop", "infix"}
  BY <1>1, <1>3 DEF Beyond
<1> QED
  BY <1>1, <1>3, <1>5, <1>6, Taking

LEMMA StepVal ==
  ASSUME NEW lv, NEW i, NEW T, NEW k, NEW R, NEW n, Going(lv, i, T, k, R, n), SetVal \/ NoteTier \/ ItemMade
  PROVE  Good(lv)'
<1>1. ins.op \in {"val", "note", "made"} /\ todo' = rest /\ UNCHANGED <<drawn, base, pos, nest>>
  BY DEF SetVal, NoteTier, ItemMade, Now, Ignored, cursor, account
<1>2. Step(T.at[k], ins, T.at[k + 1]) /\ Shape /\ Facing(lv, i, T, k, R, n) /\ lv \in 1..3
  BY GoingIs
<1>3. Leads(T.at[k], T.at[k + 1])
  BY <1>1, <1>2 DEF Step
<1> QED
  BY <1>1, <1>2, <1>3, PassOn

\* What ends a speculation by giving up goes back to where it began.
LEMMA GivesBack ==
  ASSUME NEW lv, NEW i, NEW T, NEW k, NEW R, NEW n, Going(lv, i, T, k, R, n), T.at[k].sp, todo' = GaveUp(rest)
  PROVE  Good(lv)'
<1>1. /\ Chain(lv, rest, i) /\ todo \in Seq(Elems) /\ todo # << >>
      /\ Allowed(lv, rest, i, Len(rest) + 1, T.at[k], R, n)
  <2>1. Facing(lv, i, T, k, R, n) /\ TypeOK
    BY GoingIs
  <2> QED
    BY <2>1 DEF Facing, TypeOK, Since
<1>2. /\ rest \in Seq(Elems) /\ Len(rest) = Len(todo) - 1 /\ Len(todo) \in Nat /\ rest = Sfx(todo, 1)
      /\ \A e \in 1..Len(rest) : rest[e] = todo[e + 1]
  BY <1>1, TailIs, LenProperties DEF rest
<1>3. PICK L \in Nat : L = Len(rest)
  BY <1>2, LenProperties
<1>4. PICK j \in 1..L : /\ Elem(rest, j).op = "mark"
                        /\ \A e \in (j + 1)..L : Elem(rest, e).op \notin {"caught", "mark"}
  <2>1. \E j \in 1..((L + 1) - 1) : Nearest(rest, L + 1, {"caught", "mark"}, j) /\ Elem(rest, j).op = "mark"
    BY <1>1, <1>3 DEF Allowed
  <2>2. L + 1 - 1 = L
    BY <1>3
  <2> QED
    BY <2>1, <2>2 DEF Nearest
<1>5. PICK m \in 1..L : m = L + 1 - j
  <2>1. L + 1 - j \in 1..L
    BY <1>3, <1>4
  <2> QED
    BY <2>1
<1>6. rest[m].op = "mark" /\ \A e \in 1..(m - 1) : rest[e].op \notin {"caught", "mark"}
  <2>1. rest[m].op = "mark"
    BY <1>3, <1>4, <1>5 DEF Elem
  <2>2. ASSUME NEW e \in 1..(m - 1) PROVE rest[e].op \notin {"caught", "mark"}
    <3>1. PICK d \in (j + 1)..L : d = L + 1 - e
      BY <1>3, <1>5
    <3>2. Elem(rest, d) = rest[e]
      BY <1>3, <3>1 DEF Elem
    <3> QED
      BY <1>4, <3>1, <3>2
  <2> QED
    BY <2>1, <2>2
<1>7. Handled(todo, 1)
  <2>1. m + 1 \in (1 + 1)..Len(todo)
    BY <1>2, <1>3, <1>5
  <2>2. todo[m + 1] = rest[m]
    BY <1>2, <1>3, <1>5
  <2>3. todo[m + 1].op = "mark"
    BY <1>6, <2>2, Zenon
  <2> QED
    BY <2>1, <2>3 DEF Handled
<1>8. PICK q \in 2..Len(todo) :
          /\ todo[q].op \in {"caught", "mark"} /\ \A e \in 2..(q - 1) : todo[e].op \notin {"caught", "mark"}
          /\ GaveUp(Tail(todo)) =
                (IF todo[q].op = "caught" THEN todo[q].then ELSE <<[todo[q] EXCEPT !.op = "undo"]>>) \o Sfx(todo, q)
  BY <1>1, <1>7, GaveUpIs
<1>9. q = m + 1
  <2>1. ~(q < m + 1)
    <3>1. SUFFICES ASSUME q < m + 1 PROVE FALSE
      OBVIOUS
    <3>2. q - 1 \in 1..(m - 1) /\ q - 1 \in 1..Len(rest) /\ q - 1 + 1 = q
      BY <1>2, <1>3, <1>5, <3>1
    <3> QED
      BY <1>2, <1>6, <1>8, <3>2
  <2>2. ~(q > m + 1)
    <3>1. SUFFICES ASSUME q > m + 1 PROVE FALSE
      OBVIOUS
    <3>2. m + 1 \in 2..(q - 1) /\ m \in 1..Len(rest)
      BY <1>3, <1>5, <3>1
    <3> QED
      BY <1>2, <1>6, <1>8, <3>2
  <2> QED
    BY <1>5, <2>1, <2>2
<1>10. todo[q] = rest[m] /\ rest[m].op = "mark" /\ Sfx(todo, q) = Sfx(rest, m)
  <2>1. todo[q] = rest[m]
    BY <1>2, <1>3, <1>9
  <2>2. 1 \in 0..Len(todo) /\ m \in 0..(Len(todo) - 1) /\ 1 + m = q
    BY <1>2, <1>3, <1>5, <1>9
  <2>3. Sfx(todo, q) = Sfx(rest, m)
    BY <1>1, <1>2, <2>2, SfxSfx
  <2> QED
    BY <1>6, <2>1, <2>3
<1>11. todo' = <<[rest[m] EXCEPT !.op = "undo"]>> \o Sfx(rest, m)
  BY <1>8, <1>10 DEF rest
<1>12. m \in 1..Len(rest)
  BY <1>3, <1>5
<1> QED
  BY <1>1, <1>2, <1>10, <1>11, <1>12, Reverting

LEMMA StepFail ==
  ASSUME NEW lv, NEW i, NEW T, NEW k, NEW R, NEW n, Going(lv, i, T, k, R, n), GiveUp
  PROVE  Good(lv)'
<1>1. ins.op = "fail" /\ todo' = GaveUp(rest)
  BY DEF GiveUp, Now
<1>2. T.at[k].sp
  BY <1>1, GoingIs DEF Step
<1> QED
  BY <1>1, <1>2, GivesBack

LEMMA StepReport ==
  ASSUME NEW lv, NEW i, NEW T, NEW k, NEW R, NEW n, Going(lv, i, T, k, R, n), Report \/ SkipToSync
  PROVE  Good(lv)'
<1>1. ~errs' /\ ins.op # "skip"
  BY GoingIs DEF Step
<1> QED
  BY <1>1 DEF Report, Reported, SkipToSync, Now

LEMMA StepNoted ==
  ASSUME NEW lv, NEW i, NEW T, NEW k, NEW R, NEW n, Going(lv, i, T, k, R, n), EatNoted
  PROVE  Good(lv)'
<1>1. ins.op = "noted" /\ Seen(1) /\ todo' = rest
      /\ (Peek \in ins.toks => Took({ins.place})) /\ (Peek \notin ins.toks => UNCHANGED <<pos, nest>>)
  BY DEF EatNoted, Now, Looks, Ignored, cursor, account
<1>2. /\ Shape /\ Facing(lv, i, T, k, R, n) /\ Step(T.at[k], ins, T.at[k + 1]) /\ ~errs /\ lv \in 1..3 /\ Clean(lv, events')
      /\ pos \in Nat /\ pos' \in Nat /\ T.at[k] \in Facts /\ T.at[k].kind = "live" /\ R \in Seq(Closing) /\ n \in Nat
      /\ Tells(lv, Placed(T.at[k], R, n))
  BY <1>1, GoingIs
<1>3. Took({ins.place}) => Ordinary(lv, ins.place)
  <2>1. Took({ins.place}) => Saw({ins.place})
    BY DEF Took
  <2> QED
    BY <1>2, <2>1, NotSilent
<1>4. CASE ins.place = "second ("
  <2>1. Leads(Blind(T.at[k]), T.at[k + 1])
    BY <1>1, <1>2, <1>4, Zenon DEF Step
  <2>2. Took({ins.place}) => ~(lv >= 2)
    BY <1>3, <1>4, Zenon DEF Ordinary
  <2>3. CASE Peek \in ins.toks
    <3>1. Took({ins.place})
      BY <1>1, <2>3
    <3> HIDE <1>4
    <3> QED
      BY <1>1, <2>1, <2>2, <3>1, TakingBlindly
  <2>4. CASE Peek \notin ins.toks
    <3>1. pos' = pos /\ nest' = nest
      BY <1>1, <2>4
    <3>2. pos <= pos'
      BY <1>2, <3>1
    <3> QED
      BY <1>1, <1>2, <2>1, <3>1, <3>2, PassBlind
  <2> QED
    BY <2>3, <2>4
<1>5. CASE ins.place # "second ("
  <2> DEFINE f == [T.at[k] EXCEPT !.mode = "loose"]
  <2>1. T.at[k].look # << >> /\ T.at[k].look[1] \subseteq ins.toks /\ ins.place \in {"?.(", "sized ("}
        /\ Takes(f, ins.toks, << >>, T.at[k + 1])
    BY <1>1, <1>2, <1>5, Zenon DEF Step
  <2>2. Peek \in ins.toks
    <3>1. ins.op \notin {"loop", "infix"}
      BY <1>1
    <3>2. Peek \in T.at[k].look[1]
      BY <2>1, <3>1, Foreseen
    <3> QED
      BY <2>1, <3>2
  <2>3. lv # 3 /\ Took({ins.place})
    BY <1>1, <1>3, <2>1, <2>2, Zenon DEF Ordinary
  <2>4. f \in Facts /\ f.kind = "live" /\ f.nest = T.at[k].nest /\ f.low = T.at[k].low /\ f.look = T.at[k].look
    BY <1>2 DEF Facts
  <2>5. Takes(f, ins.toks, << >>, T.at[k + 1])
    BY <2>1
  <2> HIDE DEF f
  <2>6. Tells(lv, Placed(f, R, n))
    <3>0. R \in Seq(Closing) /\ n \in Nat /\ T.at[k] \in Facts
      BY <1>2
    <3>1. /\ Placed(f, R, n).kind = "live" /\ Placed(f, R, n).nest = f.nest \o R /\ Placed(f, R, n).low = f.low + n
          /\ Placed(f, R, n).look = f.look
      BY <3>0, <2>4 DEF Placed
    <3>2. PICK g \in Facts : g = T.at[k]
      BY <3>0
    <3>3. /\ Placed(g, R, n).kind = g.kind /\ Placed(g, R, n).nest = g.nest \o R
          /\ Placed(g, R, n).low = g.low + n /\ Placed(g, R, n).look = g.look
      BY <3>0, <3>2 DEF Placed
    <3>4. g.kind = "live" /\ f.nest = g.nest /\ f.low = g.low /\ f.look = g.look /\ Tells(lv, Placed(g, R, n))
      BY <1>2, <2>4, <3>2
    <3> QED
      BY <2>3, <3>1, <3>3, <3>4 DEF Tells, TellsOf
  <2>7. Beyond(f, << >>)
    BY BlankBeyond
  <2> QED
    BY <1>1, <1>2, <2>2, <2>3, <2>4, <2>5, <2>6, <2>7, PassTaken
<1> QED
  BY <1>4, <1>5

LEMMA StepClose ==
  ASSUME NEW lv, NEW i, NEW T, NEW k, NEW R, NEW n, Going(lv, i, T, k, R, n), GenericClose
  PROVE  Good(lv)'
<1>1. /\ Shape /\ TypeOK /\ Facing(lv, i, T, k, R, n) /\ Step(T.at[k], ins, T.at[k + 1]) /\ ~errs /\ ~errs' /\ lv \in 1..3
      /\ Clean(lv, events') /\ pos \in Nat /\ pos' \in Nat
  BY GoingIs
<1>2. ins.op = "gclose" /\ Leads(Blind(T.at[k]), T.at[k + 1]) /\ (ins.how = "fail" => T.at[k].sp)
  BY <1>1 DEF GenericClose, Now, Step
<1>3. CASE Peek = ">" /\ Took({}) /\ todo' = rest
  <2>1. Plain(Peek)
    BY <1>3 DEF Plain, Opening, Closing
  <2> QED
    BY <1>2, <1>3, <2>1, TakingBlindly
<1>4. CASE todo' = rest /\ Consumed /\ UNCHANGED account
  <2>1. pos <= pos' /\ nest' = nest
    BY <1>1, <1>4, ConsumedIs DEF account
  <2> QED
    BY <1>1, <1>2, <1>4, <2>1, PassBlind
<1>5. CASE todo' = rest /\ UNCHANGED <<pos, account>>
  <2>1. pos' = pos /\ nest' = nest
    BY <1>5 DEF account
  <2>2. pos <= pos'
    BY <1>1, <2>1
  <2> QED
    BY <1>1, <1>2, <1>5, <2>1, <2>2, PassBlind
<1>6. CASE ins.how = "fail" /\ todo' = GaveUp(rest)
  BY <1>2, <1>6, GivesBack
<1>7. ~Saw({"pool type"})
  <2>1. \A e \in {"pool type"} : Saw({"pool type"}) => e \notin KnownSilent
    BY <1>1, NotSilent, Zenon DEF Ordinary
  <2> QED
    BY <2>1 DEF KnownSilent
<1>8. ~Reported
  BY <1>1 DEF Reported
<1>9. ins.how \in {"emit", "expect", "hope", "fail"}
  <2>1. ins \in Instructions
    BY <1>1, TopIs DEF GenericClose, Kinds
  <2> QED
    BY <1>2, <2>1, Climbing DEF GClose
<1>10. CASE Peek = ">>" /\ GenericClose
  <2>1. (todo' = rest /\ Consumed /\ UNCHANGED account) \/ (todo' = rest /\ UNCHANGED <<pos, account>>)
    BY <1>10 DEF GenericClose
  <2> QED
    BY <1>4, <1>5, <2>1
<1>11. CASE Peek \notin {">", ">>"} /\ GenericClose
  <2>1. CASE ins.how = "fail"
    BY <1>6, <1>11, <2>1 DEF GenericClose
  <2>2. CASE ins.how # "fail"
    BY <1>7, <1>8, <1>9, <1>11, <2>2 DEF GenericClose
  <2> QED
    BY <2>1, <2>2
<1>12. CASE Peek = ">" /\ GenericClose
  BY <1>3, <1>12 DEF GenericClose
<1> QED
  BY <1>10, <1>11, <1>12

\* What is known where x puts something on the stack.
Alike(e, f, l) ==
  /\ e.kind = f.kind /\ e.nest = f.nest /\ e.low = f.low /\ e.look = l /\ e.mode = f.mode
  /\ e.sp = f.sp /\ e.room = f.room /\ (e.out = {} \/ e.out = f.out)
LEMMA StaysIs ==
  ASSUME NEW f \in Facts, NEW l, NEW s, NEW e, e = Stays(s, [f EXCEPT !.look = l])
  PROVE  Alike(e, f, l)
BY DEF Facts, Stays, Alike
LEMMA StaysSame ==
  ASSUME NEW f \in Facts, NEW s, NEW e, e = Stays(s, f)
  PROVE  Alike(e, f, f.look)
BY DEF Facts, Stays, Alike

LEMMA TellsAs ==
  ASSUME pos' = pos, nest' = nest, \A l \in Looking : (l \in Looking)', NEW lv, NEW e \in Facts, NEW f \in Facts,
         NEW R \in Seq(Closing), NEW n \in Nat, Tells(lv, Placed(f, R, n)), f.kind = "live",
         e.kind = "live", e.nest = f.nest, e.low = f.low, e.mode = "loose" => f.mode = "loose", e.look \in Looking
  PROVE  Tells(lv, Placed(e, R, n))'
<1>1. /\ Placed(f, R, n).kind = "live" /\ Placed(f, R, n).nest = f.nest \o R /\ Placed(f, R, n).low = f.low + n
      /\ Placed(f, R, n).mode = f.mode
  BY PlacedFact
<1>2. PICK p : p = Placed(e, R, n)
  OBVIOUS
<1>3. p.kind = "live" /\ p.nest = f.nest \o R /\ p.low = f.low + n /\ p.look = e.look /\ p.mode = e.mode
  <2>1. p.kind = e.kind /\ p.nest = e.nest \o R /\ p.low = e.low + n /\ p.look = e.look /\ p.mode = e.mode
    BY <1>2 DEF Placed
  <2> QED
    BY <2>1
<1>4. f.low + n <= pos' /\ (lv >= 2 => f.nest \o R = nest') /\ (lv = 3 => f.mode # "loose")
  BY <1>1 DEF Tells, TellsOf
<1>5. Tells(lv, p)'
  BY <1>3, <1>4, TellsNext
<1> QED
  BY <1>2, <1>5

\* x puts on t what leads from f to g.
LEMMA Entering ==
  ASSUME NEW lv, NEW t \in Seq(Elems), NEW h, Chain(lv, t, h), NEW f \in Facts, NEW x, NEW g \in Facts, Runs(f, x, g),
         x.op \notin {"call", "bp", "advancing"}, NEW b \in Enters(x, f), NEW R \in Seq(Closing), NEW n \in Nat,
         Leads(Placed(g, R, n), h[Len(t)]), todo' = b[1] \o t, pos' \in Nat,
         b[2] \in Facts => Allowed(lv, t, h, Len(t) + 1, b[2], R, n) /\ Tells(lv, Placed(b[2], R, n))'
  PROVE  Good(lv)'
<1>1. PICK U \in Typed : U.seq = b[1] /\ U.at[1] = b[2] /\ Leads(Returned(x, f, Final(U.at)), g)
  BY DEF Runs
<1>2. /\ Len(U.seq) \in Nat /\ Final(U.at) = U.at[Len(U.seq) + 1]
      /\ \A k \in 1..(Len(U.seq) + 1) : U.at[k] \in Facts
  BY TypedIs
<1>3. U.at[1] \in Facts /\ Final(U.at) \in Facts
  BY <1>2
<1>4. Leads(Final(U.at), g)
  BY <1>1 DEF Returned
<1>5. Leads(Placed(Final(U.at), R, n), h[Len(t)])
  <2>1. Leads(Placed(Final(U.at), R, n), Placed(g, R, n))
    BY <1>3, <1>4, PlacedFact, LeadsPlaced
  <2>2. Placed(Final(U.at), R, n) \in Points /\ Placed(g, R, n) \in Points /\ h[Len(t)] \in Points
    BY <1>3, PlacedPoint DEF Chain
  <2>3. Placed(Final(U.at), R, n).low \in Nat /\ Placed(g, R, n).low \in Nat /\ h[Len(t)].low \in Nat
    BY <2>2 DEF Points
  <2> QED
    BY <2>1, <2>3, LeadsTrans
<1>6. Allowed(lv, t, h, Len(t) + 1, U.at[1], R, n) /\ Tells(lv, Placed(U.at[1], R, n))'
  BY <1>1, <1>3
<1>7. todo' = U.seq \o t
  BY <1>1
<1> QED
  BY <1>5, <1>6, <1>7, Continues

\* What a choice may go on with.
LEMMA BeginsIs ==
  ASSUME NEW x, NEW f
  PROVE  /\ x.op = "if" => <<x.then, [f EXCEPT !.look = x.look]>> \in Begins(x, f) /\ <<x.else, f>> \in Begins(x, f)
         /\ x.op = "switch" =>
              /\ <<x.otherwise, f>> \in Begins(x, f)
              /\ \A i \in DOMAIN x.arms :
                    <<x.arms[i][2], [f EXCEPT !.look = <<x.arms[i][1]>>]>> \in Begins(x, f)
         /\ x.op = "ifval" => <<x.then, f>> \in Begins(x, f) /\ <<x.else, f>> \in Begins(x, f)
<1>1. ASSUME x.op = "if"
      PROVE  <<x.then, [f EXCEPT !.look = x.look]>> \in Begins(x, f) /\ <<x.else, f>> \in Begins(x, f)
  BY <1>1 DEF Begins
<1>2. ASSUME x.op = "switch"
      PROVE  /\ <<x.otherwise, f>> \in Begins(x, f)
             /\ \A i \in DOMAIN x.arms :
                   <<x.arms[i][2], [f EXCEPT !.look = <<x.arms[i][1]>>]>> \in Begins(x, f)
  <2>1. Begins(x, f) = {<<x.arms[i][2], [f EXCEPT !.look = <<x.arms[i][1]>>]>> : i \in DOMAIN x.arms}
                         \cup {<<x.otherwise, f>>}
    BY <1>2 DEF Begins
  <2> QED
    BY <2>1, Zenon
<1>3. ASSUME x.op = "ifval" PROVE <<x.then, f>> \in Begins(x, f) /\ <<x.else, f>> \in Begins(x, f)
  BY <1>3 DEF Begins
<1> QED
  BY <1>1, <1>2, <1>3, Zenon

LEMMA StepIf ==
  ASSUME NEW lv, NEW i, NEW T, NEW k, NEW R, NEW n, Going(lv, i, T, k, R, n), LookAhead \/ MatchToken \/ AskVal
  PROVE  Good(lv)'
<1> DEFINE f == T.at[k]
<1>1. /\ ins.op \in {"if", "switch", "ifval"} /\ UNCHANGED <<drawn, base, pos, nest>>
  BY Zenon DEF LookAhead, MatchToken, AskVal, Now, Ignored, cursor, account
<1>2. /\ TypeOK /\ Facing(lv, i, T, k, R, n) /\ Step(f, ins, T.at[k + 1]) /\ pos' \in Nat /\ f \in Facts /\ f.kind = "live"
      /\ T.at[k + 1] \in Facts /\ R \in Seq(Closing) /\ n \in Nat /\ Tells(lv, Placed(f, R, n)) /\ ins \in Instructions
  <2>1. TypeOK
    BY GoingIs, Zenon
  <2>2. PICK op \in {"if", "switch", "ifval"} : Now(op)
    BY Zenon DEF LookAhead, MatchToken, AskVal
  <2>3. op \in Kinds \ {"scan"}
    BY DEF Kinds
  <2>4. ins \in Instructions
    BY <2>1, <2>2, <2>3, TopIs
  <2> QED
    BY <1>1, <2>1, <2>4, GoingIs
<1>3. Runs(f, ins, T.at[k + 1]) /\ ins.op \notin {"call", "bp", "advancing"}
  BY <1>1, <1>2 DEF Step
<1>4. /\ Chain(lv, rest, i) /\ rest \in Seq(Elems) /\ Leads(Placed(T.at[k + 1], R, n), i[Len(rest)])
      /\ Allowed(lv, rest, i, Len(rest) + 1, f, R, n)
  <2>1. todo \in Seq(Elems) /\ todo # << >>
    BY <1>2 DEF TypeOK, Since, Facing
  <2> QED
    BY <1>2, <2>1, TailIs DEF Facing, rest
<1>5. f.look \in Looking
  <2>1. Placed(f, R, n).kind = "live" /\ Placed(f, R, n).look = f.look
    BY <1>2, PlacedFact
  <2> QED
    BY <1>2, <2>1 DEF Tells, TellsOf
<1>6. \A l \in Looking : (l \in Looking)'
  BY <1>1, LookingKept
<1> HIDE DEF f
<1>7. ASSUME NEW s, NEW c, <<s, c>> \in Begins(ins, f), todo' = s \o rest,
             c = f \/ \E l : c = [f EXCEPT !.look = l] /\ \A e \in 1..Len(l) : Seen(e) /\ At(e) \in l[e]
      PROVE  Good(lv)'
  <2>1. PICK e : e = Stays(s, c)
    OBVIOUS
  <2>2. /\ e.kind = "live" /\ e.nest = f.nest /\ e.low = f.low /\ e.mode = f.mode
        /\ e.sp = f.sp /\ e.room = f.room /\ (e.out = {} \/ e.out = f.out)
        /\ e.look = f.look \/ \A d \in 1..Len(e.look) : Seen(d) /\ At(d) \in e.look[d]
    <3>1. CASE c = f
      <4>1. e = Stays(s, f)
        BY <2>1, <3>1
      <4>2. Alike(e, f, f.look)
        BY <1>2, <4>1, StaysSame
      <4> QED
        BY <1>2, <4>2 DEF Alike
    <3>2. CASE c # f
      <4>1. PICK l : c = [f EXCEPT !.look = l] /\ \A d \in 1..Len(l) : Seen(d) /\ At(d) \in l[d]
        BY <1>7, <3>2
      <4>2. e = Stays(s, [f EXCEPT !.look = l])
        BY <2>1, <4>1
      <4>3. Alike(e, f, l)
        BY <1>2, <4>2, StaysIs
      <4> QED
        BY <1>2, <4>1, <4>3 DEF Alike
    <3> QED
      BY <3>1, <3>2
  <2>3. PICK b : b = <<s, e>>
    OBVIOUS
  <2>4. b \in Enters(ins, f)
    BY <1>7, <2>1, <2>3 DEF Enters
  <2>5. b[1] = s /\ b[2] = e
    BY <2>3
  <2>6. ASSUME e \in Facts
        PROVE  Allowed(lv, rest, i, Len(rest) + 1, e, R, n) /\ Tells(lv, Placed(e, R, n))'
    <3>1. Allowed(lv, rest, i, Len(rest) + 1, e, R, n)
      <4>1. Covers(e, f)
        BY <2>2 DEF Covers
      <4> QED
        BY <1>4, <4>1, AllowedCovers
    <3>2. e.look \in Looking
      <4>1. e.look \in Seq(SUBSET STRING)
        BY <2>6 DEF Facts
      <4> QED
        BY <1>5, <2>2, <4>1 DEF Looking
    <3>3. Tells(lv, Placed(e, R, n))'
      <4>1. pos' = pos /\ nest' = nest
        BY <1>1
      <4> QED
        BY <1>2, <1>6, <2>2, <2>6, <3>2, <4>1, TellsAs
    <3> QED
      BY <3>1, <3>3
  <2> QED
    BY <1>2, <1>3, <1>4, <1>7, <2>4, <2>5, <2>6, Entering
<1>8. CASE LookAhead
  <2>1. ins.op = "if" /\ Seen(Looks)
        /\ todo' = (IF \A e \in DOMAIN ins.look : At(e) \in ins.look[e] THEN ins.then ELSE ins.else) \o rest
    BY <1>8 DEF LookAhead, Now
  <2>2. CASE \A e \in DOMAIN ins.look : At(e) \in ins.look[e]
    <3>1. <<ins.then, [f EXCEPT !.look = ins.look]>> \in Begins(ins, f)
      BY <2>1, BeginsIs, Zenon
    <3>2. todo' = ins.then \o rest
      BY <2>1, <2>2
    <3>3. \A e \in 1..Len(ins.look) : Seen(e) /\ At(e) \in ins.look[e]
      <4>1. ins.look \in Seq(SUBSET STRING)
        <5>1. PICK b : b = <<ins.then, Stays(ins.then, [f EXCEPT !.look = ins.look])>>
          OBVIOUS
        <5>2. b \in Enters(ins, f) /\ b[2] = Stays(ins.then, [f EXCEPT !.look = ins.look])
          BY <3>1, <5>1 DEF Enters
        <5>3. b[2] \in Facts
          <6>1. PICK U \in Typed : U.at[1] = b[2]
            BY <1>3, <5>2 DEF Runs
          <6>2. 1 \in 1..(Len(U.seq) + 1)
            BY TypedIs
          <6> QED
            BY <6>1, <6>2, TypedIs
        <5>4. b[2].look = ins.look
          <6>1. PICK e : e = b[2]
            OBVIOUS
          <6>2. Alike(e, f, ins.look)
            BY <1>2, <5>2, <6>1, StaysIs
          <6> QED
            BY <6>1, <6>2 DEF Alike
        <5> QED
          BY <5>3, <5>4 DEF Facts
      <4>2. PICK w \in Nat : w = Len(ins.look)
        BY <4>1, LenProperties
      <4>3. DOMAIN ins.look = 1..w
        BY <4>1, <4>2, LenProperties
      <4>4. Looks = w
        <5>1. ~\E e \in 1..Len(ins.look) : Seen(e) /\ At(e) \notin ins.look[e]
          BY <2>2, <4>2, <4>3
        <5> QED
          BY <2>1, <4>2, <5>1 DEF Looks
      <4>5. Seen(w)
        BY <2>1, <4>4
      <4>6. \A e \in 1..w : Seen(e)
        <5>1. pos \in Nat /\ base \in Nat /\ Len(drawn) \in Nat
          BY <1>2, LenProperties DEF TypeOK
        <5> QED
          BY <4>5, <5>1 DEF Seen
      <4> QED
        BY <2>2, <4>2, <4>3, <4>6
    <3> QED
      BY <1>7, <3>1, <3>2, <3>3
  <2>3. CASE ~\A e \in DOMAIN ins.look : At(e) \in ins.look[e]
    <3>1. <<ins.else, f>> \in Begins(ins, f)
      BY <2>1, BeginsIs, Zenon
    <3>2. todo' = ins.else \o rest
      BY <2>1, <2>3
    <3> QED
      BY <1>7, <3>1, <3>2
  <2> QED
    BY <2>2, <2>3
<1>9. CASE MatchToken
  <2> DEFINE fits == {e \in DOMAIN ins.arms : Peek \in ins.arms[e][1]}
  <2>1. ins.op = "switch" /\ Seen(1)
        /\ todo' = (IF fits = {} THEN ins.otherwise ELSE ins.arms[Min(fits)][2]) \o rest
    BY <1>9, Zenon DEF MatchToken, Now, Looks
  <2>2. CASE fits = {}
    <3>1. <<ins.otherwise, f>> \in Begins(ins, f)
      BY <2>1, BeginsIs, Zenon
    <3>2. todo' = ins.otherwise \o rest
      BY <2>1, <2>2
    <3> QED
      BY <1>7, <3>1, <3>2
  <2>3. CASE fits # {}
    <3>1. PICK m : m = Min(fits)
      OBVIOUS
    <3>2. m \in DOMAIN ins.arms /\ Peek \in ins.arms[m][1]
      <4>1. DOMAIN ins.arms \subseteq Nat
        BY <1>2, <2>1, Closed, Zenon
      <4>2. fits \subseteq Nat
        BY <4>1
      <4>3. Min(fits) \in fits
        BY <2>3, <4>2, LeastIs
      <4> QED
        BY <3>1, <4>3, Zenon
    <3>3. <<ins.arms[m][2], [f EXCEPT !.look = <<ins.arms[m][1]>>]>> \in Begins(ins, f)
      BY <2>1, <3>2, BeginsIs, ZenonT(60)
    <3>4. todo' = ins.arms[m][2] \o rest
      BY <2>1, <2>3, <3>1, Zenon
    <3> HIDE DEF fits
    <3>5. PICK a : a = ins.arms[m][1]
      OBVIOUS
    <3>6. PICK l : l = <<a>>
      OBVIOUS
    <3>7. \A e \in 1..Len(l) : Seen(e) /\ At(e) \in l[e]
      <4>1. Len(l) = 1 /\ l[1] = a /\ At(1) \in a /\ Seen(1)
        BY <2>1, <3>2, <3>5, <3>6 DEF Peek
      <4> QED
        BY <4>1
    <3>8. PICK c : c = [f EXCEPT !.look = l]
      OBVIOUS
    <3>9. PICK s : s = ins.arms[m][2]
      OBVIOUS
    <3>10. <<s, c>> \in Begins(ins, f) /\ todo' = s \o rest
      BY <3>3, <3>4, <3>5, <3>6, <3>8, <3>9, Zenon
    <3> QED
      BY <1>7, <3>7, <3>8, <3>10, Zenon
  <2> QED
    BY <2>2, <2>3, ZenonT(60)
<1>10. CASE AskVal
  <2>1. ins.op = "ifval" /\ (todo' = ins.then \o rest \/ todo' = ins.else \o rest)
    BY <1>10 DEF AskVal, Now
  <2>2. <<ins.then, f>> \in Begins(ins, f) /\ <<ins.else, f>> \in Begins(ins, f)
    BY <2>1, BeginsIs, Zenon
  <2> QED
    BY <1>7, <2>1, <2>2, Zenon
<1> QED
  BY <1>8, <1>9, <1>10, Zenon

\* What a called function may rely on: a head has room for what is open in it where the call stands.
LEMMA RoomInside ==
  ASSUME NEW m \in Seq(Closing), NEW R \in Seq(Closing), NEW r \in Nat, NEW o \in Nat, NEW c,
         Len(m) <= r \/ m[1] = c, r + Len(R) <= o \/ (r = 0 /\ R # << >> /\ R[1] = c)
  PROVE  Len(m \o R) <= o \/ (m \o R # << >> /\ (m \o R)[1] = c)
<1>1. /\ m \o R \in Seq(Closing) /\ Len(m \o R) = Len(m) + Len(R) /\ Len(m) \in Nat /\ Len(R) \in Nat
      /\ \A q \in 1..Len(m) : (m \o R)[q] = m[q]
  BY CatIs, LenProperties
<1>2. CASE m = << >>
  <2>1. m \o R = R /\ Len(m) = 0
    BY <1>2
  <2> QED
    BY <1>1, <2>1
<1>3. CASE m # << >>
  <2>1. Len(m) >= 1 /\ m \o R # << >>
    BY <1>1, <1>3, EmptySeq
  <2>2. (m \o R)[1] = m[1]
    BY <1>1, <2>1
  <2>3. r # 0 \/ m[1] = c
    BY <1>1, <2>1
  <2> QED
    BY <1>1, <2>1, <2>2, <2>3
<1> QED
  BY <1>2, <1>3

LEMMA AllowedInner ==
  ASSUME NEW lv, NEW t, NEW h, NEW d, NEW f \in Facts, NEW R \in Seq(Closing), NEW n \in Nat,
         Allowed(lv, t, h, d, f, R, n), NEW e, ~e.sp, e.out = {}, e.room = 0, e.mode = (IF Roomy(f) THEN f.mode ELSE "bare"),
         NEW m, \A j \in 1..(d - 1) : Elem(t, j).op = "restore" => Elem(t, j).open \in Nat
  PROVE  Allowed(lv, t, h, d, e, f.nest \o R, m)
<1>1. e.mode = "free" => f.mode = "free"
  OBVIOUS
<1>2. ASSUME lv = 3, e.mode = "tight"
      PROVE  \E j \in 1..(d - 1) : /\ Nearest(t, d, {"restore"}, j)
                                   /\ \/ e.room + Len(f.nest \o R) <= Elem(t, j).open
                                      \/ e.room = 0 /\ f.nest \o R # << >> /\ (f.nest \o R)[1] = "}"
  <2>1. f.mode = "tight" /\ Roomy(f)
    BY <1>2
  <2>2. Len(f.nest) <= f.room \/ f.nest[1] = "}"
    BY <2>1, Zenon DEF Roomy
  <2>3. PICK j \in 1..(d - 1) : Nearest(t, d, {"restore"}, j) /\ \/ f.room + Len(R) <= Elem(t, j).open
                                                                 \/ f.room = 0 /\ R # << >> /\ R[1] = "}"
    BY <1>2, <2>1, Zenon DEF Allowed
  <2>4. f.nest \in Seq(Closing) /\ f.room \in Nat
    BY DEF Facts
  <2>5. Elem(t, j).open \in Nat
    BY <2>3 DEF Nearest
  <2>6. Len(f.nest \o R) <= Elem(t, j).open \/ (f.nest \o R # << >> /\ (f.nest \o R)[1] = "}")
    <3>1. PICK q \in Seq(Closing) : q = f.nest
      BY <2>4
    <3>2. PICK r \in Nat : r = f.room
      BY <2>4
    <3>3. PICK o \in Nat : o = Elem(t, j).open
      BY <2>5
    <3>4. PICK c : c = "}"
      OBVIOUS
    <3>5. Len(q) <= r \/ q[1] = c
      BY <2>2, <3>1, <3>2, <3>4, Zenon
    <3>6. r + Len(R) <= o \/ (r = 0 /\ R # << >> /\ R[1] = c)
      BY <2>3, <3>2, <3>3, <3>4, Zenon
    <3>7. Len(q \o R) <= o \/ (q \o R # << >> /\ (q \o R)[1] = c)
      BY <3>5, <3>6, RoomInside
    <3> QED
      BY <3>1, <3>3, <3>4, <3>7, Zenon
  <2>7. e.room + Len(f.nest \o R) = Len(f.nest \o R)
    BY <2>4, CatIs, LenProperties
  <2> QED
    BY <2>3, <2>6, <2>7, Zenon
<1> QED
  BY <1>1, <1>2, Zenon DEF Allowed

LEMMA FactIs ==
  ASSUME NEW f \in Facts
  PROVE  /\ f.nest \in Seq(Closing) /\ f.low \in Nat /\ f.look \in Seq(SUBSET STRING) /\ f.room \in Nat
         /\ f.kind \in {"live", "dead"}
BY DEF Facts

LEMMA OverIs ==
  ASSUME NEW f \in Facts, NEW R \in Seq(Closing), NEW n \in Nat
  PROVE  f.nest \o R \in Seq(Closing) /\ f.low + n \in Nat
<1>1. f.nest \in Seq(Closing) /\ f.low \in Nat
  BY FactIs
<1>2. f.nest \o R \in Seq(Closing)
  BY <1>1, CatIs
<1> QED
  BY <1>1, <1>2

\* Where a called function begins, the brackets open so far are below its own.
LEMMA InnerTells ==
  ASSUME NEW f \in Facts, NEW a \in Facts, NEW R \in Seq(Closing), NEW n \in Nat, NEW lv, Tells(lv, Placed(f, R, n)),
         f.kind = "live", a.kind = "live", a.nest = << >>, a.low = 0, a.look = f.look, a.mode = "loose" => f.mode = "loose",
         UNCHANGED <<drawn, base, pos, nest>>
  PROVE  Tells(lv, Placed(a, f.nest \o R, f.low + n))'
<1>1. PICK Q \in Seq(Closing) : Q = f.nest \o R
  BY OverIs
<1>2. PICK m \in Nat : m = f.low + n
  BY OverIs
<1>3. /\ Placed(f, R, n).kind = "live" /\ Placed(f, R, n).nest = Q /\ Placed(f, R, n).low = m
      /\ Placed(f, R, n).mode = f.mode /\ Placed(f, R, n).look = f.look
  BY <1>1, <1>2 DEF Placed
<1>4. f.look \in Looking /\ m <= pos /\ (lv >= 2 => Q = nest) /\ (lv = 3 => f.mode # "loose")
  BY <1>3 DEF Tells, TellsOf
<1>5. (f.look \in Looking)' /\ m <= pos' /\ (lv >= 2 => Q = nest')
  BY <1>4, LookingKept
<1>6. PICK p : p = Placed(a, Q, m)
  OBVIOUS
<1>7. p.kind = a.kind /\ p.nest = a.nest \o Q /\ p.low = a.low + m /\ p.look = a.look /\ p.mode = a.mode
  BY <1>6 DEF Placed
<1>8. p.nest = Q
  BY <1>7
<1>9. p.kind = "live" /\ p.low = m /\ p.look = f.look /\ (p.mode = "loose" => f.mode = "loose")
  BY <1>7
<1>10. Tells(lv, p)'
  BY <1>4, <1>5, <1>8, <1>9, TellsNext
<1> QED
  BY <1>1, <1>2, <1>6, <1>10

\* Where it ends, they are what is left of them.
LEMMA CallEnds ==
  ASSUME NEW f \in Facts, NEW e \in Facts, NEW g \in Facts, NEW R \in Seq(Closing), NEW n \in Nat,
         Leads([e EXCEPT !.nest = e.nest \o f.nest, !.low = f.low + e.low, !.look = << >>], g)
  PROVE  Leads(Placed(e, f.nest \o R, f.low + n), Placed(g, R, n))
<1>1. f.nest \o R \in Seq(Closing) /\ f.low + n \in Nat
  BY OverIs
<1>2. (e.nest \o f.nest) \o R = e.nest \o (f.nest \o R)
  <2>1. PICK x \in Seq(Closing) : x = e.nest
    BY FactIs
  <2>2. PICK y \in Seq(Closing) : y = f.nest
    BY FactIs
  <2>3. (x \o y) \o R = x \o (y \o R)
    BY CatClosings, Zenon
  <2> QED
    BY <2>1, <2>2, <2>3
<1>3. g.low <= f.low + e.low => g.low + n <= e.low + (f.low + n)
  <2>1. PICK a \in Nat : a = e.low
    BY FactIs
  <2>2. PICK b \in Nat : b = f.low
    BY FactIs
  <2>3. PICK d \in Nat : d = g.low
    BY FactIs
  <2>4. d <= b + a => d + n <= a + (b + n)
    OBVIOUS
  <2> QED
    BY <2>1, <2>2, <2>3, <2>4
<1>4. PICK p : p = Placed(e, f.nest \o R, f.low + n)
  OBVIOUS
<1>5. /\ p.kind = e.kind /\ p.nest = e.nest \o (f.nest \o R) /\ p.low = e.low + (f.low + n) /\ p.look = e.look
      /\ p.mode = e.mode
  BY <1>1, <1>4 DEF Placed
<1>6. PICK q : q = Placed(g, R, n)
  OBVIOUS
<1>7. q.kind = g.kind /\ q.nest = g.nest \o R /\ q.low = g.low + n /\ q.look = g.look /\ q.mode = g.mode
  BY <1>6 DEF Placed
<1>8. CASE e.kind = "dead"
  BY <1>4, <1>5, <1>8 DEF Leads
<1>9. CASE e.kind # "dead"
  <2>1. PICK w : w = f.low + e.low
    OBVIOUS
  <2>2. PICK m : m = e.nest \o f.nest
    OBVIOUS
  <2>3. PICK c : c = [e EXCEPT !.nest = m, !.low = w, !.look = << >>]
    OBVIOUS
  <2>4. c.kind = e.kind /\ c.nest = m /\ c.low = w /\ c.look = << >> /\ c.mode = e.mode
    BY <2>3 DEF Facts
  <2>5. Leads(c, g)
    BY <2>1, <2>2, <2>3
  <2>6. /\ e.kind = "live" /\ g.kind = "live" /\ m = g.nest /\ g.low <= w
        /\ g.look = << >> /\ (g.mode = "loose" => e.mode = "loose")
    BY <1>9, <2>4, <2>5 DEF Leads
  <2>7. p.nest = q.nest
    BY <1>2, <1>5, <1>7, <2>2, <2>6
  <2>8. q.low <= p.low
    BY <1>3, <1>5, <1>7, <2>1, <2>6
  <2>9. Leads(p, q)
    BY <1>5, <1>7, <2>6, <2>7, <2>8 DEF Leads
  <2> QED
    BY <1>4, <1>6, <2>9
<1> QED
  BY <1>8, <1>9

LEMMA ToRest ==
  ASSUME NEW lv, NEW t \in Seq(Elems), NEW h, Chain(lv, t, h), NEW a \in Points, NEW b \in Points, Leads(a, b),
         Leads(b, h[Len(t)])
  PROVE  Leads(a, h[Len(t)])
<1>1. Len(t) \in 0..Len(t)
  BY LenProperties
<1>2. h[Len(t)] \in Points
  BY <1>1 DEF Chain
<1>3. a.low \in Nat /\ b.low \in Nat /\ h[Len(t)].low \in Nat
  BY <1>2 DEF Points
<1> QED
  BY <1>3, LeadsTrans

LEMMA StepCall ==
  ASSUME NEW lv, NEW i, NEW T, NEW k, NEW R \in Seq(Closing), NEW n \in Nat, Going(lv, i, T, k, R, n),
         CallRule \/ ParseBp
  PROVE  Good(lv)'
<1>0. PICK op \in {"call", "bp"} : Now(op)
  BY DEF CallRule, ParseBp
<1>1. PICK f \in Facts : f = T.at[k]
  BY GoingIs
<1>2. PICK g \in Facts : g = T.at[k + 1]
  BY GoingIs
<1>3. /\ TypeOK /\ Facing(lv, i, T, k, R, n) /\ Step(f, ins, g) /\ pos' \in Nat /\ pos \in Nat /\ f.kind = "live"
      /\ ins.op = op
  BY <1>0, <1>1, <1>2, GoingIs DEF Now
<1>4. Tells(lv, Placed(f, R, n))
  BY <1>1, <1>3, GoingIs
<1>5. /\ Chain(lv, rest, i) /\ rest \in Seq(Elems) /\ Leads(Placed(g, R, n), i[Len(rest)])
      /\ Allowed(lv, rest, i, Len(rest) + 1, f, R, n)
  <2>1. todo \in Seq(Elems) /\ todo # << >>
    BY <1>3 DEF TypeOK, Since, Facing
  <2> QED
    BY <1>1, <1>2, <1>3, <2>1, TailIs DEF Facing, rest
<1>6. UNCHANGED <<drawn, base, pos, nest>>
  BY DEF CallRule, ParseBp, Ignored, cursor, account
<1>7. PICK s \in Through(ins) : todo' = s \o rest
  <2>1. CASE CallRule
    BY <2>1, Zenon DEF CallRule, Now, Through
  <2>2. CASE ParseBp
    BY <2>2, Zenon DEF ParseBp, Now, Through
  <2> QED
    BY <2>1, <2>2
<1>8. PICK b : b = <<s, Stays(s, Inner(f))>>
  OBVIOUS
<1>9. b \in Enters(ins, f) /\ b[1] = s /\ b[2] = Stays(s, Inner(f))
  <2>1. <<s, Inner(f)>> \in Begins(ins, f)
    BY <1>0, <1>3, <1>7, Zenon DEF Begins
  <2> QED
    BY <1>8, <2>1 DEF Enters
<1>10. PICK U \in Typed : U.seq = b[1] /\ U.at[1] = b[2] /\ Leads(Returned(ins, f, Final(U.at)), g)
  <2>1. Runs(f, ins, g)
    BY <1>0, <1>3 DEF Step
  <2> QED
    BY <1>9, <2>1 DEF Runs
<1>11. U.at[1] \in Facts /\ Final(U.at) \in Facts
  <2>1. /\ Len(U.seq) \in Nat /\ Final(U.at) = U.at[Len(U.seq) + 1]
        /\ \A q \in 1..(Len(U.seq) + 1) : U.at[q] \in Facts
    BY TypedIs
  <2> QED
    BY <2>1
<1>14. /\ U.at[1].kind = "live" /\ U.at[1].nest = << >> /\ U.at[1].low = 0 /\ U.at[1].look = f.look
       /\ U.at[1].room = 0 /\ ~U.at[1].sp /\ U.at[1].out = {} /\ U.at[1].mode = (IF Roomy(f) THEN f.mode ELSE "bare")
  <2>1. U.at[1] = Stays(s, Inner(f))
    BY <1>9, <1>10
  <2>2. PICK v : v = (IF Roomy(f) THEN f.mode ELSE "bare")
    OBVIOUS
  <2>3. Inner(f) = [f EXCEPT !.nest = << >>, !.low = 0, !.room = 0, !.sp = FALSE, !.out = {}, !.mode = v]
    BY <2>2 DEF Inner, Facts
  <2> QED
    BY <1>3, <2>1, <2>2, <2>3 DEF Stays, Facts
<1>15. Allowed(lv, rest, i, Len(rest) + 1, U.at[1], f.nest \o R, f.low + n)
  <2>1. ASSUME NEW j \in 1..((Len(rest) + 1) - 1), Elem(rest, j).op = "restore" PROVE Elem(rest, j).open \in Nat
    <3>1. j \in 1..Len(rest)
      BY <1>5, LenProperties
    <3>2. Elem(rest, j) \in Elems
      BY <1>5, <3>1, ElemIs
    <3>3. Elem(rest, j) \in Backs
      BY <2>1, <3>2, ElemKinds
    <3> QED
      BY <3>3 DEF Backs
  <2> QED
    BY <1>5, <1>14, <2>1, AllowedInner
<1>16. Tells(lv, Placed(U.at[1], f.nest \o R, f.low + n))'
  BY <1>3, <1>4, <1>6, <1>11, <1>14, InnerTells
<1>17. Leads(Placed(Final(U.at), f.nest \o R, f.low + n), i[Len(rest)])
  <2>1. PICK e \in Facts : e = Final(U.at)
    BY <1>11
  <2>2. Leads([e EXCEPT !.nest = e.nest \o f.nest, !.low = f.low + e.low, !.look = << >>], g)
    BY <1>0, <1>3, <1>10, <2>1 DEF Returned
  <2>3. Leads(Placed(e, f.nest \o R, f.low + n), Placed(g, R, n))
    BY <2>2, CallEnds
  <2>4. Placed(e, f.nest \o R, f.low + n) \in Points /\ Placed(g, R, n) \in Points
    BY OverIs, PlacedPoint
  <2> QED
    BY <1>5, <2>1, <2>3, <2>4, ToRest
<1>18. todo' = U.seq \o rest
  BY <1>7, <1>9, <1>10
<1>19. f.nest \o R \in Seq(Closing) /\ f.low + n \in Nat
  BY OverIs
<1> QED
  BY <1>3, <1>5, <1>15, <1>16, <1>17, <1>18, <1>19, Continues

\* What a step that puts something on the stack starts from: f is known before the instruction, g behind it.
Stance(lv, i, R, n, f, g) ==
  /\ TypeOK /\ todo # << >> /\ rest \in Seq(Elems) /\ Chain(lv, rest, i)
  /\ ~errs /\ pos \in Nat /\ pos' \in Nat /\ lv \in 1..3
  /\ f.kind = "live" /\ Step(f, ins, g)
  /\ Tells(lv, Placed(f, R, n)) \/ Tells(lv, Placed(Blind(f), R, n))
  /\ ins.op \notin {"loop", "infix"} => Tells(lv, Placed(f, R, n))
  /\ Leads(Placed(g, R, n), i[Len(rest)]) /\ Allowed(lv, rest, i, Len(rest) + 1, f, R, n)
LEMMA StanceIs ==
  ASSUME NEW lv, NEW i, NEW T, NEW k, NEW R, NEW n, Going(lv, i, T, k, R, n)
  PROVE  \E f \in Facts, g \in Facts : f = T.at[k] /\ g = T.at[k + 1] /\ Stance(lv, i, R, n, f, g)
<1>1. PICK f \in Facts : f = T.at[k]
  BY GoingIs
<1>2. PICK g \in Facts : g = T.at[k + 1]
  BY GoingIs
<1>3. /\ TypeOK /\ Facing(lv, i, T, k, R, n) /\ Step(f, ins, g) /\ ~errs /\ pos' \in Nat /\ pos \in Nat /\ lv \in 1..3
      /\ f.kind = "live" /\ (Tells(lv, Placed(f, R, n)) \/ Tells(lv, Placed(Blind(f), R, n)))
      /\ (ins.op \notin {"loop", "infix"} => Tells(lv, Placed(f, R, n)))
  BY <1>1, <1>2, GoingIs
<1>4. todo \in Seq(Elems) /\ todo # << >>
  BY <1>3 DEF TypeOK, Since, Facing
<1>5. rest \in Seq(Elems)
  BY <1>4, TailIs DEF rest
<1>6. /\ Chain(lv, rest, i) /\ Leads(Placed(g, R, n), i[Len(rest)])
      /\ Allowed(lv, rest, i, Len(rest) + 1, f, R, n)
  BY <1>1, <1>2, <1>3 DEF Facing
<1>7. Stance(lv, i, R, n, f, g)
  BY <1>3, <1>4, <1>5, <1>6 DEF Stance
<1> QED
  BY <1>1, <1>2, <1>7

\* A frame that is put on the stack: what is known above it leads to what is known below.
LEMMA FrameGrown ==
  ASSUME NEW lv, NEW t \in Seq(Elems), NEW h, Chain(lv, t, h), NEW x \in Elems, x.op \in {"caught", "mark", "restore", "guard"},
         NEW p \in Points, p.kind = "dead" \/ (p.kind = "live" /\ Leads(p, h[Len(t)])),
         x.op = "restore" => ~x.failed, x.op = "guard" /\ p.kind = "live" => x.from < p.low,
         x.op = "mark" => ~x.errs /\ Told(lv, x, h[Len(t)])
  PROVE  \E i : Grown(lv, t, h, x, p, i)
<1>1. Joins(lv, t, h, x, p)
  <2> SUFFICES ASSUME NEW g, Topped(t, h, x, p, g) PROVE Link(lv, <<x>> \o t, g, Len(t) + 1)
    BY DEF Joins
  <2>1. Len(t) \in 0..Len(t) /\ (Len(t) + 1) - 1 = Len(t)
    BY LenProperties
  <2>2. g[(Len(t) + 1) - 1] = h[Len(t)] /\ g[Len(t) + 1] = p /\ Elem(<<x>> \o t, Len(t) + 1) = x
    BY <2>1 DEF Topped, Agree
  <2>3. Between(<<x>> \o t, g, Len(t) + 1, x, p, h[Len(t)]) \/ p.kind = "dead"
    BY DEF Between
  <2> QED
    BY <2>2, <2>3 DEF Link
<1> QED
  BY <1>1, ChainGrows

\* What is allowed below a frame that is no loop is allowed above it.
LEMMA Inside ==
  ASSUME NEW lv, NEW t \in Seq(Elems), NEW h, NEW y, NEW p, NEW i, Grown(lv, t, h, y, p, i),
         NEW f, NEW R, NEW n, Allowed(lv, t, h, Len(t) + 1, f, R, n), NEW e, Covers(e, f), e.out # {} => y.op # "loop",
         e.sp => y.op \notin {"caught", "mark"}, e.mode \in {"free", "tight"} => y.op # "restore"
  PROVE  Allowed(lv, <<y>> \o t, i, Len(<<y>> \o t) + 1, e, R, n)
<1>1. PICK L \in Nat : L = Len(t)
  BY LenProperties
<1>2. Allowed(lv, t, h, L + 1, e, R, n)
  BY <1>1, AllowedCovers
<1>3. /\ Agree(t, <<y>> \o t, h, i, L) /\ Len(<<y>> \o t) = L + 1 /\ Elem(<<y>> \o t, L + 1) = y
  BY <1>1 DEF Grown, Topped
<1>4. \A c \in (L + 1)..((L + 2) - 1) : c = L + 1
  BY <1>1
<1>5. L + 2 \in Nat /\ L < L + 2
  BY <1>1
<1>6. \A c \in (L + 1)..((L + 2) - 1) : /\ e.sp => Elem(<<y>> \o t, c).op \notin {"caught", "mark"}
                                        /\ e.out # {} => Elem(<<y>> \o t, c).op # "loop"
                                        /\ e.mode \in {"free", "tight"} => Elem(<<y>> \o t, c).op # "restore"
  BY <1>3, <1>4
<1>7. Allowed(lv, <<y>> \o t, i, L + 2, e, R, n)
  BY <1>1, <1>2, <1>3, <1>5, <1>6, AllowedAbove
<1>8. Len(<<y>> \o t) + 1 = L + 2
  BY <1>1, <1>3
<1> QED
  BY <1>7, <1>8

LEMMA AloneIs ==
  ASSUME NEW f \in Facts, NEW s, NEW e, e = Stays(s, Alone(f))
  PROVE  /\ e.kind = f.kind /\ e.nest = f.nest /\ e.low = f.low /\ e.look = f.look /\ e.mode = f.mode
         /\ ~e.sp /\ e.room = f.room /\ e.out = {}
BY DEF Facts, Stays, Alone

LEMMA StepHandle ==
  ASSUME NEW lv, NEW i, NEW T, NEW k, NEW R \in Seq(Closing), NEW n \in Nat, Going(lv, i, T, k, R, n), Handle
  PROVE  Good(lv)'
<1>1. PICK f \in Facts, g \in Facts : Stance(lv, i, R, n, f, g)
  BY StanceIs
<1>2. PICK x : Frame("catch", ins.body, x) /\ x.op = "caught"
  <2>1. TypeOK
    BY <1>1 DEF Stance
  <2> QED
    BY <2>1, HandleIs
<1>3. /\ rest \in Seq(Elems) /\ Chain(lv, rest, i) /\ pos' \in Nat /\ f.kind = "live" /\ Runs(f, ins, g)
      /\ Tells(lv, Placed(f, R, n)) /\ Leads(Placed(g, R, n), i[Len(rest)])
      /\ Allowed(lv, rest, i, Len(rest) + 1, f, R, n)
      /\ ins.op = "catch" /\ x \in Elems /\ <<x>> \o rest \in Seq(Elems) /\ todo' = ins.body \o (<<x>> \o rest)
  <2>1. ins.op = "catch"
    BY <1>2 DEF Frame
  <2>2. Step(f, ins, g) /\ Tells(lv, Placed(f, R, n))
    BY <1>1, <2>1 DEF Stance
  <2>3. Runs(f, ins, g)
    BY <2>1, <2>2 DEF Step
  <2> QED
    BY <1>1, <1>2, <2>1, <2>2, <2>3 DEF Frame, Stance
<1>4. PICK p : p = Placed(g, R, n)
  OBVIOUS
<1>5. p \in Points /\ p.kind \in {"live", "dead"} /\ Leads(p, p)
  BY <1>4, PlacedSame, PlacedPoint
<1>6. PICK h : Grown(lv, rest, i, x, p, h)
  BY <1>2, <1>3, <1>4, <1>5, FrameGrown
<1>7. Chain(lv, <<x>> \o rest, h) /\ h[Len(<<x>> \o rest)] = p
  BY <1>6 DEF Grown
<1>8. PICK e : e = Stays(ins.body, Alone(f))
  OBVIOUS
<1>9. /\ e.kind = f.kind /\ e.nest = f.nest /\ e.low = f.low /\ e.look = f.look /\ e.mode = f.mode
      /\ ~e.sp /\ e.room = f.room /\ e.out = {}
  BY <1>8, AloneIs
<1>10. PICK b : b = <<ins.body, e>>
  OBVIOUS
<1>11. b \in Enters(ins, f) /\ b[1] = ins.body /\ b[2] = e
  <2>1. <<ins.body, Alone(f)>> \in Begins(ins, f)
    BY <1>3, Zenon DEF Begins
  <2> QED
    BY <1>8, <1>10, <2>1 DEF Enters
<1>12. Allowed(lv, <<x>> \o rest, h, Len(<<x>> \o rest) + 1, e, R, n)
  <2>1. Covers(e, f)
    BY <1>9 DEF Covers
  <2>2. ~e.sp /\ x.op # "restore" /\ x.op # "loop"
    BY <1>2, <1>9
  <2> QED
    BY <1>3, <1>6, <2>1, <2>2, Inside
<1>13. e \in Facts => Tells(lv, Placed(e, R, n))'
  <2>1. pos' = pos /\ nest' = nest /\ \A l \in Looking : (l \in Looking)'
    BY LookingKept DEF Handle, Ignored, cursor, account
  <2>2. Placed(f, R, n).look = f.look /\ Placed(f, R, n).kind = "live"
    BY <1>3, PlacedFact
  <2>3. f.look \in Looking
    BY <1>3, <2>2 DEF Tells, TellsOf
  <2> QED
    BY <1>3, <1>9, <2>1, <2>3, TellsAs
<1>14. Leads(Placed(g, R, n), h[Len(<<x>> \o rest)])
  BY <1>4, <1>5, <1>7
<1>15. todo' = b[1] \o (<<x>> \o rest) /\ ins.op \notin {"call", "bp", "advancing"}
  BY <1>3, <1>11
<1> QED
  BY <1>3, <1>7, <1>11, <1>12, <1>13, <1>14, <1>15, Entering

LEMMA PlacedAs ==
  ASSUME NEW f \in Facts, NEW R \in Seq(Closing), NEW n \in Nat, NEW p, p = Placed(f, R, n)
  PROVE  /\ p.kind = f.kind /\ p.nest = f.nest \o R /\ p.low = f.low + n /\ p.look = f.look /\ p.mode = f.mode
         /\ p \in Points
BY PlacedFact, PlacedPoint

\* The body of a guarded round consumes something: its end is further than where the round began.
LEMMA RoundEnds ==
  ASSUME NEW f \in Facts, NEW w \in Facts, NEW g \in Facts, NEW R \in Seq(Closing), NEW n \in Nat, NEW m \in Nat,
         f.low + n <= m, w.kind = "live", g.kind = "live" => f.low < g.low,
         Leads([w EXCEPT !.low = f.low + w.low, !.look = << >>], g)
  PROVE  \E p \in Points : /\ p.kind = "live" /\ m < p.low /\ Leads(Placed(w, R, m), p) /\ Leads(p, Placed(g, R, n))
<1>1. PICK a \in Nat : a = w.low
  BY FactIs
<1>2. PICK b \in Nat : b = f.low
  BY FactIs
<1>3. PICK d \in Nat : d = g.low
  BY FactIs
<1>4. PICK c : c = [w EXCEPT !.low = b + a, !.look = << >>]
  OBVIOUS
<1>5. c.kind = "live" /\ c.nest = w.nest /\ c.low = b + a /\ c.look = << >> /\ c.mode = w.mode
  BY <1>4 DEF Facts
<1>6. Leads(c, g)
  BY <1>1, <1>2, <1>4
<1>7. g.kind = "live" /\ w.nest = g.nest /\ d <= b + a /\ g.look = << >> /\ (g.mode = "loose" => w.mode = "loose")
  BY <1>3, <1>5, <1>6 DEF Leads
<1>8. b < d /\ b + n <= m
  BY <1>2, <1>3, <1>7
<1>9. m < a + m /\ d + n <= a + m
  BY <1>7, <1>8
<1>10. PICK v \in Facts : v = Blind(w)
  BY BlindIs
<1>11. v.kind = "live" /\ v.nest = w.nest /\ v.low = a /\ v.look = << >> /\ v.mode = w.mode
  BY <1>1, <1>10, BlindIs
<1>12. PICK p \in Points : p = Placed(v, R, m)
  BY PlacedPoint
<1>13. p.kind = "live" /\ p.nest = w.nest \o R /\ p.low = a + m /\ p.look = << >> /\ p.mode = w.mode
  <2>1. p.kind = v.kind /\ p.nest = v.nest \o R /\ p.low = v.low + m /\ p.look = v.look /\ p.mode = v.mode
    BY <1>12 DEF Placed
  <2> QED
    BY <1>11, <2>1
<1>14. Leads(Placed(w, R, m), p)
  <2>1. PICK q : q = Placed(w, R, m)
    OBVIOUS
  <2>2. q.kind = "live" /\ q.nest = w.nest \o R /\ q.low = a + m /\ q.mode = w.mode
    <3>1. q.kind = w.kind /\ q.nest = w.nest \o R /\ q.low = w.low + m /\ q.mode = w.mode
      BY <2>1 DEF Placed
    <3> QED
      BY <1>1, <3>1
  <2>3. Leads(q, p)
    BY <1>13, <2>2 DEF Leads
  <2> QED
    BY <2>1, <2>3
<1>15. Leads(p, Placed(g, R, n))
  <2>1. PICK q : q = Placed(g, R, n)
    OBVIOUS
  <2>2. q.kind = "live" /\ q.nest = w.nest \o R /\ q.low = d + n /\ q.mode = g.mode /\ q.look = << >>
    <3>1. q.kind = g.kind /\ q.nest = g.nest \o R /\ q.low = g.low + n /\ q.mode = g.mode /\ q.look = g.look
      BY <2>1 DEF Placed
    <3> QED
      BY <1>3, <1>7, <3>1
  <2>3. Leads(p, q)
    BY <1>7, <1>9, <1>13, <2>2 DEF Leads
  <2> QED
    BY <2>1, <2>3
<1> QED
  BY <1>9, <1>13, <1>14, <1>15

LEMMA StepNotePosition ==
  ASSUME NEW lv, NEW i, NEW T, NEW k, NEW R \in Seq(Closing), NEW n \in Nat, Going(lv, i, T, k, R, n), NotePosition
  PROVE  Good(lv)'
<1>1. PICK f \in Facts, g \in Facts : Stance(lv, i, R, n, f, g)
  BY StanceIs
<1>2. PICK x : Frame("advancing", ins.body, x) /\ x.op = "guard" /\ x.from = pos
  <2>1. TypeOK
    BY <1>1 DEF Stance
  <2> QED
    BY <2>1, NotePositionIs
<1>3. /\ rest \in Seq(Elems) /\ Chain(lv, rest, i) /\ pos' \in Nat /\ f.kind = "live" /\ Runs(f, ins, g)
      /\ g.kind = "live" => f.low < g.low
      /\ Tells(lv, Placed(f, R, n)) /\ Leads(Placed(g, R, n), i[Len(rest)])
      /\ Allowed(lv, rest, i, Len(rest) + 1, f, R, n) /\ pos \in Nat
      /\ ins.op = "advancing" /\ x \in Elems /\ <<x>> \o rest \in Seq(Elems) /\ todo' = ins.body \o (<<x>> \o rest)
  <2>1. ins.op = "advancing"
    BY <1>2 DEF Frame
  <2>2. Step(f, ins, g) /\ Tells(lv, Placed(f, R, n))
    BY <1>1, <2>1 DEF Stance
  <2>3. Runs(f, ins, g) /\ (g.kind = "live" => f.low < g.low)
    BY <2>1, <2>2 DEF Step
  <2> QED
    BY <1>1, <1>2, <2>1, <2>2, <2>3 DEF Frame, Stance
<1>4. PICK m \in Nat : m = pos
  BY <1>3
<1>8. PICK e : e = Stays(ins.body, [Alone(f) EXCEPT !.low = 0])
  OBVIOUS
<1>9. /\ e.kind = f.kind /\ e.nest = f.nest /\ e.low = 0 /\ e.look = f.look /\ e.mode = f.mode
      /\ ~e.sp /\ e.room = f.room /\ e.out = {}
  BY <1>8 DEF Facts, Stays, Alone
<1>10. PICK b : b = <<ins.body, e>>
  OBVIOUS
<1>11. b \in Enters(ins, f) /\ b[1] = ins.body /\ b[2] = e
  <2>1. <<ins.body, [Alone(f) EXCEPT !.low = 0]>> \in Begins(ins, f)
    BY <1>3, Zenon DEF Begins
  <2> QED
    BY <1>8, <1>10, <2>1 DEF Enters
<1>12. PICK U \in Typed : U.seq = b[1] /\ U.at[1] = b[2] /\ Leads(Returned(ins, f, Final(U.at)), g)
  BY <1>3, <1>11 DEF Runs
<1>13. U.at[1] \in Facts /\ Final(U.at) \in Facts
  <2>1. /\ Len(U.seq) \in Nat /\ Final(U.at) = U.at[Len(U.seq) + 1]
        /\ \A q \in 1..(Len(U.seq) + 1) : U.at[q] \in Facts
    BY TypedIs
  <2> QED
    BY <2>1
<1>14. PICK w \in Facts : w = Final(U.at)
  BY <1>13
<1>141. e \in Facts /\ U.at[1] = e /\ todo' = U.seq \o (<<x>> \o rest)
  BY <1>3, <1>11, <1>12, <1>13
<1>15. Leads([w EXCEPT !.low = f.low + w.low, !.look = << >>], g)
  BY <1>3, <1>12, <1>14 DEF Returned
<1>16. Placed(f, R, n).low = f.low + n /\ Placed(f, R, n).look = f.look /\ Placed(f, R, n).kind = "live"
       /\ Placed(f, R, n).nest = f.nest \o R /\ Placed(f, R, n).mode = f.mode
  BY <1>3 DEF Placed
<1>17. f.low + n <= m /\ f.look \in Looking /\ (lv >= 2 => f.nest \o R = nest) /\ (lv = 3 => f.mode # "loose")
  BY <1>3, <1>4, <1>16 DEF Tells, TellsOf
<1>18. \E p \in Points : /\ p.kind = "dead" \/ (p.kind = "live" /\ m < p.low /\ Leads(p, Placed(g, R, n)))
                         /\ Leads(Placed(w, R, m), p)
  <2>1. CASE w.kind = "live"
    BY <1>3, <1>15, <1>17, <2>1, RoundEnds
  <2>2. CASE w.kind = "dead"
    <3>1. Placed(w, R, m).kind = "dead"
      BY <2>2, PlacedFact
    <3>2. Leads(Placed(w, R, m), Nowhere)
      BY <3>1 DEF Leads
    <3> QED
      BY <3>2, AtEnds
  <2> QED
    BY <2>1, <2>2, FactIs
<1>19. PICK p \in Points : /\ p.kind = "dead" \/ (p.kind = "live" /\ m < p.low /\ Leads(p, Placed(g, R, n)))
                           /\ Leads(Placed(w, R, m), p)
  BY <1>18
<1>20. p.kind = "dead" \/ (p.kind = "live" /\ Leads(p, i[Len(rest)]))
  <2>1. Placed(g, R, n) \in Points
    BY PlacedPoint
  <2> QED
    BY <1>3, <1>19, <2>1, ToRest
<1>21. PICK h : Grown(lv, rest, i, x, p, h)
  BY <1>2, <1>3, <1>4, <1>19, <1>20, FrameGrown
<1>22. Chain(lv, <<x>> \o rest, h) /\ h[Len(<<x>> \o rest)] = p
  BY <1>21 DEF Grown
<1>23. Allowed(lv, <<x>> \o rest, h, Len(<<x>> \o rest) + 1, e, R, m)
  <2>1. Allowed(lv, rest, i, Len(rest) + 1, f, R, n) /\ Covers(e, f)
    BY <1>3, <1>9 DEF Covers
  <2>2. ~e.sp /\ x.op # "restore" /\ x.op # "loop"
    BY <1>2, <1>9
  <2>3. Allowed(lv, <<x>> \o rest, h, Len(<<x>> \o rest) + 1, e, R, n)
    BY <1>3, <1>21, <2>1, <2>2, Inside
  <2> QED
    BY <1>9, <2>3 DEF Allowed
<1>24. Tells(lv, Placed(e, R, m))'
  <2>1. pos' = m /\ nest' = nest /\ \A l \in Looking : (l \in Looking)'
    BY <1>4, LookingKept DEF NotePosition, Ignored, cursor, account
  <2>2. PICK q : q = Placed(e, R, m)
    OBVIOUS
  <2>3. q.kind = "live" /\ q.nest = f.nest \o R /\ q.low = m /\ q.look = f.look /\ q.mode = f.mode
    <3>1. q.kind = e.kind /\ q.nest = e.nest \o R /\ q.low = e.low + m /\ q.look = e.look /\ q.mode = e.mode
      BY <2>2 DEF Placed
    <3> QED
      BY <1>3, <1>9, <3>1
  <2>4. Tells(lv, q)'
    <3>1. q.low <= pos' /\ (q.look \in Looking)' /\ (lv >= 2 => q.nest = nest') /\ (lv = 3 => q.mode # "loose")
      <4>1. q.low <= pos'
        BY <2>1, <2>3
      <4>2. (f.look \in Looking)'
        BY <1>17, <2>1
      <4> QED
        BY <1>17, <2>1, <2>3, <4>1, <4>2
    <3> QED
      BY <2>3, <3>1, TellsNext
  <2> QED
    BY <2>2, <2>4
<1>25. Leads(Placed(Final(U.at), R, m), h[Len(<<x>> \o rest)])
  BY <1>14, <1>19, <1>22
<1> QED
  BY <1>3, <1>22, <1>23, <1>24, <1>25, <1>141, Continues

\* What is known inside a head: it has room for the brackets open where it begins.
InHead(f) == [Alone(f) EXCEPT !.room = Len(f.nest), !.mode = IF @ = "loose" THEN @ ELSE "tight"]
LEMMA HeadIs ==
  ASSUME NEW f \in Facts, NEW s, NEW e, e = Stays(s, InHead(f))
  PROVE  /\ e.kind = f.kind /\ e.nest = f.nest /\ e.low = f.low /\ e.look = f.look
         /\ e.mode = (IF f.mode = "loose" THEN "loose" ELSE "tight")
         /\ ~e.sp /\ e.room = Len(f.nest) /\ e.out = {}
<1>1. PICK r : r = Len(f.nest)
  OBVIOUS
<1>2. PICK v : v = (IF f.mode = "loose" THEN "loose" ELSE "tight")
  OBVIOUS
<1>3. PICK a : a = Alone(f)
  OBVIOUS
<1>4. a.mode = f.mode /\ a \in Facts /\ a.kind = f.kind /\ a.nest = f.nest /\ a.low = f.low /\ a.look = f.look /\ ~a.sp /\ a.out = {}
  BY <1>3 DEF Alone, Facts
<1>5. e = Stays(s, [a EXCEPT !.room = r, !.mode = v])
  BY <1>1, <1>2, <1>3, <1>4 DEF InHead
<1>6. PICK c : c = [a EXCEPT !.room = r, !.mode = v]
  OBVIOUS
<1>7. /\ c.kind = f.kind /\ c.nest = f.nest /\ c.low = f.low /\ c.look = f.look /\ c.mode = v /\ ~c.sp /\ c.room = r /\ c.out = {}
      /\ [c EXCEPT !.out = {}].kind = f.kind /\ [c EXCEPT !.out = {}].nest = f.nest /\ [c EXCEPT !.out = {}].low = f.low
      /\ [c EXCEPT !.out = {}].look = f.look /\ [c EXCEPT !.out = {}].mode = v /\ ~[c EXCEPT !.out = {}].sp
      /\ [c EXCEPT !.out = {}].room = r /\ [c EXCEPT !.out = {}].out = {}
  BY <1>4, <1>6 DEF Facts
<1>8. e = c \/ e = [c EXCEPT !.out = {}]
  BY <1>5, <1>6 DEF Stays
<1> QED
  BY <1>1, <1>2, <1>7, <1>8

LEMMA StepLimit ==
  ASSUME NEW lv, NEW i, NEW T, NEW k, NEW R \in Seq(Closing), NEW n \in Nat, Going(lv, i, T, k, R, n), Limit
  PROVE  Good(lv)'
<1>1. PICK f \in Facts, g \in Facts : Stance(lv, i, R, n, f, g)
  BY StanceIs
<1>2. PICK x, y : /\ x \in Elems /\ y \in Elems
                  /\ x.op = "caught" /\ y.op = "restore" /\ ~y.failed /\ y.open = Len(nest)
                  /\ todo # << >> /\ ins.op = "nsl" /\ rest \in Seq(Elems)
                  /\ <<y>> \o rest \in Seq(Elems) /\ <<x>> \o (<<y>> \o rest) \in Seq(Elems)
                  /\ todo' = ins.body \o (<<x>> \o (<<y>> \o rest))
  <2>1. TypeOK
    BY <1>1 DEF Stance
  <2> QED
    BY <2>1, LimitIs
<1>3. /\ rest \in Seq(Elems) /\ Chain(lv, rest, i) /\ pos' \in Nat /\ f.kind = "live" /\ Runs(f, ins, g)
      /\ Tells(lv, Placed(f, R, n)) /\ Leads(Placed(g, R, n), i[Len(rest)])
      /\ ins.op = "nsl"
  <2>1. ins.op = "nsl"
    BY <1>2
  <2>2. Step(f, ins, g) /\ Tells(lv, Placed(f, R, n))
    BY <1>1, <2>1 DEF Stance
  <2>3. Runs(f, ins, g)
    BY <2>1, <2>2 DEF Step
  <2> QED
    BY <1>1, <2>1, <2>2, <2>3 DEF Stance
<1>4. PICK p : p = Placed(g, R, n)
  OBVIOUS
<1>5. p \in Points /\ p.kind \in {"live", "dead"} /\ Leads(p, p)
  BY <1>4, PlacedSame, PlacedPoint
<1>6. PICK h : Grown(lv, rest, i, y, p, h)
  <2>1. p.kind = "dead" \/ (p.kind = "live" /\ Leads(p, i[Len(rest)]))
    BY <1>3, <1>4, <1>5
  <2> QED
    BY <1>2, <1>3, <1>5, <2>1, FrameGrown
<1>7. PICK t \in Seq(Elems) : t = <<y>> \o rest
  BY <1>2
<1>8. Chain(lv, t, h) /\ h[Len(t)] = p
  BY <1>6, <1>7 DEF Grown
<1>9. PICK j : Grown(lv, t, h, x, p, j)
  <2>1. p.kind = "dead" \/ (p.kind = "live" /\ Leads(p, h[Len(t)]))
    BY <1>5, <1>8
  <2> QED
    BY <1>2, <1>5, <1>8, <2>1, FrameGrown
<1>10. PICK u \in Seq(Elems) : u = <<x>> \o t
  BY <1>2, <1>7
<1>11. Chain(lv, u, j) /\ j[Len(u)] = p
  BY <1>9, <1>10 DEF Grown
<1>12. PICK e : e = Stays(ins.body, InHead(f))
  OBVIOUS
<1>13. /\ e.kind = f.kind /\ e.nest = f.nest /\ e.low = f.low /\ e.look = f.look
       /\ e.mode = (IF f.mode = "loose" THEN "loose" ELSE "tight")
       /\ ~e.sp /\ e.room = Len(f.nest) /\ e.out = {}
  BY <1>12, HeadIs
<1>14. PICK b : b = <<ins.body, e>>
  OBVIOUS
<1>15. b \in Enters(ins, f) /\ b[1] = ins.body /\ b[2] = e
  <2>1. <<ins.body, InHead(f)>> \in Begins(ins, f)
    BY <1>3, Zenon DEF Begins, InHead
  <2> QED
    BY <1>12, <1>14, <2>1 DEF Enters
<1>16. PICK L \in Nat : L = Len(rest)
  BY <1>3, LenProperties
<1>17. /\ Len(t) = L + 1 /\ Len(u) = L + 2 /\ Elem(u, L + 1) = y /\ Elem(u, L + 2) = x
  <2>1. Len(t) = L + 1 /\ Elem(t, L + 1) = y
    BY <1>6, <1>7, <1>16 DEF Grown, Topped
  <2>2. L + 1 \in 1..(L + 1) /\ (L + 1) + 1 = L + 2
    BY <1>16
  <2>3. PICK c \in Nat : c = L + 1
    BY <1>16
  <2>4. Len(u) = c + 1 /\ Elem(u, c + 1) = x /\ Agree(t, u, h, j, c)
    BY <1>9, <1>10, <2>1, <2>3 DEF Grown, Topped
  <2>5. Elem(u, c) = Elem(t, c)
    BY <2>2, <2>3, <2>4 DEF Agree
  <2> QED
    BY <2>1, <2>2, <2>3, <2>4, <2>5
<1>18. Allowed(lv, u, j, Len(u) + 1, e, R, n)
  <2>1. ASSUME lv = 3, e.mode = "tight"
        PROVE  \E q \in 1..((L + 3) - 1) : /\ Nearest(u, L + 3, {"restore"}, q)
                                           /\ \/ e.room + Len(R) <= Elem(u, q).open
                                              \/ e.room = 0 /\ R # << >> /\ R[1] = "}"
    <3>1. L + 1 \in 1..((L + 3) - 1) /\ \A c \in ((L + 1) + 1)..((L + 3) - 1) : c = L + 2
      BY <1>16
    <3>2. Nearest(u, L + 3, {"restore"}, L + 1)
      BY <1>2, <1>17, <3>1 DEF Nearest
    <3>3. nest = f.nest \o R
      <4>1. PICK q : q = Placed(f, R, n)
        OBVIOUS
      <4>2. q.kind = "live" /\ q.nest = f.nest \o R
        BY <1>3, <4>1 DEF Placed
      <4>3. Tells(lv, q)
        BY <1>3, <4>1
      <4> QED
        BY <2>1, <4>2, <4>3 DEF Tells, TellsOf
    <3>4. e.room + Len(R) = Len(nest) /\ Len(nest) \in Nat
      <4>1. f.nest \in Seq(Closing)
        BY FactIs
      <4>2. Len(f.nest \o R) = Len(f.nest) + Len(R) /\ f.nest \o R \in Seq(Closing)
        BY <4>1, CatIs
      <4> QED
        BY <1>13, <3>3, <4>2, LenProperties
    <3>5. e.room + Len(R) <= Elem(u, L + 1).open
      BY <1>2, <1>17, <3>4
    <3> QED
      BY <3>1, <3>2, <3>5
  <2>2. e.mode # "free"
    BY <1>13
  <2>3. Len(u) + 1 = L + 3
    BY <1>16, <1>17
  <2>4. Allowed(lv, u, j, L + 3, e, R, n)
    BY <1>13, <2>1, <2>2, Zenon DEF Allowed
  <2> QED
    BY <2>3, <2>4
<1>19. e \in Facts => Tells(lv, Placed(e, R, n))'
  <2>1. pos' = pos /\ nest' = nest /\ \A l \in Looking : (l \in Looking)'
    BY LookingKept DEF Limit, Ignored, cursor, account
  <2>2. Placed(f, R, n).look = f.look /\ Placed(f, R, n).kind = "live"
    BY <1>3, PlacedFact
  <2>3. f.look \in Looking
    BY <1>3, <2>2 DEF Tells, TellsOf
  <2>4. e.kind = "live" /\ e.nest = f.nest /\ e.low = f.low /\ (e.mode = "loose" => f.mode = "loose") /\ e.look \in Looking
    BY <1>3, <1>13, <2>3
  <2> QED
    BY <1>3, <2>1, <2>4, TellsAs
<1>20. Leads(Placed(g, R, n), j[Len(u)])
  BY <1>4, <1>5, <1>11
<1>21. todo' = b[1] \o u /\ ins.op \notin {"call", "bp", "advancing"}
  BY <1>2, <1>3, <1>7, <1>10, <1>15
<1> QED
  BY <1>3, <1>11, <1>15, <1>18, <1>19, <1>20, <1>21, Entering

Tried(f) == [Alone(f) EXCEPT !.sp = TRUE]
LEMMA TriedIs ==
  ASSUME NEW f \in Facts, NEW s, NEW e, e = Stays(s, Tried(f))
  PROVE  /\ e.kind = f.kind /\ e.nest = f.nest /\ e.low = f.low /\ e.look = f.look /\ e.mode = f.mode
         /\ e.sp /\ e.room = f.room /\ e.out = {}
BY DEF Facts, Stays, Alone, Tried

\* What a speculation goes back to when it fails is known where it began.
LEMMA ToldHere ==
  ASSUME NEW lv \in 1..3, NEW f \in Facts, NEW g \in Facts, NEW R \in Seq(Closing), NEW n \in Nat, f.kind = "live",
         Tells(lv, Placed(f, R, n)), Leads(Blind(f), g), NEW q \in Points, Leads(Placed(g, R, n), q), pos \in Nat,
         NEW x, x.pos = pos, x.nest = nest
  PROVE  Told(lv, x, q)
<1>1. PICK v \in Facts : v = Blind(f)
  BY BlindIs
<1>2. v.kind = "live" /\ v.nest = f.nest /\ v.low = f.low /\ v.look = << >> /\ v.mode = f.mode
  BY <1>1, BlindIs
<1>3. PICK a \in Points : a = Placed(v, R, n)
  BY PlacedPoint
<1>4. a.kind = "live" /\ a.nest = f.nest \o R /\ a.low = f.low + n /\ a.look = << >> /\ a.mode = f.mode
  BY <1>2, <1>3 DEF Placed
<1>5. f.low + n <= pos /\ (lv >= 2 => f.nest \o R = nest) /\ (lv = 3 => f.mode # "loose")
  <2>1. PICK z : z = Placed(f, R, n)
    OBVIOUS
  <2>2. z.kind = "live" /\ z.low = f.low + n /\ z.nest = f.nest \o R /\ z.mode = f.mode
    BY <2>1 DEF Placed
  <2>3. Tells(lv, z)
    BY <2>1
  <2> QED
    BY <2>2, <2>3 DEF Tells, TellsOf
<1>6. TellsOf(lv, a, pos, nest, {<< >>})
  BY <1>4, <1>5 DEF TellsOf
<1>7. PICK b \in Points : b = Placed(g, R, n)
  BY PlacedPoint
<1>8. Leads(a, b)
  <2>1. v.nest \in Seq(Closing) /\ v.low \in Nat /\ g.nest \in Seq(Closing) /\ g.low \in Nat
    BY FactIs
  <2> QED
    BY <1>1, <1>3, <1>7, <2>1, LeadsPlaced
<1>9. Leads(a, q)
  <2>1. a.low \in Nat /\ b.low \in Nat /\ q.low \in Nat
    BY DEF Points
  <2> QED
    BY <1>7, <1>8, <2>1, LeadsTrans
<1>10. TellsOf(lv, q, pos, nest, {<< >>}) /\ q.kind = "live"
  <2>1. << >> \in {<< >>} /\ a.kind # "lost"
    BY <1>4
  <2> QED
    BY <1>6, <1>9, <2>1, LeadsTells
<1> QED
  BY <1>10 DEF TellsOf, Told

LEMMA StepAttempt ==
  ASSUME NEW lv, NEW i, NEW T, NEW k, NEW R \in Seq(Closing), NEW n \in Nat, Going(lv, i, T, k, R, n), Attempt
  PROVE  Good(lv)'
<1>1. PICK f \in Facts, g \in Facts : f = T.at[k] /\ g = T.at[k + 1] /\ Stance(lv, i, R, n, f, g)
  BY StanceIs
<1>2. Now("speculate") /\ ins.op = "speculate" /\ UNCHANGED <<drawn, base, pos, nest, errs, events>>
  BY DEF Attempt, Now, Ignored, cursor, account
<1>3. /\ TypeOK /\ rest \in Seq(Elems) /\ Chain(lv, rest, i) /\ pos' \in Nat /\ pos \in Nat /\ lv \in 1..3 /\ f.kind = "live"
      /\ Runs(f, ins, g) /\ Leads(Blind(f), g) /\ Tells(lv, Placed(f, R, n)) /\ Leads(Placed(g, R, n), i[Len(rest)])
      /\ Allowed(lv, rest, i, Len(rest) + 1, f, R, n) /\ ~errs
  <2>2. Step(f, ins, g) /\ Tells(lv, Placed(f, R, n))
    BY <1>1, <1>2 DEF Stance
  <2>3. Runs(f, ins, g) /\ Leads(Blind(f), g)
    BY <1>2, <2>2 DEF Step
  <2> QED
    BY <1>1, <2>2, <2>3 DEF Stance
<1>4. CASE todo' = rest
  <2>1. Shape /\ lv \in 1..3 /\ Facing(lv, i, T, k, R, n)
    BY GoingIs
  <2>2. pos <= pos' /\ (lv >= 2 => nest' = nest)
    BY <1>2, <1>3
  <2> QED
    BY <1>1, <1>3, <1>4, <2>1, <2>2, PassBlind
<1>5. CASE todo' = ins.body \o <<Saved>> \o rest
  <2>1. PICK x : /\ Frame("speculate", ins.body, x) /\ x.op = "mark" /\ x.pos = pos /\ ~x.errs /\ x.nest = nest
    BY <1>2, <1>3, <1>5, AttemptIs
  <2>2. x \in Elems /\ <<x>> \o rest \in Seq(Elems) /\ todo' = ins.body \o (<<x>> \o rest)
    BY <2>1 DEF Frame
  <2>3. i[Len(rest)] \in Points
    <3>1. Len(rest) \in 0..Len(rest)
      BY <1>3, LenProperties
    <3> QED
      BY <1>3, <3>1 DEF Chain
  <2>4. Told(lv, x, i[Len(rest)])
    BY <1>3, <2>1, <2>3, ToldHere
  <2>5. PICK p : p = Placed(g, R, n)
    OBVIOUS
  <2>6. p \in Points /\ p.kind \in {"live", "dead"} /\ Leads(p, p)
    BY <2>5, PlacedSame, PlacedPoint
  <2>7. PICK h : Grown(lv, rest, i, x, p, h)
    <3>1. p.kind = "dead" \/ (p.kind = "live" /\ Leads(p, i[Len(rest)]))
      BY <1>3, <2>5, <2>6
    <3> QED
      BY <1>3, <2>1, <2>2, <2>4, <2>6, <3>1, FrameGrown
  <2>8. Chain(lv, <<x>> \o rest, h) /\ h[Len(<<x>> \o rest)] = p
    BY <2>7 DEF Grown
  <2>9. PICK e : e = Stays(ins.body, Tried(f))
    OBVIOUS
  <2>10. /\ e.kind = f.kind /\ e.nest = f.nest /\ e.low = f.low /\ e.look = f.look /\ e.mode = f.mode
         /\ e.sp /\ e.room = f.room /\ e.out = {}
    BY <2>9, TriedIs
  <2>11. PICK b : b = <<ins.body, e>>
    OBVIOUS
  <2>12. b \in Enters(ins, f) /\ b[1] = ins.body /\ b[2] = e
    <3>1. <<ins.body, Tried(f)>> \in Begins(ins, f)
      BY <1>2, Zenon DEF Begins, Tried
    <3> QED
      BY <2>9, <2>11, <3>1 DEF Enters
  <2>13. Allowed(lv, <<x>> \o rest, h, Len(<<x>> \o rest) + 1, e, R, n)
    <3>1. PICK a : a = Stays(ins.body, Alone(f))
      OBVIOUS
    <3>2. ~a.sp /\ a.room = f.room /\ a.out = {} /\ a.mode = f.mode
      BY <3>1, AloneIs
    <3>3. Covers(a, f)
      BY <3>2 DEF Covers
    <3>4. x.op # "restore" /\ x.op # "loop"
      BY <2>1
    <3>5. Allowed(lv, <<x>> \o rest, h, Len(<<x>> \o rest) + 1, a, R, n)
      BY <1>3, <2>7, <3>2, <3>3, <3>4, Inside
    <3>6. PICK L \in Nat : L = Len(rest)
      BY <1>3, LenProperties
    <3>7. Len(<<x>> \o rest) = L + 1 /\ Elem(<<x>> \o rest, L + 1) = x
      BY <2>7, <3>6 DEF Grown, Topped
    <3>8. L + 1 \in 1..(((L + 1) + 1) - 1) /\ \A c \in ((L + 1) + 1)..(((L + 1) + 1) - 1) : FALSE
      BY <3>6
    <3>9. \E j \in 1..((Len(<<x>> \o rest) + 1) - 1) :
             Nearest(<<x>> \o rest, Len(<<x>> \o rest) + 1, {"caught", "mark"}, j) /\ Elem(<<x>> \o rest, j).op = "mark"
      BY <2>1, <3>7, <3>8 DEF Nearest
    <3> QED
      BY <2>10, <3>2, <3>5, <3>9, Zenon DEF Allowed
  <2>14. e \in Facts => Tells(lv, Placed(e, R, n))'
    <3>1. pos' = pos /\ nest' = nest /\ \A l \in Looking : (l \in Looking)'
      BY <1>2, LookingKept
    <3>2. Placed(f, R, n).look = f.look /\ Placed(f, R, n).kind = "live"
      BY <1>3, PlacedFact
    <3>3. f.look \in Looking
      BY <1>3, <3>2 DEF Tells, TellsOf
    <3>4. e.kind = "live" /\ e.nest = f.nest /\ e.low = f.low /\ (e.mode = "loose" => f.mode = "loose") /\ e.look \in Looking
      BY <1>3, <2>10, <3>3
    <3> QED
      BY <1>3, <3>1, <3>4, TellsAs
  <2>15. Leads(Placed(g, R, n), h[Len(<<x>> \o rest)])
    BY <2>5, <2>6, <2>8
  <2>16. todo' = b[1] \o (<<x>> \o rest) /\ ins.op \notin {"call", "bp", "advancing"}
    BY <1>2, <2>2, <2>12
  <2> QED
    BY <1>3, <2>2, <2>8, <2>12, <2>13, <2>14, <2>15, <2>16, Entering
<1> QED
  BY <1>4, <1>5 DEF Attempt, Saved

\* A loop may be left where what is known is what the loop began with.
LEMMA WayOut ==
  ASSUME NEW lv, NEW t \in Seq(Elems), NEW h, Chain(lv, t, h), NEW f \in Facts, NEW R \in Seq(Closing), NEW n \in Nat,
         f.kind = "live", Exits(f), Allowed(lv, t, h, Len(t) + 1, f, R, n)
  PROVE  \E j \in 1..Len(t) : Nearest(t, Len(t) + 1, {"loop"}, j) /\ Leads(Placed(Blind(f), R, n), h[j - 1])
<1>1. PICK o \in f.out : o.nest = f.nest /\ o.low <= f.low /\ (o.loose => f.mode = "loose")
  BY DEF Exits
<1>2. PICK j \in 1..((Len(t) + 1) - 1) : Nearest(t, Len(t) + 1, {"loop"}, j) /\ \A q \in f.out : Leads(Exit(q, R, n), h[j - 1])
  BY <1>1 DEF Allowed
<1>3. j \in 1..Len(t) /\ h[j - 1] \in Points
  <2>1. j \in 1..Len(t)
    BY <1>2, LenProperties
  <2>2. j - 1 \in 0..Len(t)
    BY <2>1, LenProperties
  <2> QED
    BY <2>1, <2>2 DEF Chain
<1>4. PICK v : v = Blind(f)
  OBVIOUS
<1>5. v.kind = "live" /\ v.nest = f.nest /\ v.low = f.low /\ v.look = << >> /\ v.mode = f.mode
  BY <1>4, BlindIs
<1>6. PICK p : p = Placed(v, R, n)
  OBVIOUS
<1>7. p.kind = "live" /\ p.nest = f.nest \o R /\ p.low = f.low + n /\ p.look = << >> /\ p.mode = f.mode
  BY <1>5, <1>6 DEF Placed
<1>8. PICK q : q = Exit(o, R, n)
  OBVIOUS
<1>9. /\ q.kind = "live" /\ q.nest = f.nest \o R /\ q.low = o.low + n /\ q.look = << >>
      /\ (q.mode = "loose" => f.mode = "loose")
  BY <1>1, <1>8 DEF Exit
<1>10. /\ o.low \in Nat /\ f.low \in Nat
  BY <1>1 DEF Facts
<1>11. q.low <= p.low /\ q.low \in Nat /\ p.low \in Nat
  BY <1>1, <1>7, <1>9, <1>10, SMTT(60)
<1>12. Leads(p, q)
  BY <1>7, <1>9, <1>11 DEF Leads
<1>13. Leads(p, h[j - 1])
  <2>1. Leads(q, h[j - 1]) /\ h[j - 1].low \in Nat
    BY <1>1, <1>2, <1>3, <1>8 DEF Points
  <2> QED
    BY <1>11, <1>12, <2>1, LeadsTrans
<1> QED
  BY <1>2, <1>3, <1>4, <1>6, <1>13

LEMMA LeavesLoop ==
  ASSUME NEW lv, todo \in Seq(Elems), todo # << >>, Looped(todo, 1), NEW i, Chain(lv, rest, i), NEW j \in 1..Len(rest),
         Nearest(rest, Len(rest) + 1, {"loop"}, j), todo' = Left(rest), pos' \in Nat,
         NEW p \in Points, p.kind = "live", Tells(lv, p)', Leads(p, i[j - 1])
  PROVE  Good(lv)'
<1>2. /\ rest \in Seq(Elems) /\ Len(rest) = Len(todo) - 1 /\ Len(todo) \in Nat /\ rest = Sfx(todo, 1)
      /\ \A e \in 1..Len(rest) : rest[e] = todo[e + 1]
  BY TailIs, LenProperties DEF rest
<1>3. PICK L \in Nat : L = Len(rest)
  BY <1>2, LenProperties
<1>4. /\ Elem(rest, j).op = "loop" /\ j \in 1..L
      /\ \A e \in (j + 1)..L : Elem(rest, e).op # "loop"
  <2>1. L + 1 - 1 = L
    BY <1>3
  <2> QED
    BY <1>3, <2>1 DEF Nearest
<1>5. PICK m \in 1..L : m = L + 1 - j
  <2>1. L + 1 - j \in 1..L
    BY <1>3, <1>4
  <2> QED
    BY <2>1
<1>6. rest[m].op = "loop" /\ \A e \in 1..(m - 1) : rest[e].op # "loop"
  <2>1. rest[m].op = "loop"
    BY <1>3, <1>4, <1>5 DEF Elem
  <2>2. ASSUME NEW e \in 1..(m - 1) PROVE rest[e].op # "loop"
    <3>0. L + 1 - e \in (j + 1)..L
      BY <1>4, <1>5
    <3>1. PICK d \in (j + 1)..L : d = L + 1 - e
      BY <3>0
    <3>2. Elem(rest, d) = rest[e]
      BY <1>3, <3>1 DEF Elem
    <3> QED
      BY <1>4, <3>1, <3>2
  <2> QED
    BY <2>1, <2>2
<1>8. PICK q \in 2..Len(todo) :
          /\ todo[q].op = "loop" /\ \A e \in 2..(q - 1) : todo[e].op # "loop"
          /\ Left(Tail(todo)) = Sfx(todo, q)
  BY LeftIs
<1>9. q = m + 1
  <2>1. ~(q < m + 1)
    <3>1. SUFFICES ASSUME q < m + 1 PROVE FALSE
      OBVIOUS
    <3>2. q - 1 \in 1..(m - 1) /\ q - 1 \in 1..Len(rest) /\ q - 1 + 1 = q
      BY <1>2, <1>3, <1>5, <3>1
    <3> QED
      BY <1>2, <1>6, <1>8, <3>2
  <2>2. ~(q > m + 1)
    <3>1. SUFFICES ASSUME q > m + 1 PROVE FALSE
      OBVIOUS
    <3>2. m + 1 \in 2..(q - 1) /\ m \in 1..Len(rest)
      BY <1>3, <1>5, <3>1
    <3> QED
      BY <1>2, <1>6, <1>8, <3>2
  <2> QED
    BY <1>5, <2>1, <2>2
<1>10. Sfx(todo, q) = Sfx(rest, m)
  <2>2. 1 \in 0..Len(todo) /\ m \in 0..(Len(todo) - 1) /\ 1 + m = q
    BY <1>2, <1>3, <1>5, <1>9
  <2> QED
    BY <1>2, <2>2, SfxSfx
<1>11. PICK t \in Seq(Elems) : t = Sfx(rest, m) /\ Len(t) = j - 1
  <2>1. m \in 0..Len(rest)
    BY <1>3, <1>5
  <2>2. Sfx(rest, m) \in Seq(Elems) /\ Len(Sfx(rest, m)) = Len(rest) - m
    BY <1>2, <2>1, SfxIs
  <2>3. Len(rest) - m = j - 1
    BY <1>3, <1>5
  <2> QED
    BY <2>2, <2>3
<1>12. PICK g : Below(lv, rest, i, m, g)
  <2>1. m \in 0..Len(rest)
    BY <1>3, <1>5
  <2> QED
    BY <1>2, <2>1, ChainDrops
<1>13. Chain(lv, t, g) /\ g[Len(t)] = i[j - 1]
  <2>1. Len(rest) - m = j - 1
    BY <1>3, <1>5
  <2> QED
    BY <1>11, <1>12, <2>1 DEF Below
<1>14. todo' = t /\ Leads(p, g[Len(t)])
  BY <1>8, <1>10, <1>11, <1>13 DEF rest
<1> QED
  BY <1>13, <1>14, Stops

LEMMA StepBreak ==
  ASSUME NEW lv, NEW i, NEW T, NEW k, NEW R \in Seq(Closing), NEW n \in Nat, Going(lv, i, T, k, R, n), BreakOut
  PROVE  Good(lv)'
<1>1. PICK f \in Facts, g \in Facts : Stance(lv, i, R, n, f, g)
  BY StanceIs
<1>2. Now("break") /\ ins.op = "break" /\ UNCHANGED <<pos, nest>> /\ todo' = Left(rest)
  BY DEF BreakOut, Now, Ignored, cursor, account
<1>3. /\ TypeOK /\ rest \in Seq(Elems) /\ Chain(lv, rest, i) /\ pos' \in Nat /\ pos \in Nat /\ lv \in 1..3 /\ f.kind = "live"
      /\ Exits(f) /\ Tells(lv, Placed(f, R, n)) /\ Allowed(lv, rest, i, Len(rest) + 1, f, R, n) /\ todo # << >>
  <2>1. Step(f, ins, g) /\ Tells(lv, Placed(f, R, n))
    BY <1>1, <1>2 DEF Stance
  <2>2. Exits(f)
    BY <1>2, <2>1 DEF Step
  <2> QED
    BY <1>1, <2>1, <2>2 DEF Stance
<1>4. todo \in Seq(Elems) /\ Looped(todo, 1)
  <2>1. todo \in Seq(Elems) /\ Stack(todo)
    BY GoingIs, SinceIs DEF Shape, TypeOK
  <2>2. ins \in Instructions /\ ins = todo[1]
    BY <1>2, <1>3, TopIs DEF Kinds, ins
  <2>3. ins \in MayBreak
    BY <1>2, <2>2, Climbing
  <2>4. 1 \in 1..Len(todo)
    BY <1>3, <2>1, TailIs, LenProperties
  <2> QED
    BY <2>1, <2>2, <2>3, <2>4 DEF Stack, Rests, Fits
<1>5. PICK j \in 1..Len(rest) : Nearest(rest, Len(rest) + 1, {"loop"}, j) /\ Leads(Placed(Blind(f), R, n), i[j - 1])
  BY <1>3, WayOut
<1>6. PICK v \in Facts : v = Blind(f)
  BY BlindIs
<1>7. Tells(lv, Placed(v, R, n))' /\ v.kind = "live"
  <2>1. pos <= pos' /\ (lv >= 2 => nest' = nest)
    BY <1>2, <1>3
  <2> QED
    BY <1>3, <1>6, <2>1, BlindTells
<1>8. PICK p \in Points : p = Placed(v, R, n) /\ p.kind = "live"
  BY <1>7, PlacedPoint, PlacedFact
<1> QED
  BY <1>2, <1>3, <1>4, <1>5, <1>6, <1>7, <1>8, LeavesLoop

LEMMA LeaveGrown ==
  ASSUME NEW lv, NEW t \in Seq(Elems), NEW h, Chain(lv, t, h), NEW x \in Elems, x.op = "grown",
         NEW p \in Points, p.kind = "live", Leads(p, h[Len(t)]),
         NEW j \in 1..Len(t), Nearest(t, Len(t) + 1, {"loop"}, j), Leads(p, h[j - 1])
  PROVE  \E i : Grown(lv, t, h, x, p, i)
<1>1. Joins(lv, t, h, x, p)
  <2> SUFFICES ASSUME NEW g, Topped(t, h, x, p, g) PROVE Link(lv, <<x>> \o t, g, Len(t) + 1)
    BY DEF Joins
  <2>1. Len(t) \in Nat /\ Len(t) \in 0..Len(t) /\ (Len(t) + 1) - 1 = Len(t) /\ j \in 1..((Len(t) + 1) - 1)
    BY LenProperties
  <2>2. g[(Len(t) + 1) - 1] = h[Len(t)] /\ g[Len(t) + 1] = p /\ Elem(<<x>> \o t, Len(t) + 1) = x
    BY <2>1 DEF Topped, Agree
  <2>3. PICK u : u = <<x>> \o t
    OBVIOUS
  <2>4. (\A e \in 1..Len(t) : Elem(u, e) = Elem(t, e)) /\ g[j - 1] = h[j - 1]
    <3>1. j - 1 \in 0..Len(t)
      BY <2>1
    <3> QED
      BY <2>3, <3>1 DEF Topped, Agree
  <2>5. Nearest(u, Len(t) + 1, {"loop"}, j)
    <3>1. \A e \in (j + 1)..((Len(t) + 1) - 1) : e \in 1..Len(t)
      BY <2>1
    <3> QED
      BY <2>1, <2>4, <3>1 DEF Nearest
  <2>6. Between(u, g, Len(t) + 1, x, p, h[Len(t)])
    BY <2>1, <2>4, <2>5 DEF Between
  <2> QED
    BY <2>2, <2>3, <2>6 DEF Link
<1> QED
  BY <1>1, ChainGrows

LEMMA StepBlockItem ==
  ASSUME NEW lv, NEW i, NEW T, NEW k, NEW R \in Seq(Closing), NEW n \in Nat, Going(lv, i, T, k, R, n), BlockItem
  PROVE  Good(lv)'
<1>1. PICK f \in Facts, g \in Facts : Stance(lv, i, R, n, f, g)
  BY StanceIs
<1>2. PICK x : Frame("item", <<Call("item")>>, x) /\ x.op = "grown"
  <2>1. TypeOK
    BY <1>1 DEF Stance
  <2> QED
    BY <2>1, BlockItemIs
<1>3. /\ rest \in Seq(Elems) /\ Chain(lv, rest, i) /\ pos' \in Nat /\ f.kind = "live" /\ Runs(f, ins, Blind(f)) /\ Leads(Blind(f), g)
      /\ Exits(f) /\ Tells(lv, Placed(f, R, n)) /\ Leads(Placed(g, R, n), i[Len(rest)])
      /\ Allowed(lv, rest, i, Len(rest) + 1, f, R, n)
      /\ ins.op = "item" /\ x \in Elems /\ <<x>> \o rest \in Seq(Elems) /\ todo' = <<Call("item")>> \o (<<x>> \o rest)
  <2>1. ins.op = "item"
    BY <1>2 DEF Frame
  <2>2. Step(f, ins, g) /\ Tells(lv, Placed(f, R, n))
    BY <1>1, <2>1 DEF Stance
  <2>3. Runs(f, ins, Blind(f)) /\ Leads(Blind(f), g) /\ Exits(f)
    BY <2>1, <2>2 DEF Step
  <2> QED
    BY <1>1, <1>2, <2>1, <2>2, <2>3 DEF Frame, Stance
<1>4. PICK v \in Facts : v = Blind(f)
  BY BlindIs
<1>41. v.kind = "live"
  BY <1>3, <1>4, BlindIs
<1>42. PICK p \in Points : p = Placed(v, R, n)
  BY PlacedPoint
<1>5. p.kind = "live" /\ Leads(p, p)
  BY <1>41, <1>42, PlacedSame
<1>51. Leads(p, i[Len(rest)])
  <2>1. Placed(g, R, n) \in Points
    BY PlacedPoint
  <2>2. Leads(p, Placed(g, R, n))
    <3>1. v.nest \in Seq(Closing) /\ v.low \in Nat /\ g.nest \in Seq(Closing) /\ g.low \in Nat
      BY FactIs
    <3> QED
      BY <1>3, <1>4, <1>42, <3>1, LeadsPlaced
  <2> QED
    BY <1>3, <2>1, <2>2, ToRest
<1>6. PICK j \in 1..Len(rest) : Nearest(rest, Len(rest) + 1, {"loop"}, j) /\ Leads(p, i[j - 1])
  BY <1>3, <1>4, <1>42, WayOut
<1>7. PICK h : Grown(lv, rest, i, x, p, h)
  BY <1>2, <1>3, <1>5, <1>51, <1>6, LeaveGrown
<1>8. Chain(lv, <<x>> \o rest, h) /\ h[Len(<<x>> \o rest)] = p
  BY <1>7 DEF Grown
<1>9. PICK e : e = Stays(<<Call("item")>>, f)
  OBVIOUS
<1>10. Alike(e, f, f.look)
  BY <1>9, StaysSame
<1>11. PICK b : b = <<<<Call("item")>>, e>>
  OBVIOUS
<1>12. b \in Enters(ins, f) /\ b[1] = <<Call("item")>> /\ b[2] = e
  <2>1. <<<<Call("item")>>, f>> \in Begins(ins, f)
    BY <1>3, Zenon DEF Begins
  <2> QED
    BY <1>9, <1>11, <2>1 DEF Enters
<1>13. Allowed(lv, <<x>> \o rest, h, Len(<<x>> \o rest) + 1, e, R, n)
  <2>1. Covers(e, f)
    BY <1>10 DEF Covers, Alike
  <2>2. x.op \notin {"caught", "mark"} /\ x.op # "restore" /\ x.op # "loop"
    BY <1>2
  <2> QED
    BY <1>3, <1>7, <2>1, <2>2, Inside
<1>14. e \in Facts => Tells(lv, Placed(e, R, n))'
  <2>1. pos' = pos /\ nest' = nest /\ \A l \in Looking : (l \in Looking)'
    BY LookingKept DEF BlockItem, Ignored, cursor, account
  <2>2. Placed(f, R, n).look = f.look /\ Placed(f, R, n).kind = "live"
    BY <1>3, PlacedFact
  <2>3. f.look \in Looking
    BY <1>3, <2>2 DEF Tells, TellsOf
  <2>4. e.kind = "live" /\ e.nest = f.nest /\ e.low = f.low /\ (e.mode = "loose" => f.mode = "loose") /\ e.look \in Looking
    BY <1>3, <1>10, <2>3 DEF Alike
  <2> QED
    BY <1>3, <2>1, <2>4, TellsAs
<1>15. Leads(Placed(v, R, n), h[Len(<<x>> \o rest)]) /\ Runs(f, ins, v)
  BY <1>3, <1>4, <1>42, <1>5, <1>8
<1>16. todo' = b[1] \o (<<x>> \o rest) /\ ins.op \notin {"call", "bp", "advancing"}
  BY <1>3, <1>12
<1> QED
  BY <1>3, <1>8, <1>12, <1>13, <1>14, <1>15, <1>16, Entering

\* What is known of a point but for the tokens ahead.
LEMMA TellsLook ==
  ASSUME NEW lv, NEW v \in Facts, NEW e \in Facts, NEW R \in Seq(Closing), NEW n \in Nat, Tells(lv, Placed(v, R, n))',
         v.kind = "live", e.kind = "live", e.nest = v.nest, e.low = v.low, e.mode = v.mode, (e.look \in Looking)'
  PROVE  Tells(lv, Placed(e, R, n))'
<1>1. PICK p : p = Placed(v, R, n)
  OBVIOUS
<1>2. p.kind = "live" /\ p.nest = v.nest \o R /\ p.low = v.low + n /\ p.mode = v.mode
  BY <1>1 DEF Placed
<1>3. PICK q : q = Placed(e, R, n)
  OBVIOUS
<1>4. q.kind = "live" /\ q.nest = v.nest \o R /\ q.low = v.low + n /\ q.look = e.look /\ q.mode = v.mode
  BY <1>3 DEF Placed
<1>5. Tells(lv, p)'
  BY <1>1
<1>6. p.low <= pos' /\ (lv >= 2 => p.nest = nest') /\ (lv = 3 => p.mode # "loose")
  BY <1>2, <1>5 DEF Tells, TellsOf
<1>7. Tells(lv, q)'
  BY <1>2, <1>4, <1>6, TellsNext
<1> QED
  BY <1>3, <1>7

\* A loop goes round: it stays on the stack, under what it puts there.
LEMMA RoundAgain ==
  ASSUME NEW lv, NEW i, NEW T, NEW k, NEW R \in Seq(Closing), NEW n \in Nat, Going(lv, i, T, k, R, n),
         ins \in Elems, ins.op \in {"loop", "infix"}
  PROVE  \E h : Grown(lv, rest, i, ins, Placed(Blind(T.at[k]), R, n), h)
<1>1. PICK f \in Facts, g \in Facts : f = T.at[k] /\ g = T.at[k + 1] /\ Stance(lv, i, R, n, f, g)
  BY StanceIs
<1>2. T \in Typed /\ k \in 1..Len(T.seq) /\ ins = T.seq[k]
  BY GoingIs DEF Facing
<1>3. /\ rest \in Seq(Elems) /\ Chain(lv, rest, i) /\ f.kind = "live"
      /\ Leads(Placed(g, R, n), i[Len(rest)]) /\ Allowed(lv, rest, i, Len(rest) + 1, f, R, n)
  BY <1>1 DEF Stance
<1>4. PICK v \in Facts : v = Blind(f) /\ v.kind = "live"
  BY <1>3, BlindIs
<1>5. PICK p \in Points : p = Placed(v, R, n)
  BY PlacedPoint
<1>6. p.kind = "live" /\ Leads(p, p)
  BY <1>4, <1>5, PlacedSame
<1>7. Known(T, k) = v
  BY <1>1, <1>2, <1>4 DEF Known
<1>8. PICK L \in Nat : L = Len(rest)
  BY <1>3, LenProperties
<1>9. Joins(lv, rest, i, ins, p)
  <2> SUFFICES ASSUME NEW h, Topped(rest, i, ins, p, h) PROVE Link(lv, <<ins>> \o rest, h, Len(rest) + 1)
    BY DEF Joins
  <2>1. PICK u : u = <<ins>> \o rest
    OBVIOUS
  <2>2. Agree(rest, u, i, h, L) /\ h[L + 1] = p /\ Elem(u, L + 1) = ins
    BY <1>8, <2>1 DEF Topped
  <2>3. L \in 0..L /\ (L + 1) - 1 = L /\ L + 1 \in 1..(L + 1)
    BY <1>8
  <2>4. h[(L + 1) - 1] = i[L]
    BY <2>2, <2>3 DEF Agree
  <2>5. Allowed(lv, u, h, L + 1, f, R, n)
    BY <1>3, <1>8, <2>2, <2>3, AllowedSame
  <2>6. Stood(lv, u, h, L + 1, T, k, R, n)
    BY <1>1, <1>2, <1>3, <1>5, <1>6, <1>7, <1>8, <2>2, <2>4, <2>5 DEF Stood
  <2>7. Code(lv, u, h, L + 1)
    BY <1>2, <2>6 DEF Code
  <2>8. Elem(u, L + 1).op \notin {"mark", "undo"} /\ h[L + 1].kind = "live"
    BY <1>6, <2>2
  <2>9. Link(lv, u, h, L + 1)
    BY <2>7, <2>8 DEF Link
  <2> QED
    BY <1>8, <2>1, <2>9
<1>10. \E h : Grown(lv, rest, i, ins, p, h)
  BY <1>3, <1>9, ChainGrows
<1> QED
  BY <1>1, <1>4, <1>5, <1>10

\* What goes round begins with what is known before the loop, which it may leave there.
Rounded(f) == [Blind(f) EXCEPT !.sp = FALSE, !.out = {[nest |-> f.nest, low |-> f.low, loose |-> f.mode = "loose"]}]
LEMMA RoundedIs ==
  ASSUME NEW f \in Facts, NEW s, NEW e, e = Stays(s, Rounded(f))
  PROVE  /\ e.kind = f.kind /\ e.nest = f.nest /\ e.low = f.low /\ e.look = << >> /\ e.mode = f.mode /\ e.room = f.room
         /\ ~e.sp /\ e.out \subseteq {[nest |-> f.nest, low |-> f.low, loose |-> f.mode = "loose"]}
<1>1. PICK v \in Facts : v = Blind(f)
  BY BlindIs
<1>2. v.kind = f.kind /\ v.nest = f.nest /\ v.low = f.low /\ v.look = << >> /\ v.mode = f.mode /\ v.room = f.room
  BY <1>1, BlindIs
<1>3. PICK O : O = {[nest |-> f.nest, low |-> f.low, loose |-> f.mode = "loose"]}
  OBVIOUS
<1>4. PICK c : c = [v EXCEPT !.sp = FALSE, !.out = O]
  OBVIOUS
<1>5. e = Stays(s, c)
  BY <1>1, <1>3, <1>4 DEF Rounded
<1>6. /\ c.kind = v.kind /\ c.nest = v.nest /\ c.low = v.low /\ c.look = v.look /\ c.mode = v.mode /\ c.room = v.room
      /\ ~c.sp /\ c.out = O
      /\ [c EXCEPT !.out = {}].kind = v.kind /\ [c EXCEPT !.out = {}].nest = v.nest /\ [c EXCEPT !.out = {}].low = v.low
      /\ [c EXCEPT !.out = {}].look = v.look /\ [c EXCEPT !.out = {}].mode = v.mode /\ [c EXCEPT !.out = {}].room = v.room
      /\ ~[c EXCEPT !.out = {}].sp /\ [c EXCEPT !.out = {}].out = {}
  BY <1>4 DEF Facts
<1>7. e = c \/ e = [c EXCEPT !.out = {}]
  BY <1>5 DEF Stays
<1> QED
  BY <1>2, <1>3, <1>6, <1>7

\* Leaving the loop from within leads behind it.
LEMMA OutLeads ==
  ASSUME NEW f \in Facts, NEW R \in Seq(Closing), NEW n \in Nat, f.kind = "live", NEW p, p = Placed(Blind(f), R, n),
         NEW o, o = [nest |-> f.nest, low |-> f.low, loose |-> f.mode = "loose"]
  PROVE  Leads(Exit(o, R, n), p) /\ Exit(o, R, n).low \in Nat
<1>1. PICK v : v = Blind(f)
  OBVIOUS
<1>2. v.kind = "live" /\ v.nest = f.nest /\ v.low = f.low /\ v.look = << >> /\ v.mode = f.mode
  BY <1>1, BlindIs
<1>3. p.kind = "live" /\ p.nest = f.nest \o R /\ p.low = f.low + n /\ p.look = << >> /\ p.mode = f.mode
  BY <1>1, <1>2 DEF Placed
<1>4. PICK q : q = Exit(o, R, n)
  OBVIOUS
<1>5. q.kind = "live" /\ q.nest = f.nest \o R /\ q.low = f.low + n /\ q.look = << >> /\ (f.mode = "loose" => q.mode = "loose")
  BY <1>4 DEF Exit
<1>6. f.low + n \in Nat
  BY OverIs
<1>7. Leads(q, p)
  BY <1>3, <1>5, <1>6 DEF Leads
<1> QED
  BY <1>4, <1>5, <1>6, <1>7

LEMMA StepRepeat ==
  ASSUME NEW lv, NEW i, NEW T, NEW k, NEW R \in Seq(Closing), NEW n \in Nat, Going(lv, i, T, k, R, n), Repeat
  PROVE  Good(lv)'
<1>1. PICK f \in Facts, g \in Facts : f = T.at[k] /\ g = T.at[k + 1] /\ Stance(lv, i, R, n, f, g)
  BY StanceIs
<1>2. Now("loop") /\ ins.op = "loop" /\ UNCHANGED <<drawn, base, pos, nest>>
  BY DEF Repeat, Now, Ignored, cursor, account
<1>3. /\ TypeOK /\ rest \in Seq(Elems) /\ Chain(lv, rest, i) /\ pos' \in Nat /\ pos \in Nat /\ lv \in 1..3 /\ f.kind = "live"
      /\ Runs(f, ins, Blind(f)) /\ Leads(Blind(f), g) /\ Leads(Placed(g, R, n), i[Len(rest)])
      /\ Allowed(lv, rest, i, Len(rest) + 1, f, R, n) /\ todo # << >>
      /\ Tells(lv, Placed(f, R, n)) \/ Tells(lv, Placed(Blind(f), R, n))
  <2>1. Step(f, ins, g)
    BY <1>1 DEF Stance
  <2>2. Runs(f, ins, Blind(f)) /\ Leads(Blind(f), g)
    BY <1>2, <2>1 DEF Step
  <2> QED
    BY <1>1, <2>2 DEF Stance
<1>4. CASE todo' = rest
  <2>1. Shape /\ lv \in 1..3 /\ Facing(lv, i, T, k, R, n)
    BY GoingIs
  <2>2. pos <= pos' /\ (lv >= 2 => nest' = nest)
    BY <1>2, <1>3
  <2> QED
    BY <1>1, <1>3, <1>4, <2>1, <2>2, PassBlind
<1>5. CASE todo' = ins.body \o todo
  <2>1. todo \in Seq(Elems) /\ todo = <<ins>> \o rest /\ ins \in Elems
    <3>1. todo \in Seq(Elems)
      BY <1>3 DEF TypeOK, Since
    <3> QED
      BY <1>3, <3>1, TailIs DEF ins, rest
  <2>2. PICK v \in Facts : v = Blind(f) /\ v.kind = "live"
    BY <1>3, BlindIs
  <2>3. PICK p \in Points : p = Placed(v, R, n)
    BY PlacedPoint
  <2>4. PICK h : Grown(lv, rest, i, ins, p, h)
    BY <1>1, <1>2, <2>1, <2>2, <2>3, RoundAgain
  <2>5. PICK u \in Seq(Elems) : u = <<ins>> \o rest /\ u = todo
    BY <2>1
  <2>6. Chain(lv, u, h) /\ h[Len(u)] = p /\ Len(u) = Len(rest) + 1 /\ h[Len(rest)] = i[Len(rest)] /\ Elem(u, Len(rest) + 1) = ins
    <3>1. Len(rest) \in 0..Len(rest)
      BY <1>3, LenProperties
    <3> QED
      BY <2>4, <2>5, <3>1 DEF Grown, Topped
  <2>7. p.kind = "live" /\ Leads(p, p)
    BY <2>2, <2>3, PlacedSame
  <2>8. Leads(p, i[Len(rest)])
    <3>1. Placed(g, R, n) \in Points
      BY PlacedPoint
    <3>2. Leads(p, Placed(g, R, n))
      <4>1. v.nest \in Seq(Closing) /\ v.low \in Nat /\ g.nest \in Seq(Closing) /\ g.low \in Nat
        BY FactIs
      <4> QED
        BY <1>3, <2>2, <2>3, <4>1, LeadsPlaced
    <3> QED
      BY <1>3, <3>1, <3>2, ToRest
  <2>9. PICK e : e = Stays(ins.body, Rounded(f))
    OBVIOUS
  <2>10. /\ e.kind = f.kind /\ e.nest = f.nest /\ e.low = f.low /\ e.look = << >> /\ e.mode = f.mode /\ e.room = f.room
         /\ ~e.sp /\ e.out \subseteq {[nest |-> f.nest, low |-> f.low, loose |-> f.mode = "loose"]}
    BY <2>9, RoundedIs
  <2>11. PICK b : b = <<ins.body, e>>
    OBVIOUS
  <2>12. b \in Enters(ins, f) /\ b[1] = ins.body /\ b[2] = e
    <3>1. <<ins.body, Rounded(f)>> \in Begins(ins, f)
      BY <1>2, Zenon DEF Begins, Rounded
    <3> QED
      BY <2>9, <2>11, <3>1 DEF Enters
  <2>13. Allowed(lv, u, h, Len(u) + 1, e, R, n)
    <3>1. PICK a : a = Stays(ins.body, Alone(f))
      OBVIOUS
    <3>2. ~a.sp /\ a.room = f.room /\ a.out = {} /\ a.mode = f.mode
      BY <3>1, AloneIs
    <3>3. Covers(a, f) /\ (a.out # {} => ins.op # "loop")
      BY <3>2 DEF Covers
    <3>4. ins.op # "restore"
      BY <1>2
    <3>5. Allowed(lv, u, h, Len(u) + 1, a, R, n)
      BY <1>3, <2>4, <2>5, <3>2, <3>3, <3>4, Inside, ZenonT(60)
    <3>6. PICK L \in Nat : L = Len(rest)
      BY <1>3, LenProperties
    <3>7. Len(u) = L + 1 /\ Elem(u, L + 1) = ins /\ h[L] = i[L]
      BY <2>6, <3>6
    <3>8. L + 1 \in 1..(((L + 1) + 1) - 1) /\ (\A c \in ((L + 1) + 1)..(((L + 1) + 1) - 1) : FALSE) /\ (L + 1) - 1 = L
      BY <3>6
    <3>9. \A o \in e.out : Leads(Exit(o, R, n), h[L])
      <4>1. SUFFICES ASSUME NEW o \in e.out PROVE Leads(Exit(o, R, n), h[L])
        OBVIOUS
      <4>2. o = [nest |-> f.nest, low |-> f.low, loose |-> f.mode = "loose"]
        BY <2>10, <4>1
      <4>3. Leads(Exit(o, R, n), p) /\ Exit(o, R, n).low \in Nat
        BY <1>3, <2>2, <2>3, <4>2, OutLeads
      <4>4. h[L] \in Points
        <5>1. L \in 0..Len(u)
          BY <3>6, <3>7
        <5> QED
          BY <2>6, <5>1 DEF Chain
      <4>5. p.low \in Nat /\ h[L].low \in Nat /\ Leads(p, h[L])
        BY <2>8, <3>6, <3>7, <4>4 DEF Points
      <4> QED
        BY <4>3, <4>5, LeadsTrans
    <3>10. Nearest(u, Len(u) + 1, {"loop"}, L + 1) /\ L + 1 \in 1..((Len(u) + 1) - 1) /\ h[(L + 1) - 1] = h[L]
      BY <1>2, <3>7, <3>8 DEF Nearest
    <3>11. \E j \in 1..((Len(u) + 1) - 1) : Nearest(u, Len(u) + 1, {"loop"}, j) /\ \A o \in e.out : Leads(Exit(o, R, n), h[j - 1])
      BY <3>9, <3>10
    <3> QED
      BY <2>10, <3>2, <3>5, <3>11, Zenon DEF Allowed
  <2>14. e \in Facts => Tells(lv, Placed(e, R, n))'
    <3>1. Tells(lv, Placed(v, R, n))'
      <4>1. pos <= pos' /\ (lv >= 2 => nest' = nest)
        BY <1>2, <1>3
      <4> QED
        BY <1>3, <2>2, <4>1, BlindTells
    <3>2. v.nest = f.nest /\ v.low = f.low /\ v.mode = f.mode
      BY <2>2, BlindIs
    <3>3. e.kind = "live" /\ e.nest = v.nest /\ e.low = v.low /\ e.mode = v.mode /\ (e.look \in Looking)'
      <4>1. (<< >> \in Looking)'
        BY BlankAhead
      <4> QED
        BY <1>3, <2>10, <3>2, <4>1
    <3> QED
      BY <2>2, <3>1, <3>3, TellsLook
  <2>15. Leads(Placed(v, R, n), h[Len(u)]) /\ Runs(f, ins, v)
    BY <1>3, <2>2, <2>3, <2>6, <2>7
  <2>16. todo' = b[1] \o u /\ ins.op \notin {"call", "bp", "advancing"}
    BY <1>2, <1>5, <2>5, <2>12
  <2> QED
    BY <1>3, <2>6, <2>12, <2>13, <2>14, <2>15, <2>16, Entering
<1> QED
  BY <1>4, <1>5 DEF Repeat

LEMMA InfixPushes ==
  ASSUME NEW lv, NEW i, NEW T, NEW k, NEW R \in Seq(Closing), NEW n \in Nat, Going(lv, i, T, k, R, n), ins.op = "infix",
         NEW f \in Facts, f = T.at[k], NEW b \in Enters(ins, f), Covers(b[2], f), todo' = b[1] \o todo,
         b[2] \in Facts => Tells(lv, Placed(b[2], R, n))'
  PROVE  Good(lv)'
<1>1. PICK g \in Facts : g = T.at[k + 1] /\ Stance(lv, i, R, n, f, g)
  BY StanceIs
<1>3. /\ TypeOK /\ rest \in Seq(Elems) /\ Chain(lv, rest, i) /\ pos' \in Nat /\ f.kind = "live"
      /\ Runs(f, ins, Blind(f)) /\ Allowed(lv, rest, i, Len(rest) + 1, f, R, n) /\ todo # << >>
  <2>1. Step(f, ins, g)
    BY <1>1 DEF Stance
  <2>2. Runs(f, ins, Blind(f))
    BY <2>1 DEF Step
  <2> QED
    BY <1>1, <2>2 DEF Stance
<1>4. todo \in Seq(Elems) /\ todo = <<ins>> \o rest /\ ins \in Elems
  <2>1. todo \in Seq(Elems)
    BY <1>3 DEF TypeOK, Since
  <2> QED
    BY <1>3, <2>1, TailIs DEF ins, rest
<1>5. PICK v \in Facts : v = Blind(f) /\ v.kind = "live"
  BY <1>3, BlindIs
<1>6. PICK p \in Points : p = Placed(v, R, n)
  BY PlacedPoint
<1>7. PICK h : Grown(lv, rest, i, ins, p, h)
  BY <1>4, <1>5, <1>6, RoundAgain
<1>8. PICK u \in Seq(Elems) : u = <<ins>> \o rest /\ u = todo
  BY <1>4
<1>9. Chain(lv, u, h) /\ h[Len(u)] = p
  BY <1>7, <1>8 DEF Grown
<1>10. p.kind = "live" /\ Leads(p, p)
  BY <1>5, <1>6, PlacedSame
<1>11. Allowed(lv, u, h, Len(u) + 1, b[2], R, n)
  <2>1. ins.op \notin {"caught", "mark"} /\ ins.op # "restore" /\ ins.op # "loop"
    OBVIOUS
  <2> QED
    BY <1>3, <1>7, <1>8, <2>1, Inside
<1>12. Leads(Placed(v, R, n), h[Len(u)]) /\ Runs(f, ins, v)
  BY <1>3, <1>5, <1>6, <1>9, <1>10
<1>13. todo' = b[1] \o u /\ ins.op \notin {"call", "bp", "advancing"}
  BY <1>8
<1> QED
  BY <1>3, <1>9, <1>11, <1>12, <1>13, Entering

Closer(f, t) == [Blind(f) EXCEPT !.nest = NestedIn(f.nest, t)]
LEMMA CloserIs ==
  ASSUME NEW f \in Facts, NEW s, NEW t, NEW e, e = Stays(s, Closer(f, t))
  PROVE  /\ e.kind = f.kind /\ e.nest = NestedIn(f.nest, t) /\ e.low = f.low /\ e.look = << >> /\ e.mode = f.mode
         /\ e.sp = f.sp /\ e.room = f.room /\ (e.out = {} \/ e.out = f.out)
<1>1. PICK v \in Facts : v = Blind(f)
  BY BlindIs
<1>2. /\ v.kind = f.kind /\ v.nest = f.nest /\ v.low = f.low /\ v.look = << >> /\ v.mode = f.mode /\ v.room = f.room
      /\ v.sp = f.sp /\ v.out = f.out
  BY <1>1, BlindIs
<1>3. PICK m : m = NestedIn(f.nest, t)
  OBVIOUS
<1>4. PICK c : c = [v EXCEPT !.nest = m]
  OBVIOUS
<1>5. e = Stays(s, c)
  BY <1>1, <1>3, <1>4 DEF Closer
<1>6. /\ c.kind = v.kind /\ c.nest = m /\ c.low = v.low /\ c.look = v.look /\ c.mode = v.mode /\ c.room = v.room
      /\ c.sp = v.sp /\ c.out = v.out
      /\ [c EXCEPT !.out = {}].kind = v.kind /\ [c EXCEPT !.out = {}].nest = m /\ [c EXCEPT !.out = {}].low = v.low
      /\ [c EXCEPT !.out = {}].look = v.look /\ [c EXCEPT !.out = {}].mode = v.mode /\ [c EXCEPT !.out = {}].room = v.room
      /\ [c EXCEPT !.out = {}].sp = v.sp /\ [c EXCEPT !.out = {}].out = {}
  BY <1>4 DEF Facts
<1>7. e = c \/ e = [c EXCEPT !.out = {}]
  BY <1>5 DEF Stays
<1> QED
  BY <1>2, <1>3, <1>6, <1>7

\* OpenBrace names a literal, which a leaf with sequences in it cannot hold.
OpenBrace == {"{"}
AtBrace(f) == [f EXCEPT !.look = <<OpenBrace>>]

LEMMA StepInfix ==
  ASSUME NEW lv, NEW i, NEW T, NEW k, NEW R \in Seq(Closing), NEW n \in Nat, Going(lv, i, T, k, R, n), InfixRound
  PROVE  Good(lv)'
<1>1. PICK f \in Facts, g \in Facts : f = T.at[k] /\ g = T.at[k + 1] /\ Stance(lv, i, R, n, f, g)
  BY StanceIs
<1>2. ins.op = "infix"
  BY DEF InfixRound, Now
<1>3. /\ TypeOK /\ pos' \in Nat /\ pos \in Nat /\ lv \in 1..3 /\ f.kind = "live" /\ ~errs
      /\ Leads(Blind(f), g)
      /\ Tells(lv, Placed(f, R, n)) \/ Tells(lv, Placed(Blind(f), R, n))
  <2>1. Step(f, ins, g)
    BY <1>1 DEF Stance
  <2>2. Leads(Blind(f), g)
    BY <1>2, <2>1 DEF Step
  <2> QED
    BY <1>1, <2>2 DEF Stance
<1>4. PICK v \in Facts : v = Blind(f)
  BY BlindIs
<1>5. /\ v.kind = "live" /\ v.nest = f.nest /\ v.low = f.low /\ v.look = << >> /\ v.mode = f.mode /\ v.sp = f.sp
      /\ v.out = f.out /\ v.room = f.room
  BY <1>3, <1>4, BlindIs
<1>6. (<< >> \in Looking)'
  BY BlankAhead
<1>7. Took({}) => pos <= pos' /\ nest' = Nested(Peek)
  BY <1>3, ConsumedIs DEF Took
<1>8. ASSUME pos <= pos', lv >= 2 => nest' = nest PROVE Tells(lv, Placed(v, R, n))'
  BY <1>3, <1>4, <1>8, BlindTells
<1>9. CASE Took({}) /\ Plain(Peek) /\ todo' = OrElse \o todo
  <2>1. PICK e : e = Stays(OrElse, v)
    OBVIOUS
  <2>2. Alike(e, v, << >>)
    BY <1>5, <2>1, StaysSame
  <2>3. PICK b : b = <<OrElse, e>>
    OBVIOUS
  <2>4. b \in Enters(ins, f) /\ b[1] = OrElse /\ b[2] = e
    <3>1. <<OrElse, v>> \in Begins(ins, f)
      BY <1>2, <1>4, Zenon DEF Begins
    <3> QED
      BY <2>1, <2>3, <3>1 DEF Enters
  <2>5. Covers(e, f)
    BY <1>5, <2>2 DEF Covers, Alike
  <2>6. e \in Facts => Tells(lv, Placed(e, R, n))'
    <3>1. nest' = nest
      BY <1>7, <1>9 DEF Plain, Nested
    <3>2. Tells(lv, Placed(v, R, n))'
      BY <1>7, <1>8, <1>9, <3>1
    <3>3. e.kind = "live" /\ e.nest = v.nest /\ e.low = v.low /\ e.mode = v.mode /\ (e.look \in Looking)'
      BY <1>5, <1>6, <2>2 DEF Alike
    <3> QED
      BY <1>5, <3>2, <3>3, TellsLook
  <2> QED
    BY <1>1, <1>2, <1>9, <2>4, <2>5, <2>6, InfixPushes
<1>10. CASE UNCHANGED <<drawn, base, pos, nest>> /\ Seen(1) /\ Peek \in OpenBrace /\ todo' = StructLit \o todo
  <2>1. PICK e : e = Stays(StructLit, AtBrace(f))
    OBVIOUS
  <2>2. Alike(e, f, <<OpenBrace>>)
    BY <2>1, StaysIs DEF AtBrace
  <2>3. PICK b : b = <<StructLit, e>>
    OBVIOUS
  <2>4. b \in Enters(ins, f) /\ b[1] = StructLit /\ b[2] = e
    <3>1. <<StructLit, AtBrace(f)>> \in Begins(ins, f)
      BY <1>2, Zenon DEF Begins, AtBrace, OpenBrace
    <3> QED
      BY <2>1, <2>3, <3>1 DEF Enters
  <2>5. Covers(e, f)
    BY <2>2 DEF Covers, Alike
  <2>6. e \in Facts => Tells(lv, Placed(e, R, n))'
    <3> SUFFICES ASSUME e \in Facts PROVE Tells(lv, Placed(e, R, n))'
      OBVIOUS
    <3>2. Tells(lv, Placed(v, R, n))'
      <4>1. pos <= pos' /\ (lv >= 2 => nest' = nest)
        BY <1>3, <1>10
      <4> QED
        BY <1>8, <4>1
    <3>3. (<<OpenBrace>> \in Looking)'
      <4>1. <<OpenBrace>> \in Seq(SUBSET STRING) /\ Len(<<OpenBrace>>) = 1 /\ <<OpenBrace>>[1] = OpenBrace
        <5>1. <<OpenBrace>> \in Seq(SUBSET STRING)
          BY <2>2, FactIs DEF Alike
        <5> QED
          BY <5>1
      <4>2. <<OpenBrace>> \in Looking
        BY <1>10, <4>1 DEF Looking, Peek
      <4> QED
        BY <1>10, <4>2, LookingKept
    <3>4. e.kind = "live" /\ e.nest = v.nest /\ e.low = v.low /\ e.mode = v.mode /\ (e.look \in Looking)'
      BY <1>3, <1>5, <2>2, <3>3 DEF Alike
    <3> QED
      BY <1>5, <3>2, <3>4, TellsLook
  <2> QED
    BY <1>1, <1>2, <1>10, <2>4, <2>5, <2>6, InfixPushes
<1>11. CASE Peek \in DOMAIN Power /\ Took({}) /\ todo' = AfterOp(Peek) \o todo
  <2>1. PICK t : t = Peek
    OBVIOUS
  <2>2. PICK s : s = AfterOp(t)
    OBVIOUS
  <2>3. PICK e : e = Stays(s, Closer(f, t))
    OBVIOUS
  <2>4. /\ e.kind = f.kind /\ e.nest = NestedIn(f.nest, t) /\ e.low = f.low /\ e.look = << >> /\ e.mode = f.mode
        /\ e.sp = f.sp /\ e.room = f.room /\ (e.out = {} \/ e.out = f.out)
    BY <2>3, CloserIs
  <2>5. PICK b : b = <<s, e>>
    OBVIOUS
  <2>6. b \in Enters(ins, f) /\ b[1] = s /\ b[2] = e
    <3>1. <<s, Closer(f, t)>> \in Begins(ins, f)
      BY <1>2, <1>11, <2>1, <2>2, Zenon DEF Begins, Closer
    <3> QED
      BY <2>3, <2>5, <3>1 DEF Enters
  <2>7. Covers(e, f)
    BY <2>4 DEF Covers
  <2>8. e \in Facts => Tells(lv, Placed(e, R, n))'
    <3> SUFFICES ASSUME e \in Facts PROVE Tells(lv, Placed(e, R, n))'
      OBVIOUS
    <3>1. f.low + n <= pos /\ (lv >= 2 => f.nest \o R = nest) /\ (lv = 3 => f.mode # "loose")
      <4>1. PICK q : q = Placed(f, R, n)
        OBVIOUS
      <4>2. q.nest = f.nest \o R /\ q.low = f.low + n /\ q.mode = f.mode /\ q.kind = "live"
        BY <1>3, <4>1 DEF Placed
      <4>3. PICK z : z = Placed(v, R, n)
        OBVIOUS
      <4>4. z.nest = f.nest \o R /\ z.low = f.low + n /\ z.mode = f.mode /\ z.kind = "live"
        BY <1>5, <4>3 DEF Placed
      <4>5. Tells(lv, q) \/ Tells(lv, z)
        BY <1>3, <1>4, <4>1, <4>3
      <4> QED
        BY <4>2, <4>4, <4>5 DEF Tells, TellsOf
    <3>2. lv >= 2 => NestedIn(f.nest, t) \o R = nest'
      <4>1. PICK m \in Seq(Closing) : m = f.nest
        BY FactIs
      <4>2. t \notin Closing
        BY <1>11, <2>1, Operators
      <4>3. lv >= 2 => Nested(t) = NestedIn(m, t) \o R
        BY <3>1, <4>1, <4>2, NestedOver
      <4> QED
        BY <1>7, <1>11, <2>1, <4>1, <4>3
    <3>3. f.low + n <= pos'
      <4>1. PICK a \in Nat : a = f.low
        BY FactIs
      <4>2. a + n <= pos /\ pos <= pos'
        BY <1>7, <1>11, <3>1, <4>1
      <4> QED
        BY <1>3, <4>1, <4>2
    <3>4. PICK q : q = Placed(e, R, n)
      OBVIOUS
    <3>5. q.kind = "live" /\ q.nest = NestedIn(f.nest, t) \o R /\ q.low = f.low + n /\ q.look = << >> /\ q.mode = f.mode
      BY <1>3, <2>4, <3>4 DEF Placed
    <3>6. Tells(lv, q)'
      BY <1>6, <3>1, <3>2, <3>3, <3>5, TellsNext
    <3> QED
      BY <3>4, <3>6
  <2>9. todo' = b[1] \o todo
    BY <1>11, <2>1, <2>2, <2>6
  <2> QED
    BY <1>1, <1>2, <2>6, <2>7, <2>8, <2>9, InfixPushes
<1>12. CASE UNCHANGED <<drawn, base, pos, nest>> /\ todo' = rest
  <2>1. Shape /\ lv \in 1..3 /\ Facing(lv, i, T, k, R, n)
    BY GoingIs
  <2>2. pos <= pos' /\ (lv >= 2 => nest' = nest)
    BY <1>3, <1>12
  <2> QED
    BY <1>1, <1>3, <1>12, <2>1, <2>2, PassBlind
<1>13. LiteralAhead => Peek \in OpenBrace /\ Seen(1)
  <2>1. LiteralAhead => Peek \in OpenBrace
    BY Zenon DEF LiteralAhead, OpenBrace
  <2>2. Seen(Looks) /\ Looks \in {1, 2, 3}
    BY <1>2, Zenon DEF InfixRound, Now, Looks
  <2>3. Seen(1)
    <3>1. base \in Nat /\ pos \in Nat /\ Len(drawn) \in Nat
      BY <1>3, LenProperties DEF TypeOK
    <3> QED
      BY <2>2, <3>1 DEF Seen
  <2> QED
    BY <2>1, <2>3
<1>14. Jumping => Plain(Peek)
  BY Zenon DEF Jumping, Plain, Opening, Closing
<1>15. Ignored => UNCHANGED <<drawn, base, pos, nest>>
  BY DEF Ignored, cursor, account
<1>16. Stronger => Peek \in DOMAIN Power
  BY DEF Stronger
<1> QED
  BY <1>9, <1>10, <1>11, <1>12, <1>13, <1>14, <1>15, <1>16, Zenon DEF InfixRound

-----------------------------------------------------------------------------
(* Steps of what the functions put on the stack besides instructions.      *)

Under(lv, h, i, L) ==
  /\ L = Len(rest) /\ Chain(lv, rest, i) /\ rest \in Seq(Elems) /\ Len(todo) = L + 1 /\ L \in Nat
  /\ \A e \in 0..L : i[e] = h[e]
  /\ Elem(todo, L + 1) = ins /\ ins \in Elems /\ \A e \in 1..L : Elem(rest, e) = Elem(todo, e)
  /\ Link(lv, todo, h, L + 1) /\ h[L + 1] \in Points /\ h[L] \in Points /\ i[L] = h[L]
LEMMA UnderIs ==
  ASSUME TypeOK, todo # << >>, NEW lv, NEW h, Chain(lv, todo, h)
  PROVE  \E i : \E L \in Nat : Under(lv, h, i, L)
<1>1. todo \in Seq(Elems)
  BY SinceIs DEF TypeOK
<1>2. PICK L \in Nat : L = Len(rest)
  <2>1. rest \in Seq(Elems)
    BY <1>1, TailIs DEF rest
  <2> QED
    BY <2>1, LenProperties
<1>3. Len(todo) = L + 1 /\ rest = Sfx(todo, 1) /\ rest \in Seq(Elems) /\ todo = <<ins>> \o rest /\ ins \in Elems
  <2>1. Len(rest) = Len(todo) - 1 /\ Len(todo) \in Nat /\ rest = Sfx(todo, 1) /\ rest \in Seq(Elems)
        /\ todo = <<ins>> \o rest /\ ins \in Elems
    BY <1>1, TailIs, LenProperties DEF rest, ins
  <2> QED
    BY <1>2, <2>1
<1>4. 1 \in 0..Len(todo) /\ Len(todo) - 1 = L
  BY <1>3
<1>5. PICK j \in 0..Len(todo) : j = 1
  BY <1>4
<1>6. PICK i : Below(lv, todo, h, j, i)
  BY <1>1, ChainDrops
<1>7. Chain(lv, rest, i) /\ (\A e \in 0..L : i[e] = h[e])
  BY <1>3, <1>4, <1>5, <1>6 DEF Below
<1>8. \A e \in 1..L : Elem(rest, e) = Elem(todo, e)
  BY <1>1, <1>3, <1>4, ElemSfx
<1>9. Elem(todo, L + 1) = ins
  <2>1. L + 1 + 1 - (L + 1) = 1
    OBVIOUS
  <2> QED
    BY <1>3, <2>1 DEF Elem, ins
<1>10. L + 1 \in 1..Len(todo) /\ L + 1 \in 0..Len(todo) /\ L \in 0..Len(todo) /\ L \in 0..L
  BY <1>3
<1>11. Link(lv, todo, h, L + 1) /\ h[L + 1] \in Points /\ h[L] \in Points
  BY <1>10 DEF Chain
<1> QED
  BY <1>2, <1>3, <1>7, <1>8, <1>9, <1>10, <1>11 DEF Under

LEMMA StepLost ==
  ASSUME TypeOK, ~errs', NEW lv, NEW h, Chain(lv, todo, h), todo # << >>, h[Len(todo)].kind = "lost",
         Report \/ Advance
  PROVE  Good(lv)'
<1>1. PICK i : \E L \in Nat : Under(lv, h, i, L)
  BY UnderIs
<1>2. PICK L \in Nat : Under(lv, h, i, L)
  BY <1>1
<1>3. ~Report
  BY DEF Report, Reported
<1>4. Advance /\ ins.op = "advance" /\ todo' = rest
  BY <1>3 DEF Advance, Now
<1>5. i[L].kind = "lost"
  <2>1. Error.op = "emit"
    BY DEF Error
  <2>2. h[L + 1].kind = "lost" /\ Elem(todo, L + 1) = ins /\ Link(lv, todo, h, L + 1) /\ (L + 1) - 1 = L
    BY <1>2 DEF Under
  <2>3. h[L].kind = "lost"
    BY <1>4, <2>1, <2>2 DEF Link
  <2> QED
    BY <1>2, <2>3 DEF Under
<1> QED
  BY <1>2, <1>4, <1>5 DEF Under, Good, Tells, TellsOf

LEMMA StepBetween ==
  ASSUME Shape, NEW lv \in 1..3, NEW h, Chain(lv, todo, h), todo # << >>, h[Len(todo)].kind = "live",
         Tells(lv, h[Len(todo)]), Between(todo, h, Len(todo), ins, h[Len(todo)], h[Len(todo) - 1]), pos' \in Nat,
         NothingCaught \/ Succeed \/ Restore \/ GuardProgress \/ BlockGrown
  PROVE  Good(lv)'
<1>1. TypeOK /\ pos \in Nat
  BY DEF Shape, TypeOK
<1>2. PICK i : \E L \in Nat : Under(lv, h, i, L)
  BY <1>1, UnderIs
<1>3. PICK L \in Nat : Under(lv, h, i, L)
  BY <1>2
<1>4. PICK p \in Points : p = h[L + 1] /\ p = h[Len(todo)]
  BY <1>3 DEF Under
<1>5. L = Len(rest) /\ Chain(lv, rest, i) /\ rest \in Seq(Elems) /\ h[Len(todo) - 1] = i[L] /\ ins \in Elems
      /\ Len(todo) = L + 1
  <2>1. (L + 1) - 1 = L
    OBVIOUS
  <2> QED
    BY <1>3, <2>1 DEF Under
<1>6. p.kind = "live" /\ Tells(lv, p) /\ Leads(p, i[L]) /\ p.low \in Nat /\ p.low <= pos
  <2>1. p.kind = "live" /\ Tells(lv, p) /\ Leads(p, i[L])
    BY <1>4, <1>5 DEF Between
  <2> QED
    BY <2>1 DEF Points, Tells, TellsOf
<1>7. Ignored
  <2>1. CASE GuardProgress
    <3>1. ins.op = "guard"
      BY <2>1 DEF GuardProgress, Now
    <3>2. ins.from < p.low /\ ins.from \in Nat
      BY <1>4, <1>5, <3>1, ElemKinds DEF Between, Guards
    <3>3. pos # ins.from
      BY <1>1, <1>6, <3>2
    <3> QED
      BY <2>1, <3>3 DEF GuardProgress
  <2> QED
    BY <2>1 DEF NothingCaught, Succeed, Restore, BlockGrown
<1>8. UNCHANGED <<drawn, base, pos, nest>>
  BY <1>7 DEF Ignored, cursor, account
<1>9. Tells(lv, p)'
  BY <1>6, <1>8, LookingKept, TellsKept
<1>10. CASE todo' = rest
  <2>1. PICK t \in Seq(Elems) : t = rest
    BY <1>5
  <2>2. Chain(lv, t, i) /\ todo' = t /\ Leads(p, i[Len(t)])
    BY <1>5, <1>6, <1>10, <2>1
  <2> QED
    BY <1>6, <1>9, <2>2, Stops
<1>11. CASE BlockGrown /\ todo' = Left(rest)
  <2>1. ins.op = "grown"
    BY <1>11 DEF BlockGrown, Now
  <2>2. todo \in Seq(Elems) /\ Looped(todo, 1)
    <3>1. todo \in Seq(Elems) /\ Stack(todo)
      BY <1>1, SinceIs DEF Shape, TypeOK
    <3>2. 1 \in 1..Len(todo)
      BY <1>5
    <3> QED
      BY <2>1, <3>1, <3>2 DEF Stack, Rests, ins
  <2>3. PICK j \in 1..(Len(todo) - 1) : Nearest(todo, Len(todo), {"loop"}, j) /\ Leads(p, h[j - 1])
    BY <1>4, <2>1 DEF Between
  <2>4. j \in 1..Len(rest) /\ Nearest(rest, Len(rest) + 1, {"loop"}, j)
    <3>1. (L + 1) - 1 = L
      OBVIOUS
    <3>2. j \in 1..L /\ Elem(todo, j).op \in {"loop"} /\ \A e \in (j + 1)..L : Elem(todo, e).op \notin {"loop"}
      BY <1>5, <2>3, <3>1 DEF Nearest
    <3>3. \A e \in 1..L : Elem(rest, e) = Elem(todo, e)
      BY <1>3 DEF Under
    <3>4. \A e \in (j + 1)..L : e \in 1..L
      BY <3>2
    <3> QED
      BY <1>5, <3>1, <3>2, <3>3, <3>4 DEF Nearest
  <2>5. i[j - 1] = h[j - 1]
    <3>1. j - 1 \in 0..L
      BY <1>5, <2>4
    <3> QED
      BY <1>3, <3>1 DEF Under
  <2> QED
    BY <1>5, <1>6, <1>9, <1>11, <2>2, <2>3, <2>4, <2>5, LeavesLoop
<1>12. Restore => todo' = rest
  <2>1. Restore => ins.op = "restore" /\ ~ins.failed
    BY DEF Restore, Now, Between
  <2> QED
    BY <2>1 DEF Restore
<1> QED
  BY <1>10, <1>11, <1>12 DEF NothingCaught, Succeed, GuardProgress, BlockGrown

LEMMA BlankLeads ==
  ASSUME NEW p \in Points, NEW q, Leads(p, q), p.look = << >>
  PROVE  Leads(Blind(p), q)
<1>1. /\ Blind(p).kind = p.kind /\ Blind(p).nest = p.nest /\ Blind(p).low = p.low /\ Blind(p).look = << >>
      /\ Blind(p).mode = p.mode
  BY DEF Blind, Points
<1> QED
  BY <1>1 DEF Leads

\* What the look ahead needs to know it knows without a look.
LEMMA ScanPoint ==
  ASSUME Shape, NEW lv \in 1..3, NEW h, NEW L \in Nat, NEW i, Under(lv, h, i, L), h[L + 1].kind = "live", ins.op = "scan",
         Tells(lv, h[L + 1]), UNCHANGED <<drawn, base, pos, nest>>
  PROVE  \E p \in Points : p.kind = "live" /\ p.look = << >> /\ Tells(lv, p)' /\ Leads(p, i[L])
<1>1. /\ h[L + 1] \in Points /\ i[L] = h[L] /\ h[L] \in Points /\ Elem(todo, L + 1) = ins
      /\ Link(lv, todo, h, L + 1) /\ (L + 1) - 1 = L
  BY DEF Under
<1>2. PICK a \in Points : a = h[L + 1]
  BY <1>1
<1>3. PICK p : p = Blind(a)
  OBVIOUS
<1>4. /\ p.kind = "live" /\ p.nest = a.nest /\ p.low = a.low /\ p.look = << >> /\ p.mode = a.mode
  BY <1>2, <1>3 DEF Blind, Points
<1>5. p \in Points
  <2>1. << >> \in Seq(SUBSET STRING)
    OBVIOUS
  <2> QED
    BY <1>3, <2>1 DEF Blind, Points
<1>6. Tells(lv, p)
  BY <1>2, <1>4, BlankAhead DEF Tells, TellsOf
<1>7. Tells(lv, p)'
  BY <1>6, LookingKept, TellsKept
<1>8. Leads(p, h[L])
  <2>1. CASE Leads(Blind(h[L + 1]), h[L])
    BY <1>2, <1>3, <2>1
  <2>2. CASE Code(lv, todo, h, L + 1)
    <3>1. PICK T \in Typed : \E k \in 1..Len(T.seq) : \E R \in Seq(Closing) : \E n \in Nat : Stood(lv, todo, h, L + 1, T, k, R, n)
      BY <2>2 DEF Code
    <3>2. PICK k \in 1..Len(T.seq) : \E R \in Seq(Closing) : \E n \in Nat : Stood(lv, todo, h, L + 1, T, k, R, n)
      BY <3>1
    <3>3. PICK R \in Seq(Closing) : \E n \in Nat : Stood(lv, todo, h, L + 1, T, k, R, n)
      BY <3>2
    <3>4. PICK n \in Nat : Stood(lv, todo, h, L + 1, T, k, R, n)
      BY <3>3
    <3>5. ins = T.seq[k] /\ Leads(h[L + 1], Placed(Known(T, k), R, n)) /\ Leads(Placed(T.at[k + 1], R, n), h[L])
      BY <1>1, <3>4 DEF Stood
    <3>6. T.at[k] \in Facts /\ T.at[k + 1] \in Facts /\ DOMAIN T.seq = 1..Len(T.seq)
      <4>1. Len(T.seq) \in Nat /\ T.seq \in Seq(Instructions)
        BY TypedIs
      <4>2. k \in 1..(Len(T.seq) + 1) /\ k + 1 \in 1..(Len(T.seq) + 1)
        BY <4>1
      <4> QED
        BY <4>1, <4>2, TypedIs, LenProperties
    <3>7. PICK f \in Facts : f = T.at[k]
      BY <3>6
    <3>8. PICK g \in Facts : g = T.at[k + 1]
      BY <3>6
    <3>9. Known(T, k) = f
      BY <3>5, <3>7 DEF Known
    <3>10. PICK q : q = Placed(f, R, n)
      OBVIOUS
    <3>11. q.kind = f.kind /\ q.nest = f.nest \o R /\ q.low = f.low + n /\ q.look = f.look /\ q.mode = f.mode
      BY <3>10 DEF Placed
    <3>12. Leads(a, q)
      BY <1>2, <3>5, <3>9, <3>10
    <3>13. f.kind = "live" /\ a.nest = q.nest /\ q.low <= a.low /\ (q.mode = "loose" => a.mode = "loose")
      BY <1>2, <3>11, <3>12 DEF Leads
    <3>14. Leads(Blind(f), g)
      <4>1. Step(T.at[k], T.seq[k], T.at[k + 1])
        BY <3>6, <3>7, <3>13, Disciplined
      <4> QED
        BY <3>5, <3>7, <3>8, <4>1 DEF Step
    <3>15. PICK b \in Facts : b = Blind(f)
      BY BlindIs
    <3>16. b.kind = "live" /\ b.nest = f.nest /\ b.low = f.low /\ b.look = << >> /\ b.mode = f.mode
      BY <3>13, <3>15, BlindIs
    <3>17. PICK c : c = Placed(b, R, n)
      OBVIOUS
    <3>18. c.kind = "live" /\ c.nest = f.nest \o R /\ c.low = f.low + n /\ c.look = << >> /\ c.mode = f.mode
      BY <3>16, <3>17 DEF Placed
    <3>19. Leads(p, c)
      BY <1>4, <3>11, <3>13, <3>18 DEF Leads
    <3>20. Leads(c, Placed(g, R, n))
      <4>1. b.nest \in Seq(Closing) /\ b.low \in Nat /\ g.nest \in Seq(Closing) /\ g.low \in Nat
        BY DEF Facts
      <4> QED
        BY <3>14, <3>15, <3>17, <4>1, LeadsPlaced
    <3>21. p.low \in Nat /\ c.low \in Nat /\ Placed(g, R, n).low \in Nat /\ h[L].low \in Nat
      <4>1. c \in Points /\ Placed(g, R, n) \in Points
        BY <3>17, PlacedPoint
      <4> QED
        BY <1>1, <1>5, <4>1 DEF Points
    <3>22. PICK e : e = Placed(g, R, n)
      OBVIOUS
    <3>23. Leads(c, e) /\ Leads(e, h[L]) /\ e.low \in Nat
      BY <3>5, <3>8, <3>20, <3>21, <3>22
    <3>24. Leads(p, e)
      BY <3>19, <3>21, <3>23, LeadsTrans
    <3> QED
      BY <3>21, <3>23, <3>24, LeadsTrans
  <2>3. ~Between(todo, h, L + 1, ins, h[L + 1], h[L])
    BY DEF Between
  <2> QED
    BY <1>1, <2>1, <2>2, <2>3 DEF Link
<1> QED
  BY <1>1, <1>4, <1>5, <1>7, <1>8

LEMMA StepScan ==
  ASSUME Shape, NEW lv \in 1..3, NEW h, Chain(lv, todo, h), h[Len(todo)].kind = "live",
         Tells(lv, h[Len(todo)]), pos' \in Nat, LambdaResult
  PROVE  Good(lv)'
<1>1. TypeOK
  BY DEF Shape
<1>2. /\ todo # << >> /\ ins.op = "scan" /\ UNCHANGED <<drawn, base, pos, nest>>
      /\ \/ todo' = rest
         \/ \E x \in Scans : todo' = <<x>> \o rest
         \/ \E n \in Nat : todo' = [k \in 1..n |-> Adv] \o <<Error>> \o rest
  <2>1. Ignored
    BY DEF LambdaResult
  <2> QED
    BY <1>1, <2>1, ScanMoves DEF Ignored, cursor, account
<1>3. PICK i : \E L \in Nat : Under(lv, h, i, L)
  BY <1>1, <1>2, UnderIs
<1>4. PICK L \in Nat : Under(lv, h, i, L)
  BY <1>3
<1>5. L = Len(rest) /\ Chain(lv, rest, i) /\ rest \in Seq(Elems) /\ Len(todo) = L + 1
  BY <1>4 DEF Under
<1>6. PICK p \in Points : p.kind = "live" /\ p.look = << >> /\ Tells(lv, p)' /\ Leads(p, i[L])
  BY <1>2, <1>4, <1>5, ScanPoint
<1>7. PICK t \in Seq(Elems) : t = rest
  BY <1>5
<1>8. Chain(lv, t, i) /\ L = Len(t) /\ Leads(p, i[Len(t)])
  BY <1>5, <1>6, <1>7
<1>9. CASE todo' = rest
  BY <1>6, <1>7, <1>8, <1>9, Stops
<1>10. ASSUME NEW x \in Scans, todo' = <<x>> \o rest PROVE Good(lv)'
  <2>1. x \in Elems /\ x.op = "scan"
    BY DEF Elems, Scans
  <2>2. Joins(lv, t, i, x, p)
    <3> SUFFICES ASSUME NEW g, Topped(t, i, x, p, g) PROVE Link(lv, <<x>> \o t, g, Len(t) + 1)
      BY DEF Joins
    <3>1. Len(t) \in 0..Len(t) /\ (Len(t) + 1) - 1 = Len(t)
      BY LenProperties
    <3>2. g[(Len(t) + 1) - 1] = i[Len(t)] /\ g[Len(t) + 1] = p /\ Elem(<<x>> \o t, Len(t) + 1) = x
      BY <3>1 DEF Topped, Agree
    <3>3. Leads(Blind(p), i[Len(t)])
      BY <1>6, <1>8, BlankLeads
    <3> QED
      BY <1>6, <2>1, <3>2, <3>3 DEF Link
  <2>3. PICK g : Grown(lv, t, i, x, p, g)
    BY <1>8, <2>1, <2>2, ChainGrows
  <2>4. PICK u : u = <<x>> \o t
    OBVIOUS
  <2>5. u \in Seq(Elems) /\ Chain(lv, u, g) /\ g[Len(u)] = p /\ todo' = u
    BY <1>7, <1>10, <2>3, <2>4 DEF Grown
  <2> QED
    BY <1>6, <2>5 DEF Good
<1>11. ASSUME NEW n \in Nat, todo' = [k \in 1..n |-> Adv] \o <<Error>> \o rest PROVE Good(lv)'
  <2>1. PICK a : a = [k \in 1..n |-> Adv]
    OBVIOUS
  <2>2. a \in Seq(Elems) /\ Len(a) = n /\ \A k \in 1..n : a[k] = Adv
    <3>1. Adv \in Elems
      BY Closed DEF Elems
    <3> QED
      BY <2>1, <3>1
  <2>3. Error \in Elems /\ Adv.op \notin {"mark", "undo"} /\ Error.op \notin {"mark", "undo"}
    BY Closed DEF Elems, Adv, Error
  <2>4. PICK b \in Seq(Elems) : b = <<Error>> /\ Len(b) = 1 /\ b[1] = Error
    BY <2>3, OneIs
  <2>5. PICK s \in Seq(Elems) : s = a \o b
    BY <2>2, <2>4, CatIs
  <2>6. /\ Len(s) = n + 1 /\ (\A k \in 1..n : s[k] = Adv) /\ s[n + 1] = Error
    <3>0. PICK c \in Seq(Elems) : c = a
      BY <2>2
    <3>1. Len(s) = Len(a) + Len(b) /\ (\A k \in 1..Len(a) : s[k] = a[k]) /\ \A k \in 1..Len(b) : s[k + Len(a)] = b[k]
      <4>1. /\ Len(c \o b) = Len(c) + Len(b) /\ (\A k \in 1..Len(c) : (c \o b)[k] = c[k])
            /\ \A k \in 1..Len(b) : (c \o b)[k + Len(c)] = b[k]
        BY CatIs
      <4> QED
        BY <2>5, <3>0, <4>1
    <3>2. 1 \in 1..1 /\ 1 + n = n + 1
      OBVIOUS
    <3> QED
      BY <2>2, <2>4, <3>1, <3>2
  <2>7. todo' = s \o t
    <3>1. todo' = a \o b \o t
      BY <1>7, <1>11, <2>1, <2>4
    <3> QED
      BY <2>5, <3>1
  <2>8. \A k \in 1..Len(s) : s[k] = Error \/ (s[k] = Adv /\ k < Len(s))
    BY <2>6
  <2>9. \A k \in 1..Len(s) : s[k].op \in {"mark", "undo"} => ~s[k].errs /\ ~Clean(lv, s[k].events)
    BY <2>3, <2>8
  <2>10. PICK q \in {Nowhere, Lost} : q = Lost
    OBVIOUS
  <2>11. PICK g : Chain(lv, s \o t, g) /\ (s # << >> => g[Len(s \o t)] = q)
    <3>1. t \in Seq(Elems) /\ Chain(lv, t, i) /\ s \in Seq(Elems) /\ q \in {Nowhere, Lost}
      BY <1>8, <2>5, <2>10
    <3>2. SavesDirt(lv, s) /\ EndsInError(s)
      BY <2>8, <2>9 DEF SavesDirt, EndsInError
    <3>3. PICK g : OverlaidBy(lv, s, t, i, q, g)
      BY <3>1, <3>2, Overlaid, Zenon
    <3> QED
      BY <3>3, Zenon DEF OverlaidBy
  <2>12. s # << >>
    BY <2>6
  <2>13. PICK u : u = s \o t
    OBVIOUS
  <2>14. todo' = u /\ Chain(lv, u, g) /\ g[Len(u)].kind = "lost"
    BY <2>7, <2>10, <2>11, <2>12, <2>13, AtEnds
  <2> QED
    BY <2>14 DEF Good, Tells, TellsOf
<1> QED
  BY <1>2, <1>9, <1>10, <1>11

LEMMA StepUndo ==
  ASSUME Shape, NEW lv \in 1..3, ~errs, NEW h, Chain(lv, todo, h), Clean(lv, events'), Undo
  PROVE  Good(lv)'
<1>1. TypeOK /\ todo # << >> /\ ins.op = "undo" /\ todo' = rest /\ pos' = ins.pos
  BY DEF Shape, Undo, Now
<1>2. PICK i : \E L \in Nat : Under(lv, h, i, L)
  BY <1>1, UnderIs
<1>3. PICK L \in Nat : Under(lv, h, i, L)
  BY <1>2
<1>4. /\ L = Len(rest) /\ Chain(lv, rest, i) /\ Link(lv, todo, h, L + 1) /\ Elem(todo, L + 1) = ins
      /\ i[L] = h[(L + 1) - 1]
  <2>1. (L + 1) - 1 = L
    OBVIOUS
  <2> QED
    BY <1>3, <2>1 DEF Under
<1>5. ~ins.errs /\ (Clean(lv, ins.events) => Told(lv, ins, i[L]))
  BY <1>1, <1>4 DEF Link
<1>6. ins.events \subseteq events' /\ nest' = ins.nest
  BY <1>5 DEF Undo
<1>7. Told(lv, ins, i[L])
  BY <1>5, <1>6 DEF Clean
<1>8. Tells(lv, i[L])'
  BY <1>1, <1>6, <1>7, BlankAhead DEF Told, Tells, TellsOf
<1> QED
  BY <1>1, <1>4, <1>8 DEF Good

LEMMA StepLex ==
  ASSUME Shape, NEW lv \in 1..3, NEW h, Chain(lv, todo, h), Tells(lv, h[Len(todo)]), Lex \/ UNCHANGED vars
  PROVE  Good(lv)'
<1>1. TypeOK
  BY DEF Shape
<1>2. todo' = todo /\ pos' = pos /\ nest' = nest /\ \A l \in Looking : (l \in Looking)'
  <2>1. CASE Lex
    BY <1>1, <2>1, LexIs, LookingLexed DEF account
  <2>2. CASE UNCHANGED vars
    <3>1. UNCHANGED <<drawn, base, pos>> /\ todo' = todo /\ nest' = nest
      BY <2>2 DEF vars, cursor, account
    <3> QED
      BY <3>1, LookingKept
  <2> QED
    BY <2>1, <2>2
<1>3. PICK p : p = h[Len(todo)]
  OBVIOUS
<1>4. Tells(lv, p)'
  BY <1>2, <1>3, TellsKept
<1>5. PICK t : t = todo
  OBVIOUS
<1>6. Chain(lv, t, h) /\ p = h[Len(t)] /\ todo' = t
  BY <1>2, <1>3, <1>5
<1> QED
  BY <1>4, <1>6 DEF Good

-----------------------------------------------------------------------------
(* What is known is known in every state.                                  *)

CodeMoves ==
  \/ Expect \/ ExpectQuietly \/ EatIf \/ EatNoted \/ CloseOrReport \/ Advance \/ Report \/ GiveUp
  \/ SkipToSync \/ GenericClose \/ LookAhead \/ MatchToken \/ SetVal \/ NoteTier \/ AskVal
  \/ CallRule \/ ParseBp \/ InfixRound \/ Repeat \/ BreakOut \/ Handle \/ NotePosition \/ Limit
  \/ Attempt \/ BlockItem \/ ItemMade
FrameMoves == NothingCaught \/ Succeed \/ Restore \/ GuardProgress \/ BlockGrown

LEMMA MoveKinds ==
  /\ [Next]_vars => CodeMoves \/ FrameMoves \/ LambdaResult \/ Undo \/ Lex \/ UNCHANGED vars
  /\ CodeMoves => todo # << >> /\ ins.op \in Kinds \ {"scan"}
  /\ CodeMoves /\ ins.op \in {"emit", "advance"} => Report \/ Advance
  /\ FrameMoves => todo # << >> /\ ins.op \in {"caught", "mark", "restore", "guard", "grown"}
  /\ LambdaResult => todo # << >> /\ ins.op = "scan"
  /\ Undo => todo # << >> /\ ins.op = "undo"
  /\ Lex => todo # << >>
<1> DEFINE S == {"expect", "quiet", "eat", "noted", "close", "advance", "emit", "fail", "skip", "gclose", "if", "switch", "val", "note", "ifval", "call", "bp", "infix", "loop", "break", "catch", "advancing", "nsl", "speculate", "item", "made"}
<1>1. Expect => todo # << >> /\ ins.op = "expect"
  BY DEF Expect, Now
<1>2. ExpectQuietly => todo # << >> /\ ins.op = "quiet"
  BY DEF ExpectQuietly, Now
<1>3. EatIf => todo # << >> /\ ins.op = "eat"
  BY DEF EatIf, Now
<1>4. EatNoted => todo # << >> /\ ins.op = "noted"
  BY DEF EatNoted, Now
<1>5. CloseOrReport => todo # << >> /\ ins.op = "close"
  BY DEF CloseOrReport, Now
<1>6. Advance => todo # << >> /\ ins.op = "advance"
  BY DEF Advance, Now
<1>7. Report => todo # << >> /\ ins.op = "emit"
  BY DEF Report, Now
<1>8. GiveUp => todo # << >> /\ ins.op = "fail"
  BY DEF GiveUp, Now
<1>9. SkipToSync => todo # << >> /\ ins.op = "skip"
  BY DEF SkipToSync, Now
<1>10. GenericClose => todo # << >> /\ ins.op = "gclose"
  BY DEF GenericClose, Now
<1>11. LookAhead => todo # << >> /\ ins.op = "if"
  BY Zenon DEF LookAhead, Now
<1>12. MatchToken => todo # << >> /\ ins.op = "switch"
  BY Zenon DEF MatchToken, Now
<1>13. SetVal => todo # << >> /\ ins.op = "val"
  BY DEF SetVal, Now
<1>14. NoteTier => todo # << >> /\ ins.op = "note"
  BY DEF NoteTier, Now
<1>15. AskVal => todo # << >> /\ ins.op = "ifval"
  BY DEF AskVal, Now
<1>16. CallRule => todo # << >> /\ ins.op = "call"
  BY DEF CallRule, Now
<1>17. ParseBp => todo # << >> /\ ins.op = "bp"
  BY DEF ParseBp, Now
<1>18. InfixRound => todo # << >> /\ ins.op = "infix"
  BY DEF InfixRound, Now
<1>19. Repeat => todo # << >> /\ ins.op = "loop"
  BY DEF Repeat, Now
<1>20. BreakOut => todo # << >> /\ ins.op = "break"
  BY DEF BreakOut, Now
<1>21. Handle => todo # << >> /\ ins.op = "catch"
  BY DEF Handle, Now
<1>22. NotePosition => todo # << >> /\ ins.op = "advancing"
  BY DEF NotePosition, Now
<1>23. Limit => todo # << >> /\ ins.op = "nsl"
  BY DEF Limit, Now
<1>24. Attempt => todo # << >> /\ ins.op = "speculate"
  BY DEF Attempt, Now
<1>25. BlockItem => todo # << >> /\ ins.op = "item"
  BY DEF BlockItem, Now
<1>26. ItemMade => todo # << >> /\ ins.op = "made"
  BY DEF ItemMade, Now
<1>50. CodeMoves => todo # << >> /\ ins.op \in S
  BY <1>1, <1>2, <1>3, <1>4, <1>5, <1>6, <1>7, <1>8, <1>9, <1>10, <1>11, <1>12, <1>13, <1>14, <1>15, <1>16, <1>17, <1>18, <1>19, <1>20, <1>21, <1>22, <1>23, <1>24, <1>25, <1>26 DEF CodeMoves
<1>51. S \subseteq Kinds \ {"scan"}
  BY DEF Kinds
<1>52. CodeMoves /\ ins.op \in {"emit", "advance"} => Report \/ Advance
  BY <1>1, <1>2, <1>3, <1>4, <1>5, <1>6, <1>7, <1>8, <1>9, <1>10, <1>11, <1>12, <1>13, <1>14, <1>15, <1>16, <1>17, <1>18, <1>19, <1>20, <1>21, <1>22, <1>23, <1>24, <1>25, <1>26 DEF CodeMoves
<1>53. FrameMoves => todo # << >> /\ ins.op \in {"caught", "mark", "restore", "guard", "grown"}
  BY DEF FrameMoves, NothingCaught, Succeed, Restore, GuardProgress, BlockGrown, Now
<1>54. (LambdaResult => todo # << >> /\ ins.op = "scan") /\ (Undo => todo # << >> /\ ins.op = "undo") /\ (Lex => todo # << >>)
  BY DEF LambdaResult, Undo, Lex, Now
<1>55. [Next]_vars => CodeMoves \/ FrameMoves \/ LambdaResult \/ Undo \/ Lex \/ UNCHANGED vars
  BY DEF Next, CodeMoves, FrameMoves
<1> HIDE DEF S
<1> QED
  BY <1>50, <1>51, <1>52, <1>53, <1>54, <1>55

LEMMA StepCode ==
  ASSUME NEW lv, NEW i, NEW T, NEW k, NEW R \in Seq(Closing), NEW n \in Nat, Going(lv, i, T, k, R, n), CodeMoves
  PROVE  Good(lv)'
<1>1. Expect \/ ExpectQuietly \/ CloseOrReport => Good(lv)'
  BY StepExpect
<1>2. EatIf => Good(lv)'
  BY StepEat
<1>3. EatNoted => Good(lv)'
  BY StepNoted
<1>4. Advance => Good(lv)'
  BY StepAdvance
<1>5. Report \/ SkipToSync => Good(lv)'
  BY StepReport
<1>6. GiveUp => Good(lv)'
  BY StepFail
<1>7. GenericClose => Good(lv)'
  BY StepClose
<1>8. LookAhead \/ MatchToken \/ AskVal => Good(lv)'
  BY StepIf
<1>9. SetVal \/ NoteTier \/ ItemMade => Good(lv)'
  BY StepVal
<1>10. CallRule \/ ParseBp => Good(lv)'
  BY StepCall
<1>11. InfixRound => Good(lv)'
  BY StepInfix
<1>12. Repeat => Good(lv)'
  BY StepRepeat
<1>13. BreakOut => Good(lv)'
  BY StepBreak
<1>14. Handle => Good(lv)'
  BY StepHandle
<1>15. NotePosition => Good(lv)'
  BY StepNotePosition
<1>16. Limit => Good(lv)'
  BY StepLimit
<1>17. Attempt => Good(lv)'
  BY StepAttempt
<1>18. BlockItem => Good(lv)'
  BY StepBlockItem
<1> QED
  BY <1>1, <1>2, <1>3, <1>4, <1>5, <1>6, <1>7, <1>8, <1>9, <1>10, <1>11, <1>12, <1>13, <1>14, <1>15, <1>16, <1>17, <1>18 DEF CodeMoves

LEMMA ErrsStay == ASSUME TypeOK, [Next]_vars, ~errs' PROVE ~errs
<1>1. Reads
  BY CursorMoves
<1>2. Lex => errs' = errs
  BY LexIs DEF account
<1>3. Undo => errs' = errs
  BY DEF Undo
<1>4. errs \in BOOLEAN
  BY DEF TypeOK
<1> QED
  BY <1>1, <1>2, <1>3, <1>4 DEF Reads, Ignored, account, Took, Reported, Saw

LEMMA GoodStep ==
  ASSUME Shape, [Next]_vars, ~errs', NEW lv \in 1..3, Good(lv)
  PROVE  Good(lv)'
<1>1. TypeOK /\ ~errs /\ pos' \in Nat /\ todo \in Seq(Elems)
  BY ErrsStay, TypeMoves, SinceIs DEF Shape, TypeOK
<1>2. CASE ~Clean(lv, events')
  BY <1>1, <1>2, Dirtied
<1>3. PICK h : Chain(lv, todo, h) /\ (Clean(lv, events) => Tells(lv, h[Len(todo)]))
  BY DEF Good
<1>4. CASE Clean(lv, events') /\ Undo
  BY <1>1, <1>3, <1>4, StepUndo
<1>5. CASE Clean(lv, events') /\ ~Undo
  <2>1. Tells(lv, h[Len(todo)])
    BY <1>1, <1>3, <1>5, EventsGrow
  <2>2. CASE Lex \/ UNCHANGED vars
    BY <1>3, <2>1, <2>2, StepLex
  <2>3. CASE ~(Lex \/ UNCHANGED vars)
    <3>1. todo # << >> /\ (CodeMoves \/ FrameMoves \/ LambdaResult)
      BY <1>5, <2>3, MoveKinds
    <3>2. PICK i : \E L \in Nat : Under(lv, h, i, L)
      BY <1>1, <1>3, <3>1, UnderIs
    <3>3. PICK L \in Nat : Under(lv, h, i, L)
      BY <3>2
    <3>4. /\ Link(lv, todo, h, Len(todo)) /\ Elem(todo, Len(todo)) = ins /\ ins \in Elems
      BY <3>3 DEF Under
    <3>5. h[Len(todo)].kind \in {"live", "lost"}
      BY <2>1 DEF Tells, TellsOf
    <3>6. CASE h[Len(todo)].kind = "lost"
      <4>1. ins.op = "undo" \/ ins = Error \/ ins = Adv
        BY <3>4, <3>6 DEF Link
      <4>2. ins.op \in {"undo", "emit", "advance"}
        BY <4>1 DEF Error, Adv
      <4>3. Report \/ Advance
        BY <3>1, <4>2, MoveKinds DEF Kinds
      <4> QED
        BY <1>1, <1>3, <3>1, <3>6, <4>3, StepLost
    <3>7. CASE h[Len(todo)].kind = "live" /\ CodeMoves
      <4>1. ins.op \in Kinds \ {"scan"}
        BY <3>7, MoveKinds
      <4>2. PICK g, T, k, R, n : Facing(lv, g, T, k, R, n)
        BY <1>3, <2>1, <3>1, <3>7, <4>1, TopFacing
      <4>3. R \in Seq(Closing) /\ n \in Nat
        BY <4>2 DEF Facing
      <4>4. Going(lv, g, T, k, R, n)
        BY <1>1, <1>5, <4>2 DEF Going
      <4> QED
        BY <3>7, <4>3, <4>4, StepCode
    <3>8. CASE h[Len(todo)].kind = "live" /\ FrameMoves
      <4>1. ins.op \in {"caught", "mark", "restore", "guard", "grown"}
        BY <3>8, MoveKinds
      <4>2. ~Code(lv, todo, h, Len(todo))
        <5>1. SUFFICES ASSUME Code(lv, todo, h, Len(todo)) PROVE FALSE
          OBVIOUS
        <5>2. PICK T \in Typed : \E k \in 1..Len(T.seq) : ins = T.seq[k]
          BY <3>4, <5>1 DEF Code, Stood
        <5>3. ins \in Instructions
          BY <5>2, TypedIs, ElementOfSeq
        <5> QED
          BY <4>1, <5>3, PlainKinds
      <4>3. Between(todo, h, Len(todo), ins, h[Len(todo)], h[Len(todo) - 1])
        BY <3>4, <3>8, <4>1, <4>2 DEF Link
      <4> QED
        BY <1>1, <1>3, <2>1, <3>1, <3>8, <4>3, StepBetween DEF FrameMoves
    <3>9. CASE h[Len(todo)].kind = "live" /\ LambdaResult
      BY <1>1, <1>3, <2>1, <3>9, StepScan
    <3> QED
      BY <3>1, <3>5, <3>6, <3>7, <3>8, <3>9
  <2> QED
    BY <2>2, <2>3
<1> QED
  BY <1>2, <1>4, <1>5

LEMMA GoodInit == ASSUME Init, NEW lv \in 1..3 PROVE Good(lv)
<1>1. PICK T \in Typed : T.seq = Program /\ T.at[1] = Start /\ Final(T.at).kind = "live" /\ Final(T.at).nest = << >>
  BY Complete
<1>2. PICK R \in Seq(Closing) : R = << >>
  <2>1. << >> \in Seq(Closing)
    OBVIOUS
  <2> QED
    BY <2>1
<1>3. PICK t \in Seq(Elems) : t = << >> /\ Len(t) = 0
  <2>1. << >> \in Seq(Elems) /\ Len(<< >>) = 0
    OBVIOUS
  <2> QED
    BY <2>1
<1>4. T.at[1] \in Facts /\ Final(T.at) \in Facts /\ T.seq \in Seq(Instructions)
  <2>1. Len(T.seq) \in Nat
    BY TypedIs
  <2>2. 1 \in 1..(Len(T.seq) + 1) /\ Len(T.seq) + 1 \in 1..(Len(T.seq) + 1)
    BY <2>1
  <2> QED
    BY <2>2, TypedIs
<1>5. PICK f \in Facts : f = T.at[1]
  BY <1>4
<1>6. PICK g \in Facts : g = Final(T.at)
  BY <1>4
<1>7. 0 \in Nat
  OBVIOUS
<1>8. PICK n \in Nat : n = 0
  BY <1>7
<1>9. PICK p \in Points : p = Placed(g, R, n)
  BY PlacedPoint
<1>10. p.kind = "live" /\ p.nest = << >> /\ Leads(p, p)
  <2>1. p.kind = "live" /\ p.nest = << >> \o << >>
    BY <1>1, <1>2, <1>6, <1>9 DEF Placed
  <2>2. << >> \o << >> = << >>
    OBVIOUS
  <2> QED
    BY <1>9, <2>1, <2>2, PlacedSame
<1>11. PICK h : h = [d \in 0..0 |-> p]
  OBVIOUS
<1>12. Chain(lv, t, h) /\ h[Len(t)] = p
  <2>1. h[0] = p /\ h \in [0..Len(t) -> Points] /\ h[Len(t)] = p
    BY <1>3, <1>11
  <2>2. 1..Len(t) = {}
    BY <1>3
  <2> QED
    BY <1>10, <2>1, <2>2 DEF Chain
<1>13. f.sp = FALSE /\ f.out = {} /\ f.mode = "free" /\ f.kind = "live" /\ f.nest = << >> /\ f.low = 0 /\ f.look = << >>
  BY <1>1, <1>5 DEF Start
<1>14. Allowed(lv, t, h, Len(t) + 1, f, R, n)
  <2>1. 1..((Len(t) + 1) - 1) = {}
    BY <1>3
  <2> QED
    BY <1>13, <2>1 DEF Allowed
<1>15. PICK i : Chain(lv, T.seq \o t, i) /\ Leads(Placed(f, R, n), i[Len(T.seq \o t)])
  <2>1. Leads(Placed(Final(T.at), R, n), h[Len(t)])
    BY <1>6, <1>9, <1>10, <1>12
  <2> QED
    BY <1>5, <1>12, <1>14, <2>1, Pushed
<1>16. T.seq \o t = todo
  BY <1>1, <1>3, <1>4 DEF Init
<1>17. PICK q \in Points : q = Placed(f, R, n)
  BY PlacedPoint
<1>18. q.kind = "live" /\ q.nest = << >> /\ q.low = 0 /\ q.look = << >> /\ q.mode = "free"
  <2>1. q.kind = "live" /\ q.nest = << >> \o << >> /\ q.low = 0 + 0 /\ q.look = << >> /\ q.mode = "free"
    BY <1>2, <1>8, <1>13, <1>17, Zenon DEF Placed
  <2>2. << >> \o << >> = << >> /\ 0 + 0 = 0
    OBVIOUS
  <2> QED
    BY <2>1, <2>2
<1>19. Tells(lv, q)
  <2>1. pos = 0 /\ nest = << >>
    BY DEF Init
  <2> QED
    BY <1>18, <2>1, BlankAhead DEF Tells, TellsOf
<1>20. Chain(lv, todo, i) /\ Leads(q, i[Len(todo)])
  BY <1>15, <1>16, <1>17
<1>21. i[Len(todo)] \in Points
  <2>1. Len(todo) \in 0..Len(todo)
    BY <1>4, <1>1, LenProperties DEF Init
  <2> QED
    BY <1>20, <2>1 DEF Chain
<1>22. Tells(lv, i[Len(todo)])
  <2>1. pos \in Nat
    BY DEF Init
  <2> QED
    BY <1>18, <1>19, <1>20, <1>21, <2>1, LeadsTells, BlankAhead DEF Tells
<1> QED
  BY <1>20, <1>22 DEF Good

Sound == Shape /\ (errs \/ \A lv \in 1..3 : Good(lv))

LEMMA SoundAlways == Spec => []Sound
<1>1. Init => Sound
  BY ShapeInit, GoodInit DEF Sound
<1>2. Sound /\ [Next]_vars => Sound'
  <2> SUFFICES ASSUME Sound, [Next]_vars PROVE Sound'
    OBVIOUS
  <2>1. Shape /\ Shape'
    BY ShapeStep DEF Sound
  <2>2. ASSUME ~errs', NEW lv \in 1..3 PROVE Good(lv)'
    <3>1. ~errs
      BY <2>1, <2>2, ErrsStay DEF Shape
    <3>2. Good(lv)
      BY <3>1 DEF Sound
    <3> QED
      BY <2>1, <2>2, <3>2, GoodStep
  <2> QED
    BY <2>1, <2>2 DEF Sound
<1> QED
  BY <1>1, <1>2, PTL DEF Spec

\* What is known at the top of the stack while nothing happened that the properties except.
LEMMA Known0 ==
  ASSUME Sound, ~errs, NEW lv \in 1..3, Clean(lv, events), todo # << >>
  PROVE  \E h : /\ Chain(lv, todo, h) /\ Tells(lv, h[Len(todo)]) /\ Link(lv, todo, h, Len(todo))
                /\ Elem(todo, Len(todo)) = ins /\ h[Len(todo)] \in Points /\ ins \in Elems
<1>1. PICK h : Chain(lv, todo, h) /\ Tells(lv, h[Len(todo)])
  BY DEF Sound, Good
<1>2. TypeOK
  BY DEF Sound, Shape
<1>3. PICK i : \E L \in Nat : Under(lv, h, i, L)
  BY <1>1, <1>2, UnderIs
<1>4. PICK L \in Nat : Under(lv, h, i, L)
  BY <1>3
<1> QED
  BY <1>1, <1>4 DEF Under

SkipsNothing == Skips => errs \/ events \cap KnownSilent # {}
LEMMA SoundSkips == Sound => SkipsNothing
<1> SUFFICES ASSUME Sound, Skips, ~errs, events \cap KnownSilent = {} PROVE FALSE
  BY DEF SkipsNothing
<1>1. 1 \in 1..3 /\ ~(1 >= 2) /\ 1 # 3
  OBVIOUS
<1>2. PICK lv \in 1..3 : lv = 1
  BY <1>1
<1>3. Clean(lv, events)
  <2>1. Silent(lv) = KnownSilent
    BY <1>1, <1>2 DEF Silent
  <2> QED
    BY <2>1 DEF Clean
<1>4. todo # << >> /\ (ins.op = "skip" \/ (ins.op = "guard" /\ ins.from = pos))
  BY DEF Skips
<1>5. PICK h : /\ Chain(lv, todo, h) /\ Tells(lv, h[Len(todo)]) /\ Link(lv, todo, h, Len(todo))
               /\ Elem(todo, Len(todo)) = ins /\ h[Len(todo)] \in Points /\ ins \in Elems
  BY <1>3, <1>4, Known0
<1>6. h[Len(todo)].kind = "live"
  <2>1. Adv.op = "advance" /\ Error.op = "emit"
    BY DEF Adv, Error
  <2>2. h[Len(todo)].kind = "lost" => ins.op \in {"undo", "emit", "advance"}
    BY <1>5, <2>1 DEF Link
  <2>3. h[Len(todo)].kind \in {"live", "lost"}
    BY <1>5 DEF Tells, TellsOf
  <2> QED
    BY <1>4, <2>2, <2>3
<1>7. ins.op # "skip"
  <2>1. SUFFICES ASSUME ins.op = "skip" PROVE FALSE
    OBVIOUS
  <2>2. ins.op \in Kinds \ {"scan"}
    BY <2>1 DEF Kinds
  <2>3. PICK i, T, k, R, n : Facing(lv, i, T, k, R, n)
    BY <1>4, <1>5, <1>6, <2>2, TopFacing DEF Sound
  <2>4. Step(T.at[k], ins, T.at[k + 1])
    BY <2>3 DEF Facing
  <2> QED
    BY <2>1, <2>4 DEF Step
<1>8. ins.op = "guard" /\ ins.from = pos
  BY <1>4, <1>7
<1>9. ~Code(lv, todo, h, Len(todo))
  <2>1. SUFFICES ASSUME Code(lv, todo, h, Len(todo)) PROVE FALSE
    OBVIOUS
  <2>2. PICK T \in Typed : \E k \in 1..Len(T.seq) : ins = T.seq[k]
    BY <1>5, <2>1 DEF Code, Stood
  <2>3. ins \in Instructions
    BY <2>2, TypedIs, ElementOfSeq
  <2> QED
    BY <1>8, <2>3, PlainKinds
<1>10. Between(todo, h, Len(todo), ins, h[Len(todo)], h[Len(todo) - 1])
  BY <1>5, <1>6, <1>8, <1>9 DEF Link
<1>11. PICK p \in Points : p = h[Len(todo)]
  BY <1>5
<1>12. ins.from < p.low /\ p.low <= pos /\ p.low \in Nat /\ pos \in Nat
  BY <1>5, <1>6, <1>8, <1>10, <1>11 DEF Between, Tells, TellsOf, Points, Sound, Shape, TypeOK
<1> QED
  BY <1>8, <1>12

LEMMA SoundBalanced == Sound => Balanced
<1> SUFFICES ASSUME Sound PROVE Balanced
  OBVIOUS
<1>1. half <= pos
  BY DEF Sound, Shape, TypeOK
<1>2. ASSUME Accepted, events \cap (KnownSilent \cup {"second ("}) = {} PROVE nest = << >>
  <2>1. 2 \in 1..3 /\ 2 >= 2 /\ 2 # 3
    OBVIOUS
  <2>2. PICK lv \in 1..3 : lv = 2
    BY <2>1
  <2>3. Clean(lv, events)
    <3>1. Silent(lv) \subseteq KnownSilent \cup {"second ("}
      BY <2>1, <2>2, Zenon DEF Silent
    <3> QED
      BY <1>2, <3>1, Zenon DEF Clean
  <2>4. todo = << >> /\ ~errs
    BY <1>2 DEF Accepted, Done
  <2>5. PICK h : Chain(lv, todo, h) /\ Tells(lv, h[Len(todo)])
    BY <2>3, <2>4 DEF Sound, Good
  <2>6. Len(todo) = 0
    BY <2>4
  <2>7. h[0].kind = "live" /\ h[0].nest = << >> /\ Tells(lv, h[0])
    BY <2>5, <2>6 DEF Chain
  <2> QED
    BY <2>1, <2>2, <2>7 DEF Tells, TellsOf
<1> QED
  BY <1>1, <1>2, Zenon DEF Balanced

\* An accepted file closes its brackets but where the code is silent, and the half of a ">>" that was
\* consumed is not ahead of the cursor, whatever the file.
THEOREM AcceptedIsBalanced == Spec => []Balanced
BY SoundAlways, SoundBalanced, PTL

\* The restriction in force is that of the nearest head.
LEMMA HeadInForce ==
  ASSUME Shape, nsl
  PROVE  \E m \in 1..Len(todo) : /\ m = Min(Marks("restore")) /\ Marks("restore") # {} /\ todo[m].op = "restore"
                                 /\ todo[m].head /\ todo[m] \in Backs
                                 /\ \A e \in 1..(m - 1) : todo[e].op # "restore"
<1>1. todo \in Seq(Elems) /\ DOMAIN todo = 1..Len(todo) /\ Len(todo) \in Nat
  BY SinceIs, LenProperties DEF Shape, TypeOK
<1>2. PICK j \in 1..Len(todo) : todo[j].op = "restore" /\ todo[j].head = nsl /\ \A k \in 1..(j - 1) : todo[k].op # "restore"
  BY DEF Shape, InForce
<1>3. PICK S : S = Marks("restore")
  OBVIOUS
<1>4. j \in S /\ S \subseteq Nat /\ \A y \in S : y \in 1..Len(todo) /\ todo[y].op = "restore"
  BY <1>1, <1>2, <1>3 DEF Marks
<1>5. Min(S) \in S /\ \A y \in S : Min(S) <= y
  BY <1>4, LeastIs
<1>6. Min(S) = j
  <2>1. PICK y \in S : y = Min(S)
    BY <1>5
  <2>2. y <= j /\ y \in 1..Len(todo) /\ todo[y].op = "restore"
    BY <1>4, <1>5, <2>1
  <2>3. y < j => y \in 1..(j - 1)
    BY <2>2
  <2>4. ~(y < j)
    BY <1>2, <2>2, <2>3
  <2> QED
    BY <2>1, <2>2, <2>4
<1>7. todo[j] \in Backs
  BY <1>1, <1>2, ElementOfSeq, ElemKinds
<1> QED
  BY <1>2, <1>3, <1>4, <1>6, <1>7

\* The bracket a function began in, or one it opened itself, is the innermost one.
Braced(s) == s[1] = "}"
LEMMA BracedCat ==
  ASSUME NEW a \in Seq(Closing), NEW b \in Seq(Closing)
  PROVE  /\ Len(a \o b) = Len(a) + Len(b) /\ Len(a) \in Nat /\ Len(b) \in Nat
         /\ Len(a) > 0 => (Braced(a) <=> Braced(a \o b))
         /\ Len(a) = 0 /\ Len(b) > 0 => (Braced(b) <=> Braced(a \o b))
<1>1. Len(a \o b) = Len(a) + Len(b) /\ Len(a) \in Nat /\ Len(b) \in Nat
      /\ (\A i \in 1..Len(a) : (a \o b)[i] = a[i]) /\ \A i \in 1..Len(b) : (a \o b)[i + Len(a)] = b[i]
  BY CatIs, LenProperties
<1>2. Len(a) > 0 => (a \o b)[1] = a[1]
  <2>1. Len(a) > 0 => 1 \in 1..Len(a)
    BY <1>1
  <2> QED
    BY <1>1, <2>1
<1>3. Len(a) = 0 /\ Len(b) > 0 => (a \o b)[1] = b[1]
  <2>1. SUFFICES ASSUME Len(a) = 0, Len(b) > 0 PROVE (a \o b)[1] = b[1]
    OBVIOUS
  <2>2. 1 \in 1..Len(b) /\ 1 + Len(a) = 1
    BY <1>1, <2>1
  <2> QED
    BY <1>1, <2>2
<1> QED
  BY <1>1, <1>2, <1>3, Zenon DEF Braced

LEMMA InsideHead ==
  ASSUME Sound, nsl, ~errs, todo # << >>, ins.op = "infix", NEW lv \in 1..3, lv = 3, Clean(lv, events),
         NEW m \in 1..Len(todo), todo[m].op = "restore", todo[m] \in Backs, \A e \in 1..(m - 1) : todo[e].op # "restore"
  PROVE  Len(nest) <= todo[m].open \/ Braced(nest)
<1>1. lv >= 2
  OBVIOUS
<1>4. PICK h : /\ Chain(lv, todo, h) /\ Tells(lv, h[Len(todo)]) /\ Link(lv, todo, h, Len(todo))
               /\ Elem(todo, Len(todo)) = ins /\ h[Len(todo)] \in Points /\ ins \in Elems
  BY Known0
<1>5. h[Len(todo)].kind = "live"
  <2>1. Adv.op = "advance" /\ Error.op = "emit"
    BY DEF Adv, Error
  <2>2. h[Len(todo)].kind = "lost" => ins.op \in {"undo", "emit", "advance"}
    BY <1>4, <2>1 DEF Link
  <2>3. h[Len(todo)].kind \in {"live", "lost"}
    BY <1>4 DEF Tells, TellsOf
  <2> QED
    BY <2>2, <2>3
<1>6. PICK i, T, k, R, n : Facing(lv, i, T, k, R, n)
  <2>1. ins.op \in Kinds \ {"scan"}
    BY DEF Kinds
  <2> QED
    BY <1>4, <1>5, <2>1, TopFacing DEF Sound
<1>7. /\ T.at[k] \in Facts /\ T.at[k].kind = "live" /\ ins = T.seq[k] /\ R \in Seq(Closing) /\ n \in Nat
      /\ Step(T.at[k], ins, T.at[k + 1]) /\ Tells(lv, Placed(Known(T, k), R, n))
      /\ Allowed(lv, rest, i, Len(rest) + 1, T.at[k], R, n)
  BY <1>6 DEF Facing
<1>8. PICK f \in Facts : f = T.at[k]
  BY <1>7
<1>9. PICK b \in Facts : b = Blind(f) /\ b.nest = f.nest /\ b.mode = f.mode /\ b.kind = "live"
  BY <1>7, <1>8, BlindIs
<1>10. Known(T, k) = b
  BY <1>7, <1>8, <1>9 DEF Known
<1>11. nest = f.nest \o R /\ f.mode # "loose"
  <2>1. PICK p : p = Placed(b, R, n)
    OBVIOUS
  <2>2. p.kind = "live" /\ p.nest = f.nest \o R /\ p.mode = f.mode
    BY <1>9, <2>1 DEF Placed
  <2>3. Tells(lv, p)
    BY <1>7, <1>10, <2>1
  <2> QED
    BY <1>1, <2>2, <2>3 DEF Tells, TellsOf
<1>12. f.mode # "bare" /\ Roomy(f) /\ f.nest \in Seq(Closing) /\ f.room \in Nat
       /\ f.mode \in {"free", "tight", "bare", "loose"}
  BY <1>7, <1>8 DEF Step, Facts
<1>13. /\ todo \in Seq(Elems) /\ rest \in Seq(Elems) /\ Len(todo) = Len(rest) + 1 /\ Len(rest) \in Nat
       /\ \A e \in 1..Len(rest) : rest[e] = todo[e + 1]
  <2>1. todo \in Seq(Elems)
    BY SinceIs DEF Sound, Shape, TypeOK
  <2> QED
    BY <2>1, TailIs, LenProperties DEF rest
<1>14. PICK L \in Nat : L = Len(rest) /\ (L + 1) - 1 = L
  BY <1>13
<1>15. m - 1 \in 1..L /\ rest[m - 1] = todo[m]
  <2>1. m # 1
    BY DEF ins
  <2>2. m - 1 \in 1..L /\ (m - 1) + 1 = m
    BY <1>13, <1>14, <2>1
  <2> QED
    BY <1>13, <1>14, <2>2
<1>16. PICK c \in 1..L : c = m - 1 /\ rest[c] = todo[m] /\ \A e \in 1..(c - 1) : rest[e].op # "restore"
  <2>1. PICK c \in 1..L : c = m - 1 /\ rest[c] = todo[m]
    BY <1>15
  <2>2. ASSUME NEW e \in 1..(c - 1) PROVE rest[e].op # "restore"
    <3>1. e + 1 \in 1..(m - 1) /\ e \in 1..Len(rest)
      BY <1>14, <2>1
    <3> QED
      BY <1>13, <3>1
  <2> QED
    BY <2>1, <2>2
<1>17. PICK d \in 1..L : d = L + 1 - c /\ Elem(rest, d) = todo[m]
  <2>1. L + 1 - c \in 1..L /\ L + 1 - (L + 1 - c) = c
    BY <1>14
  <2> QED
    BY <1>14, <1>16, <2>1 DEF Elem
<1>18. f.mode # "free"
  BY <1>7, <1>8, <1>14, <1>17 DEF Allowed
<1>19. f.mode = "tight"
  BY <1>11, <1>12, <1>18
<1>20. PICK j \in 1..L : /\ Nearest(rest, L + 1, {"restore"}, j)
                         /\ \/ f.room + Len(R) <= Elem(rest, j).open
                            \/ f.room = 0 /\ R # << >> /\ Braced(R)
  <2>1. \E j \in 1..((L + 1) - 1) : /\ Nearest(rest, L + 1, {"restore"}, j)
                                  /\ \/ f.room + Len(R) <= Elem(rest, j).open
                                     \/ f.room = 0 /\ R # << >> /\ R[1] = "}"
    BY <1>7, <1>8, <1>14, <1>19, Zenon DEF Allowed
  <2> QED
    BY <1>14, <2>1, Zenon DEF Braced
<1>21. j = d
  <2>1. ~(j < d)
    <3>1. SUFFICES ASSUME j < d PROVE FALSE
      OBVIOUS
    <3>2. d \in (j + 1)..((L + 1) - 1)
      BY <1>14, <3>1
    <3>3. Elem(rest, d).op \notin {"restore"}
      BY <1>20, <3>2 DEF Nearest
    <3> QED
      BY <1>17, <3>3
  <2>2. ~(d < j)
    <3>1. SUFFICES ASSUME d < j PROVE FALSE
      OBVIOUS
    <3>2. L + 1 - j \in 1..(c - 1)
      BY <1>14, <1>17, <3>1
    <3>3. Elem(rest, j).op = "restore"
      BY <1>20 DEF Nearest
    <3>4. Elem(rest, j) = rest[L + 1 - j]
      BY <1>14 DEF Elem
    <3> QED
      BY <1>16, <3>2, <3>3, <3>4
  <2> QED
    BY <2>1, <2>2
<1>22. \/ f.room + Len(R) <= todo[m].open
       \/ f.room = 0 /\ Len(R) > 0 /\ Braced(R)
  <2>1. R # << >> => Len(R) > 0
    BY <1>7, LenProperties
  <2> QED
    BY <1>17, <1>20, <1>21, <2>1
<1>23. Len(f.nest) <= f.room \/ Braced(f.nest)
  BY <1>12, <1>19, Zenon DEF Roomy, Braced
<1>24. /\ Len(nest) = Len(f.nest) + Len(R) /\ Len(f.nest) \in Nat /\ Len(R) \in Nat
       /\ Len(f.nest) > 0 => (Braced(f.nest) <=> Braced(nest))
       /\ Len(f.nest) = 0 /\ Len(R) > 0 => (Braced(R) <=> Braced(nest))
  BY <1>7, <1>11, <1>12, BracedCat
<1>25. todo[m].open \in Nat
  BY DEF Backs
<1> QED
  BY <1>12, <1>22, <1>23, <1>24, <1>25, SMTT(60)

LEMMA SoundScoped == Sound => RestrictionScoped
<1> SUFFICES ASSUME Sound, nsl PROVE RestrictionScoped
  BY DEF RestrictionScoped
<1>1. Shape
  BY DEF Sound
<1>2. PICK m \in 1..Len(todo) : /\ m = Min(Marks("restore")) /\ Marks("restore") # {} /\ todo[m].op = "restore"
                                /\ todo[m].head /\ todo[m] \in Backs
                                /\ \A e \in 1..(m - 1) : todo[e].op # "restore"
  BY <1>1, HeadInForce
<1>3. 3 \in 1..3
  OBVIOUS
<1>4. PICK lv \in 1..3 : lv = 3
  BY <1>3
<1>5. events \cap (KnownSilent \cup {"?.(", "sized (", "second ("}) = {} => Clean(lv, events)
  <2>1. Silent(lv) \subseteq KnownSilent \cup {"?.(", "sized (", "second ("}
    BY Zenon DEF Silent
  <2> QED
    BY <2>1, Zenon DEF Clean
<1>6. ~errs /\ todo # << >> /\ ins.op = "infix" /\ Clean(lv, events) => Len(nest) <= todo[m].open \/ Braced(nest)
  BY <1>2, <1>4, InsideHead
<1> QED
  BY <1>2, <1>5, <1>6, Zenon DEF RestrictionScoped, Braced

\* The ban on struct literals ends with the head it was set for, and inside the head it is lifted in
\* round and square brackets, whatever the file.
THEOREM BanEndsWithItsHead == Spec => []RestrictionScoped
BY SoundAlways, SoundScoped, PTL

-----------------------------------------------------------------------------
(* An attempt at a list of arguments ends at the end of the list, at the   *)
(* end of the file, or with something reported.                            *)

Closers == {">", ">>"}
AtClose == Seen(1) /\ Peek \in Closers \cup {"eof"}
AtEnd == Seen(1) /\ Peek = "eof"
ListLoop(x) == x.op = "loop" /\ x.stop = Closers
Memo(x) == x.op = "mark" /\ x.memo
Harmless(x) == x \in Careful \/ x.op = "caught" \/ (x.op \in {"mark", "undo"} /\ x.memo)
Reporting(t, i) == \E e \in 1..i : t[e].op = "emit"
\* c: the tokens ahead end the list.
Closes(t, i, c) ==
  t[i] = GClose("fail") /\ i < Len(t) /\ Memo(t[i + 1]) /\ (IF i = 1 THEN c ELSE ListLoop(t[i - 1]))
Tended(t, i, c) == Harmless(t[i]) \/ Reporting(t, i) \/ Closes(t, i, c)
Minded(t, c) == \A j \in 1..Len(t) : Memo(t[j]) => \A i \in 1..(j - 1) : Tended(t, i, c)

LEMMA MindedAs ==
  ASSUME NEW t \in Seq(Elems), NEW c \in BOOLEAN, Minded(t, c), NEW d \in BOOLEAN,
         t # << >> /\ t[1] = GClose("fail") /\ c => d
  PROVE  Minded(t, d)
<1> SUFFICES ASSUME NEW j \in 1..Len(t), Memo(t[j]), NEW i \in 1..(j - 1) PROVE Tended(t, i, d)
  BY DEF Minded
<1>1. Tended(t, i, c) /\ t # << >>
  BY DEF Minded
<1>2. Closes(t, i, c) => Closes(t, i, d)
  BY <1>1 DEF Closes
<1> QED
  BY <1>1, <1>2 DEF Tended

LEMMA MindedRest ==
  ASSUME NEW t \in Seq(Elems), t # << >>, NEW c \in BOOLEAN, Minded(t, c), t[1].op # "emit",
         NEW d \in BOOLEAN, ListLoop(t[1]) => d
  PROVE  Minded(Tail(t), d)
<1>1. PICK r \in Seq(Elems) : r = Tail(t) /\ Len(r) = Len(t) - 1 /\ \A i \in 1..(Len(t) - 1) : r[i] = t[i + 1]
  BY TailIs, ZenonT(60)
<1>2. Len(t) \in Nat /\ Len(r) \in Nat
  BY LenProperties
<1> SUFFICES ASSUME NEW j \in 1..Len(r), Memo(r[j]), NEW i \in 1..(j - 1) PROVE Tended(r, i, d)
  BY <1>1 DEF Minded
<1>3. j + 1 \in 1..Len(t) /\ i + 1 \in 1..((j + 1) - 1) /\ r[j] = t[j + 1] /\ r[i] = t[i + 1] /\ r[i + 1] = t[(i + 1) + 1]
      /\ i < Len(r)
  <2>1. j \in 1..(Len(t) - 1) /\ i \in 1..(Len(t) - 1) /\ i + 1 \in 1..(Len(t) - 1)
    BY <1>1, <1>2
  <2> QED
    BY <1>1, <1>2, <2>1
<1>4. Tended(t, i + 1, c)
  BY <1>3 DEF Minded
<1>5. Reporting(t, i + 1) => Reporting(r, i)
  <2>1. SUFFICES ASSUME NEW e \in 1..(i + 1), t[e].op = "emit" PROVE Reporting(r, i)
    BY DEF Reporting
  <2>2. e # 1
    BY <2>1
  <2>3. e - 1 \in 1..i /\ e - 1 \in 1..(Len(t) - 1) /\ (e - 1) + 1 = e
    BY <1>1, <1>2, <1>3, <2>2
  <2>4. r[e - 1].op = "emit"
    BY <1>1, <2>1, <2>3
  <2> QED
    BY <2>3, <2>4 DEF Reporting
<1>6. Closes(t, i + 1, c) => Closes(r, i, d)
  <2>1. SUFFICES ASSUME Closes(t, i + 1, c) PROVE Closes(r, i, d)
    OBVIOUS
  <2>2. t[i + 1] = GClose("fail") /\ Memo(t[(i + 1) + 1]) /\ ListLoop(t[i])
    <3>1. i + 1 # 1 /\ (i + 1) - 1 = i
      BY <1>3
    <3> QED
      BY <2>1, <3>1 DEF Closes
  <2>3. i # 1 => i - 1 \in 1..(Len(t) - 1) /\ (i - 1) + 1 = i
    BY <1>1, <1>2, <1>3
  <2>4. i # 1 => r[i - 1] = t[i]
    BY <1>1, <2>3
  <2> QED
    BY <1>3, <2>2, <2>4 DEF Closes
<1> QED
  BY <1>3, <1>4, <1>5, <1>6 DEF Tended

\* s may be put on t.
Safe(s, t) ==
  \A i \in 1..Len(s) :
     \/ Harmless(s[i]) \/ Reporting(s, i)
     \/ i = Len(s) /\ i > 1 /\ s[i] = GClose("fail") /\ ListLoop(s[i - 1]) /\ t # << >> /\ Memo(t[1])

LEMMA MindedGrows ==
  ASSUME NEW s \in Seq(Elems), NEW t \in Seq(Elems), Minded(t, FALSE), Safe(s, t), NEW d \in BOOLEAN
  PROVE  s \o t \in Seq(Elems) /\ Minded(s \o t, d)
<1>1. PICK u \in Seq(Elems) : u = s \o t
  BY CatIs
<1>2. /\ Len(u) = Len(s) + Len(t) /\ Len(s) \in Nat /\ Len(t) \in Nat
      /\ \A i \in 1..Len(s) : u[i] = s[i]
      /\ \A i \in 1..Len(t) : u[i + Len(s)] = t[i]
  BY <1>1, CatIs, LenProperties
<1>3. PICK n \in Nat, m \in Nat : n = Len(s) /\ m = Len(t)
  BY <1>2
<1> SUFFICES ASSUME NEW j \in 1..Len(u), Memo(u[j]), NEW i \in 1..(j - 1) PROVE Tended(u, i, d)
  BY <1>1 DEF Minded
<1>4. CASE i <= n
  <2>1. i \in 1..Len(s) /\ u[i] = s[i] /\ i < Len(u)
    BY <1>2, <1>3, <1>4
  <2>2. Reporting(s, i) => Reporting(u, i)
    <3>1. \A e \in 1..i : u[e] = s[e]
      BY <1>2, <2>1
    <3> QED
      BY <3>1 DEF Reporting
  <2>3. ASSUME i = Len(s), i > 1, s[i] = GClose("fail"), ListLoop(s[i - 1]), t # << >>, Memo(t[1]) PROVE Closes(u, i, d)
    <3>1. 1 \in 1..Len(t)
      BY <1>2, <2>3, EmptySeq
    <3>2. u[i + 1] = t[1]
      <4>1. 1 + Len(s) = i + 1
        BY <1>2, <2>3
      <4> QED
        BY <1>2, <3>1, <4>1
    <3>3. i - 1 \in 1..Len(s) /\ i # 1
      BY <2>1, <2>3
    <3> QED
      BY <1>2, <2>1, <2>3, <3>2, <3>3 DEF Closes
  <2> QED
    BY <2>1, <2>2, <2>3 DEF Safe, Tended
<1>5. CASE i > n
  <2>1. i - n \in 1..m /\ j - n \in 1..m /\ i - n \in 1..((j - n) - 1) /\ (i - n) + n = i /\ (j - n) + n = j /\ i < Len(u)
    BY <1>2, <1>3, <1>5
  <2>2. PICK a \in 1..m, b \in 1..m : a = i - n /\ b = j - n
    BY <2>1
  <2>3. u[i] = t[a] /\ u[j] = t[b] /\ a \in 1..(b - 1) /\ b \in 1..Len(t)
    BY <1>2, <1>3, <2>1, <2>2
  <2>4. Tended(t, a, FALSE)
    BY <2>3 DEF Minded
  <2>5. Reporting(t, a) => Reporting(u, i)
    <3>1. SUFFICES ASSUME NEW e \in 1..a, t[e].op = "emit" PROVE Reporting(u, i)
      BY DEF Reporting
    <3>2. e \in 1..Len(t) /\ e + n \in 1..i
      BY <1>3, <2>1, <2>2
    <3>3. u[e + n] = t[e]
      BY <1>2, <1>3, <3>2
    <3> QED
      BY <3>1, <3>2, <3>3 DEF Reporting
  <2>6. Closes(t, a, FALSE) => Closes(u, i, d)
    <3>1. SUFFICES ASSUME Closes(t, a, FALSE) PROVE Closes(u, i, d)
      OBVIOUS
    <3>2. t[a] = GClose("fail") /\ a < Len(t) /\ Memo(t[a + 1]) /\ a # 1 /\ ListLoop(t[a - 1])
      BY <3>1 DEF Closes
    <3>3. a - 1 \in 1..Len(t) /\ a + 1 \in 1..Len(t) /\ (a - 1) + n = i - 1 /\ (a + 1) + n = i + 1 /\ i # 1
      BY <1>2, <1>3, <2>1, <2>2, <3>2
    <3>4. u[i - 1] = t[a - 1] /\ u[i + 1] = t[a + 1]
      BY <1>2, <1>3, <3>3
    <3> QED
      BY <2>1, <2>3, <3>2, <3>3, <3>4 DEF Closes
  <2> QED
    BY <2>3, <2>4, <2>5, <2>6 DEF Tended
<1>6. i \in Nat
  OBVIOUS
<1> QED
  BY <1>1, <1>3, <1>4, <1>5, <1>6

LEMMA OpMoves ==
  ASSUME [Next]_vars, ~Lex, ~UNCHANGED vars
  PROVE  /\ ins.op = "expect" => Expect
         /\ ins.op = "eat" => EatIf
         /\ ins.op = "advance" => Advance
         /\ ins.op = "emit" => Report
         /\ ins.op = "gclose" => GenericClose
         /\ ins.op = "if" => LookAhead
         /\ ins.op = "switch" => MatchToken
         /\ ins.op = "call" => CallRule
         /\ ins.op = "loop" => Repeat
         /\ ins.op = "catch" => Handle
         /\ ins.op = "speculate" => Attempt
         /\ ins.op = "caught" => NothingCaught
         /\ ins.op = "mark" => Succeed
         /\ ins.op = "undo" => Undo
         /\ todo # << >>
<1>1. Expect => ins.op = "expect" /\ todo # << >>
  BY DEF Expect, Now
<1>2. ExpectQuietly => ins.op = "quiet" /\ todo # << >>
  BY DEF ExpectQuietly, Now
<1>3. EatIf => ins.op = "eat" /\ todo # << >>
  BY DEF EatIf, Now
<1>4. EatNoted => ins.op = "noted" /\ todo # << >>
  BY DEF EatNoted, Now
<1>5. CloseOrReport => ins.op = "close" /\ todo # << >>
  BY DEF CloseOrReport, Now
<1>6. Advance => ins.op = "advance" /\ todo # << >>
  BY DEF Advance, Now
<1>7. Report => ins.op = "emit" /\ todo # << >>
  BY DEF Report, Now
<1>8. GiveUp => ins.op = "fail" /\ todo # << >>
  BY DEF GiveUp, Now
<1>9. SkipToSync => ins.op = "skip" /\ todo # << >>
  BY DEF SkipToSync, Now
<1>10. GenericClose => ins.op = "gclose" /\ todo # << >>
  BY DEF GenericClose, Now
<1>11. LookAhead => ins.op = "if" /\ todo # << >>
  BY Zenon DEF LookAhead, Now
<1>12. MatchToken => ins.op = "switch" /\ todo # << >>
  BY Zenon DEF MatchToken, Now
<1>13. SetVal => ins.op = "val" /\ todo # << >>
  BY DEF SetVal, Now
<1>14. NoteTier => ins.op = "note" /\ todo # << >>
  BY DEF NoteTier, Now
<1>15. AskVal => ins.op = "ifval" /\ todo # << >>
  BY DEF AskVal, Now
<1>16. CallRule => ins.op = "call" /\ todo # << >>
  BY DEF CallRule, Now
<1>17. ParseBp => ins.op = "bp" /\ todo # << >>
  BY DEF ParseBp, Now
<1>18. InfixRound => ins.op = "infix" /\ todo # << >>
  BY DEF InfixRound, Now
<1>19. Repeat => ins.op = "loop" /\ todo # << >>
  BY DEF Repeat, Now
<1>20. BreakOut => ins.op = "break" /\ todo # << >>
  BY DEF BreakOut, Now
<1>21. Handle => ins.op = "catch" /\ todo # << >>
  BY DEF Handle, Now
<1>22. NotePosition => ins.op = "advancing" /\ todo # << >>
  BY DEF NotePosition, Now
<1>23. Limit => ins.op = "nsl" /\ todo # << >>
  BY DEF Limit, Now
<1>24. Attempt => ins.op = "speculate" /\ todo # << >>
  BY DEF Attempt, Now
<1>25. BlockItem => ins.op = "item" /\ todo # << >>
  BY DEF BlockItem, Now
<1>26. ItemMade => ins.op = "made" /\ todo # << >>
  BY DEF ItemMade, Now
<1>27. NothingCaught => ins.op = "caught" /\ todo # << >>
  BY DEF NothingCaught, Now
<1>28. Succeed => ins.op = "mark" /\ todo # << >>
  BY DEF Succeed, Now
<1>29. Restore => ins.op = "restore" /\ todo # << >>
  BY DEF Restore, Now
<1>30. GuardProgress => ins.op = "guard" /\ todo # << >>
  BY DEF GuardProgress, Now
<1>31. BlockGrown => ins.op = "grown" /\ todo # << >>
  BY DEF BlockGrown, Now
<1>32. Undo => ins.op = "undo" /\ todo # << >>
  BY DEF Undo, Now
<1>33. LambdaResult => ins.op = "scan" /\ todo # << >>
  BY DEF LambdaResult, Now
<1> QED
  BY <1>1, <1>2, <1>3, <1>4, <1>5, <1>6, <1>7, <1>8, <1>9, <1>10, <1>11, <1>12, <1>13, <1>14, <1>15, <1>16, <1>17,
     <1>18, <1>19, <1>20, <1>21, <1>22, <1>23, <1>24, <1>25, <1>26, <1>27, <1>28, <1>29, <1>30, <1>31, <1>32, <1>33 DEF Next

LEMMA Attending == ASSUME Minded(todo, AtClose) PROVE \E c \in BOOLEAN : Minded(todo, c) /\ (c => AtClose)
<1>1. CASE AtClose
  <2>1. Minded(todo, TRUE)
    BY <1>1 DEF Minded, Tended, Closes
  <2> QED
    BY <1>1, <2>1
<1>2. CASE ~AtClose
  <2>1. Minded(todo, FALSE)
    BY <1>2 DEF Minded, Tended, Closes
  <2> QED
    BY <2>1
<1> QED
  BY <1>1, <1>2

LEMMA Attended == ASSUME NEW t, NEW d \in BOOLEAN, Minded(t, d), d => AtClose' PROVE Minded(t, AtClose')
<1>1. CASE d
  BY <1>1 DEF Minded, Tended, Closes
<1>2. CASE ~d
  <2>1. \A i : Closes(t, i, d) => Closes(t, i, AtClose')
    BY <1>2 DEF Closes
  <2> QED
    BY <2>1 DEF Minded, Tended
<1> QED
  BY <1>1, <1>2

Awake(u) == u # << >> => u[1].op # "undo"
LEMMA AwakeCat ==
  ASSUME NEW s \in Seq(Elems), NEW t \in Seq(Elems), Awake(s), Awake(t)
  PROVE  Awake(s \o t)
<1>1. CASE s = << >>
  <2>1. s \o t = t
    BY <1>1
  <2> QED
    BY <2>1
<1>2. CASE s # << >>
  <2>1. (s \o t)[1] = s[1]
    <3>1. 1 \in 1..Len(s)
      BY <1>2, EmptySeq, LenProperties
    <3> QED
      BY <3>1, CatIs
  <2> QED
    BY <1>2, <2>1 DEF Awake
<1> QED
  BY <1>1, <1>2

LEMMA MindedPut ==
  ASSUME NEW s \in Seq(Instructions), Guarded(s), NEW t \in Seq(Elems), Minded(t, FALSE), Awake(t)
  PROVE  s \o t \in Seq(Elems) /\ Minded(s \o t, FALSE) /\ Awake(s \o t)
<1>1. s \in Seq(Elems)
  BY CodeElems DEF CodeIsElems
<1>2. Safe(s, t)
  BY DEF Safe, Guarded, GuardedTo, Harmless, Reporting
<1>3. Awake(s)
  <2>1. SUFFICES ASSUME s # << >> PROVE s[1].op # "undo"
    BY DEF Awake
  <2>2. s[1] \in Instructions
    BY <2>1, TailIs
  <2> QED
    BY <2>2, PlainKinds
<1> QED
  BY <1>1, <1>2, <1>3, MindedGrows, AwakeCat

LEMMA MindedPop ==
  ASSUME todo \in Seq(Elems), todo # << >>, Stack(todo), NEW c \in BOOLEAN, Minded(todo, c), ins.op # "emit",
         NEW d \in BOOLEAN, ListLoop(ins) => d
  PROVE  rest \in Seq(Elems) /\ Minded(rest, d) /\ Awake(rest)
<1>1. ins = todo[1] /\ rest = Tail(todo)
  BY DEF ins, rest
<1>2. Minded(Tail(todo), d)
  BY <1>1, MindedRest
<1>3. rest \in Seq(Elems) /\ Len(rest) = Len(todo) - 1 /\ Len(todo) \in Nat /\ \A i \in 1..(Len(todo) - 1) : rest[i] = todo[i + 1]
  BY <1>1, TailIs, LenProperties
<1>4. Awake(rest)
  <2>1. SUFFICES ASSUME rest # << >> PROVE rest[1].op # "undo"
    BY DEF Awake
  <2>2. Len(rest) >= 1
    BY <1>3, <2>1, EmptySeq, LenProperties
  <2>3. 1 \in 1..(Len(todo) - 1) /\ 2 \in 1..Len(todo)
    BY <1>3, <2>2
  <2>4. rest[1] = todo[1 + 1] /\ 1 + 1 = 2 /\ Rests(todo, 2)
    BY <1>3, <2>3 DEF Stack
  <2>5. todo[2].op # "undo"
    BY <2>4 DEF Rests
  <2> QED
    BY <2>4, <2>5
<1> QED
  BY <1>1, <1>2, <1>3, <1>4

\* An attempt is given up only at the end of the file.
Undoing(t) == t # << >> /\ t[1].op = "undo" /\ t[1].memo
Onward == Minded(todo', AtClose') /\ (Undoing(todo') => AtEnd')

LEMMA OnwardRest ==
  ASSUME rest \in Seq(Elems), NEW d \in BOOLEAN, Minded(rest, d), Awake(rest), d => AtClose', todo' = rest
  PROVE  Onward
<1>1. PICK u : u = rest
  OBVIOUS
<1>2. Minded(u, AtClose') /\ ~Undoing(u)
  BY <1>1, Attended DEF Awake, Undoing
<1> QED
  BY <1>1, <1>2 DEF Onward

LEMMA OnwardPut ==
  ASSUME NEW s \in Seq(Instructions), Guarded(s), NEW t \in Seq(Elems), Minded(t, FALSE), Awake(t), todo' = s \o t
  PROVE  Onward
<1>1. PICK u : u = s \o t
  OBVIOUS
<1>2. Minded(u, FALSE) /\ Awake(u)
  BY <1>1, MindedPut
<1>3. Minded(u, AtClose') /\ ~Undoing(u)
  BY <1>2, Attended DEF Awake, Undoing
<1> QED
  BY <1>1, <1>3 DEF Onward

LEMMA MindedOne ==
  ASSUME NEW x \in Elems, Harmless(x), x.op # "undo", NEW t \in Seq(Elems), Minded(t, FALSE)
  PROVE  <<x>> \o t \in Seq(Elems) /\ Minded(<<x>> \o t, FALSE) /\ Awake(<<x>> \o t) /\ (<<x>> \o t)[1] = x /\ <<x>> \o t # << >>
<1>1. PICK y \in Seq(Elems) : y = <<x>> /\ Len(y) = 1 /\ y[1] = x
  BY OneIs
<1>2. Safe(y, t)
  BY <1>1 DEF Safe
<1>3. y \o t \in Seq(Elems) /\ Minded(y \o t, FALSE)
  BY <1>2, MindedGrows
<1>4. (y \o t)[1] = x /\ Len(y \o t) # 0
  <2>1. 1 \in 1..Len(y)
    BY <1>1
  <2> QED
    BY <1>1, <2>1, CatIs, LenProperties
<1>5. Awake(y \o t) /\ y \o t # << >>
  BY <1>4 DEF Awake
<1> QED
  BY <1>1, <1>3, <1>4, <1>5

\* The body of an attempt, put on its record.
LEMMA AttemptedIs ==
  ASSUME NEW x \in Instructions, x.op = "speculate", x.memo, NEW t \in Seq(Elems), t # << >>, Memo(t[1]), Minded(t, FALSE)
  PROVE  Minded(x.body \o t, FALSE) /\ Awake(x.body)
<1>1. x.body \in Seq(Instructions)
  BY ThroughOf
<1>2. PICK s \in Seq(Elems) : s = x.body
  BY <1>1, CodeElems DEF CodeIsElems
<1>3. PICK n \in Nat : n = Len(s)
  BY LenProperties
<1>4. n > 1 /\ s[n] = GClose("fail") /\ GuardedTo(s, n - 1) /\ ListLoop(s[n - 1])
  BY <1>2, <1>3, Attempts DEF ListLoop, Closers
<1>5. Safe(s, t)
  <2>1. ASSUME NEW i \in 1..Len(s), i < n PROVE Harmless(s[i]) \/ Reporting(s, i)
    <3>1. i \in 1..(n - 1)
      BY <1>3, <2>1
    <3> QED
      BY <1>4, <3>1 DEF GuardedTo, Harmless, Reporting
  <2>2. \A i \in 1..Len(s) : i < n \/ i = n
    BY <1>3
  <2> QED
    BY <1>3, <1>4, <2>1, <2>2 DEF Safe
<1>6. Awake(s)
  <2>1. s # << >> => s[1] \in Instructions
    BY <1>1, <1>2, TailIs
  <2> QED
    BY <2>1, PlainKinds DEF Awake
<1> QED
  BY <1>2, <1>5, <1>6, MindedGrows

LEMMA AttemptStep ==
  ASSUME TypeOK, [Next]_vars, ~Lex, ~UNCHANGED vars, todo # << >>, ins.op = "speculate", ins.memo, Minded(rest, FALSE), Awake(rest)
  PROVE  Onward
<1>1. Attempt
  BY OpMoves
<1>2. Now("speculate") /\ (todo' = rest \/ todo' = ins.body \o <<Saved>> \o rest)
  BY <1>1 DEF Attempt, Saved
<1>3. rest \in Seq(Elems) /\ ins \in Instructions
  BY <1>2, TopIs DEF Kinds
<1>4. CASE todo' = rest
  BY <1>3, <1>4, OnwardRest
<1>5. CASE todo' = ins.body \o <<Saved>> \o rest
  <2>1. PICK x : x = Saved /\ Frame("speculate", ins.body, x) /\ x.op = "mark"
    BY <1>2, <1>5, AttemptIs
  <2>2. x.memo /\ x.op = "mark"
    BY <2>1 DEF Saved
  <2>3. x \in Elems /\ ins.body \in Seq(Elems) /\ todo' = ins.body \o (<<x>> \o rest)
    BY <2>1 DEF Frame
  <2>4. Harmless(x) /\ x.op # "undo" /\ Memo(x)
    BY <2>2 DEF Harmless, Memo
  <2>5. PICK t \in Seq(Elems) : t = <<x>> \o rest
    BY <1>3, <2>3, CatOne
  <2>6. Minded(t, FALSE) /\ Awake(t) /\ t # << >> /\ t[1] = x
    BY <1>3, <2>3, <2>4, <2>5, MindedOne
  <2>7. Minded(ins.body \o t, FALSE) /\ Awake(ins.body)
    BY <1>3, <2>4, <2>6, AttemptedIs
  <2>8. PICK u : u = ins.body \o t
    OBVIOUS
  <2>9. Awake(u)
    BY <2>3, <2>6, <2>7, <2>8, AwakeCat
  <2>10. Minded(u, AtClose')
    BY <2>7, <2>8, Attended
  <2>11. ~Undoing(u)
    BY <2>9 DEF Awake, Undoing
  <2> QED
    BY <2>3, <2>5, <2>8, <2>10, <2>11 DEF Onward
<1> QED
  BY <1>2, <1>4, <1>5

\* An instruction of the attempt, reports left out.
LEMMA CarefulStep ==
  ASSUME Shape, [Next]_vars, ~Lex, ~UNCHANGED vars, ~errs', NEW c \in BOOLEAN, Minded(todo, c), ins \in Careful
  PROVE  Onward
<1>1. TypeOK /\ Stack(todo) /\ todo \in Seq(Elems) /\ todo # << >>
  BY OpMoves, SinceIs DEF Shape, TypeOK
<1>2. ins \in Instructions /\ ins # GClose("fail")
      /\ ins.op \in {"advance", "expect", "eat", "if", "switch", "call", "loop", "catch", "gclose", "speculate"}
  BY Attempts
<1>3. ins.op # "emit"
  BY <1>2
<1>4. rest \in Seq(Elems) /\ Awake(rest) /\ (~ListLoop(ins) => Minded(rest, FALSE))
  <2>1. rest \in Seq(Elems) /\ Awake(rest)
    BY <1>1, <1>3, MindedPop
  <2>2. ~ListLoop(ins) => Minded(rest, FALSE)
    BY <1>1, <1>3, MindedPop
  <2> QED
    BY <2>1, <2>2
<1>5. ASSUME ins.op # "loop", todo' = rest PROVE Onward
  <2>1. Minded(rest, FALSE)
    BY <1>4, <1>5 DEF ListLoop
  <2> QED
    BY <1>4, <1>5, <2>1, OnwardRest
<1>6. ASSUME ins.op # "loop", NEW s \in Through(ins), Guarded(s), todo' = s \o rest PROVE Onward
  <2>1. Minded(rest, FALSE) /\ s \in Seq(Instructions)
    BY <1>2, <1>4, <1>6, ThroughIs DEF ListLoop
  <2> QED
    BY <1>4, <1>6, <2>1, OnwardPut
<1>7. ins.op \in {"if", "switch", "call", "loop"} => \A s \in Through(ins) : Guarded(s)
  BY Attempts
<1>8. CASE ins.op = "advance"
  <2>1. todo' = rest
    BY <1>8, OpMoves DEF Advance
  <2> QED
    BY <1>5, <1>8, <2>1
<1>9. CASE ins.op = "eat"
  <2>1. todo' = rest
    BY <1>9, OpMoves DEF EatIf
  <2> QED
    BY <1>5, <1>9, <2>1
<1>10. CASE ins.op = "expect"
  <2>1. todo' = rest
    BY <1>10, OpMoves DEF Expect, Reported
  <2> QED
    BY <1>5, <1>10, <2>1
<1>11. CASE ins.op = "gclose"
  <2>1. ins.how \in {"emit", "expect", "hope"}
    BY <1>2, <1>11, Climbing
  <2>2. GenericClose
    BY <1>11, OpMoves
  <2>3. todo' = rest
    BY <2>1, <2>2 DEF GenericClose, Reported
  <2> QED
    BY <1>5, <1>11, <2>3
<1>12. CASE ins.op = "if"
  <2>1. todo' = ins.then \o rest \/ todo' = ins.else \o rest
    BY <1>12, OpMoves DEF LookAhead
  <2>2. ins.then \in Through(ins) /\ ins.else \in Through(ins)
    BY <1>2, <1>12, ThroughOf
  <2> QED
    BY <1>6, <1>7, <1>12, <2>1, <2>2
<1>13. CASE ins.op = "switch"
  <2> DEFINE fits == {i \in DOMAIN ins.arms : Peek \in ins.arms[i][1]}
  <2>1. MatchToken
    BY <1>13, OpMoves
  <2>2. todo' = (IF fits = {} THEN ins.otherwise ELSE ins.arms[Min(fits)][2]) \o rest
    BY <2>1, Zenon DEF MatchToken
  <2>3. DOMAIN ins.arms \subseteq Nat
    BY <1>2, <1>13, Closed
  <2>4. fits # {} => Min(fits) \in DOMAIN ins.arms
    BY <2>3, LeastIs
  <2>5. ins.otherwise \in Through(ins) /\ \A i \in DOMAIN ins.arms : ins.arms[i][2] \in Through(ins)
    BY <1>2, <1>13, ThroughOf
  <2> HIDE DEF fits
  <2>6. \E s \in Through(ins) : todo' = s \o rest
    BY <2>2, <2>4, <2>5
  <2> QED
    BY <1>6, <1>7, <1>13, <2>6
<1>14. CASE ins.op = "call"
  <2>1. todo' = Rule(ins.f) \o rest
    BY <1>14, OpMoves DEF CallRule
  <2>2. Rule(ins.f) \in Through(ins)
    BY <1>2, <1>14, ThroughOf
  <2> QED
    BY <1>6, <1>7, <1>14, <2>1, <2>2
<1> DEFINE Loops == ins.op = "loop"
           Catches == ins.op = "catch"
<1>15. CASE Loops
  <2>1. Repeat
    BY <1>15, OpMoves
  <2>2. Seen(1) /\ Ignored /\ todo' = IF Peek \in ins.stop \cup {"eof"} THEN rest ELSE ins.body \o todo
    BY <1>15, <2>1 DEF Repeat, Now, Looks
  <2>3. CASE Peek \in ins.stop \cup {"eof"}
    <3>1. PICK d \in BOOLEAN : d = ListLoop(ins)
      BY DEF ListLoop
    <3>2. Minded(rest, d)
      BY <1>1, <1>3, <3>1, MindedPop
    <3>3. Seen(1)' /\ Peek' = Peek
      BY <2>2 DEF Ignored, cursor, Peek, At, Seen, Ended
    <3>4. d => AtClose'
      BY <2>2, <2>3, <3>1, <3>3 DEF ListLoop, AtClose
    <3> QED
      BY <1>4, <2>2, <2>3, <3>2, <3>4, OnwardRest
  <2>4. CASE Peek \notin ins.stop \cup {"eof"}
    <3>1. ins.body \in Through(ins)
      BY <1>2, <1>15, ThroughOf
    <3>2. ins.body \in Seq(Instructions) /\ Guarded(ins.body)
      BY <1>2, <1>7, <1>15, <3>1, ThroughIs
    <3>3. todo[1] # GClose("fail")
      BY <1>2 DEF ins
    <3>4. Minded(todo, FALSE)
      BY <1>1, <3>3, MindedAs
    <3>5. Awake(todo)
      BY <1>15 DEF Awake, ins
    <3>6. todo' = ins.body \o todo
      BY <2>2, <2>4
    <3> QED
      BY <1>1, <3>2, <3>4, <3>5, <3>6, OnwardPut
  <2> QED
    BY <2>3, <2>4
<1>16. CASE Catches
  <2>1. Handle
    BY <1>16, OpMoves
  <2>2. PICK x : Frame("catch", ins.body, x) /\ x.op = "caught"
    BY <1>1, <2>1, HandleIs
  <2>3. Guarded(ins.body) /\ ~ListLoop(ins)
    BY <1>16, Attempts DEF ListLoop
  <2>4. ins.body \in Seq(Instructions) /\ x \in Elems /\ todo' = ins.body \o (<<x>> \o rest) /\ Harmless(x) /\ x.op # "undo"
    BY <2>2 DEF Frame, Harmless
  <2>5. PICK t \in Seq(Elems) : t = <<x>> \o rest
    BY <1>4, <2>4, CatOne
  <2>6. Minded(t, FALSE) /\ Awake(t)
    BY <1>4, <2>3, <2>4, <2>5, MindedOne
  <2> QED
    BY <2>3, <2>4, <2>5, <2>6, OnwardPut
<1>17. CASE ins.op = "speculate"
  <2>1. ins.memo /\ Minded(rest, FALSE)
    BY <1>4, <1>17, Attempts DEF ListLoop
  <2> QED
    BY <1>1, <1>4, <1>17, <2>1, AttemptStep
<1> QED
  BY <1>2, <1>8, <1>9, <1>10, <1>11, <1>12, <1>13, <1>14, <1>15, <1>16, <1>17

\* The end of the list is not there: the attempt is given up.
LEMMA ClosesStep ==
  ASSUME Shape, [Next]_vars, ~Lex, ~UNCHANGED vars, NEW c \in BOOLEAN, Minded(todo, c), c => AtClose, Closes(todo, 1, c)
  PROVE  Onward
<1>1. TypeOK /\ Stack(todo) /\ todo \in Seq(Elems) /\ todo # << >>
  BY OpMoves, SinceIs DEF Shape, TypeOK
<1>2. ins = GClose("fail") /\ ins.op = "gclose" /\ ins.how = "fail" /\ ins = todo[1] /\ c /\ Len(todo) \in Nat /\ 1 < Len(todo)
      /\ Memo(todo[1 + 1])
  BY <1>1, LenProperties DEF Closes, ins, GClose
<1>3. Memo(todo[2]) /\ 2 \in 1..Len(todo)
  BY <1>2
<1>4. AtClose
  BY <1>2
<1>5. GenericClose
  BY <1>2, OpMoves
<1>6. rest \in Seq(Elems) /\ Minded(rest, FALSE) /\ Awake(rest)
  BY <1>1, <1>2, MindedPop DEF ListLoop
<1>7. todo' = rest \/ (Peek \notin Closers /\ UNCHANGED cursor /\ todo' = GaveUp(rest))
  BY <1>2, <1>5 DEF GenericClose, Closers
<1>8. CASE todo' = rest
  BY <1>6, <1>8, OnwardRest
<1>9. CASE Peek \notin Closers /\ UNCHANGED cursor /\ todo' = GaveUp(rest)
  <2>1. AtEnd'
    <3>1. Seen(1) /\ Peek = "eof"
      BY <1>4, <1>9 DEF AtClose
    <3>2. Seen(1)' /\ Peek' = Peek
      BY <1>9, <3>1 DEF cursor, Peek, At, Seen, Ended
    <3> QED
      BY <3>1, <3>2 DEF AtEnd
  <2>2. todo[2].op = "mark" /\ todo[2].memo /\ todo[2].op \in {"caught", "mark"}
    BY <1>3 DEF Memo
  <2>3. Handled(todo, 1)
    <3>1. 2 \in (1 + 1)..Len(todo)
      BY <1>2
    <3> QED
      BY <2>2, <3>1 DEF Handled
  <2>4. PICK j \in 2..Len(todo) :
          /\ todo[j].op \in {"caught", "mark"} /\ \A k \in 2..(j - 1) : todo[k].op \notin {"caught", "mark"}
          /\ GaveUp(rest) = (IF todo[j].op = "caught" THEN todo[j].then ELSE <<[todo[j] EXCEPT !.op = "undo"]>>) \o Sfx(todo, j)
    BY <1>1, <2>3, GaveUpIs DEF rest
  <2>5. j = 2
    <3>1. 2 \notin 2..(j - 1)
      BY <2>2, <2>4
    <3> QED
      BY <1>2, <3>1
  <2>6. PICK x : x = [todo[2] EXCEPT !.op = "undo"]
    OBVIOUS
  <2>7. GaveUp(rest) = <<x>> \o Sfx(todo, 2)
    BY <2>2, <2>4, <2>5, <2>6
  <2>8. todo[2] \in Saves
    BY <1>1, <1>3, <2>2, ElementOfSeq, ElemKinds
  <2>9. x \in Saves /\ x.op = "undo" /\ x.memo
    BY <2>2, <2>6, <2>8 DEF Saves
  <2>10. x \in Elems /\ Harmless(x)
    BY <2>9 DEF Elems, Harmless
  <2>11. rest # << >> /\ rest[1] = todo[2] /\ Tail(rest) = Sfx(todo, 2)
    <3>1. rest = Sfx(todo, 1) /\ Len(rest) = Len(todo) - 1 /\ \A i \in 1..(Len(todo) - 1) : rest[i] = todo[i + 1]
      BY <1>1, TailIs DEF rest
    <3>2. Len(rest) >= 1 /\ 1 \in 1..(Len(todo) - 1) /\ 1 + 1 = 2
      BY <1>2, <3>1
    <3>3. rest # << >> /\ rest[1] = todo[2]
      BY <3>1, <3>2, EmptySeq
    <3>4. Tail(rest) = Sfx(rest, 1)
      BY <1>6, <3>3, TailIs
    <3>5. Sfx(Sfx(todo, 1), 1) = Sfx(todo, 1 + 1)
      <4>1. 1 \in 0..Len(todo) /\ 1 \in 0..(Len(todo) - 1)
        BY <1>2
      <4> QED
        BY <1>1, <4>1, SfxSfx
    <3> QED
      BY <3>1, <3>3, <3>4, <3>5
  <2>12. PICK t \in Seq(Elems) : t = Tail(rest)
    BY <1>6, <2>11, TailIs
  <2>13. Minded(t, FALSE)
    <3>1. rest[1].op # "emit" /\ ~ListLoop(rest[1])
      BY <2>2, <2>11 DEF ListLoop
    <3> QED
      BY <1>6, <2>11, <2>12, <3>1, MindedRest
  <2>14. PICK y \in Seq(Elems) : y = <<x>> /\ Len(y) = 1 /\ y[1] = x
    BY <2>10, OneIs
  <2>15. Safe(y, t)
    BY <2>10, <2>14 DEF Safe
  <2>16. PICK u : u = y \o t
    OBVIOUS
  <2>17. Minded(u, FALSE)
    BY <2>13, <2>15, <2>16, MindedGrows
  <2>18. Minded(u, AtClose')
    BY <2>17, Attended
  <2> QED
    BY <1>9, <2>1, <2>7, <2>11, <2>12, <2>14, <2>16, <2>18 DEF Onward
<1> QED
  BY <1>7, <1>8, <1>9

LEMMA MindedStep ==
  ASSUME Shape, [Next]_vars, ~Lex, ~UNCHANGED vars, ~errs', Minded(todo, AtClose),
         NEW j \in 2..Len(todo), Memo(todo[j])
  PROVE  Onward
<1>1. TypeOK /\ Stack(todo) /\ todo \in Seq(Elems) /\ todo # << >> /\ Len(todo) \in Nat
  BY OpMoves, SinceIs, LenProperties DEF Shape, TypeOK
<1>2. PICK c \in BOOLEAN : Minded(todo, c) /\ (c => AtClose)
  BY Attending
<1>3. Tended(todo, 1, c)
  <2>1. j \in 1..Len(todo) /\ 1 \in 1..(j - 1)
    BY <1>1
  <2> QED
    BY <1>2, <2>1 DEF Minded
<1>4. ins.op # "emit" /\ ins = todo[1]
  BY OpMoves DEF Report, Reported, ins
<1>5. ~Reporting(todo, 1)
  <2>1. \A e \in 1..1 : e = 1
    OBVIOUS
  <2> QED
    BY <1>4, <2>1 DEF Reporting
<1>6. CASE ins \in Careful
  BY <1>2, <1>6, CarefulStep
<1>7. CASE Closes(todo, 1, c)
  BY <1>2, <1>7, ClosesStep
<1>8. CASE ins.op \in {"caught", "mark", "undo"}
  <2>1. todo' = rest
    BY <1>8, OpMoves DEF NothingCaught, Succeed, Undo
  <2>2. rest \in Seq(Elems) /\ Minded(rest, FALSE) /\ Awake(rest)
    BY <1>1, <1>2, <1>4, <1>8, MindedPop DEF ListLoop
  <2> QED
    BY <2>1, <2>2, OnwardRest
<1> QED
  BY <1>3, <1>4, <1>5, <1>6, <1>7, <1>8 DEF Tended, Harmless

NoMemo(t) == \A k \in 1..Len(t) : ~Memo(t[k])
LEMMA NoMemoMinded == ASSUME NEW t, NoMemo(t), NEW c PROVE Minded(t, c)
BY DEF NoMemo, Minded

LEMMA NoMemoCat ==
  ASSUME NEW s \in Seq(Elems), NEW t \in Seq(Elems), NoMemo(s), NoMemo(t)
  PROVE  NoMemo(s \o t)
<1>1. /\ Len(s \o t) = Len(s) + Len(t) /\ Len(s) \in Nat /\ Len(t) \in Nat
      /\ \A i \in 1..Len(s) : (s \o t)[i] = s[i]
      /\ \A i \in (Len(s) + 1)..(Len(s) + Len(t)) : (s \o t)[i] = t[i - Len(s)]
  BY CatIs, LenProperties
<1> SUFFICES ASSUME NEW k \in 1..Len(s \o t) PROVE ~Memo((s \o t)[k])
  BY DEF NoMemo
<1>2. k \in 1..Len(s) \/ (k \in (Len(s) + 1)..(Len(s) + Len(t)) /\ k - Len(s) \in 1..Len(t))
  BY <1>1
<1> QED
  BY <1>1, <1>2 DEF NoMemo

LEMMA NoMemoStep ==
  ASSUME Shape, [Next]_vars, ~Lex, ~UNCHANGED vars, ~errs, \A j \in 2..Len(todo) : ~Memo(todo[j])
  PROVE  Onward
<1>1. TypeOK /\ Stack(todo) /\ todo \in Seq(Elems) /\ todo # << >> /\ Len(todo) \in Nat /\ ins = todo[1]
  BY OpMoves, SinceIs, LenProperties DEF Shape, TypeOK, ins
<1>2. /\ rest = Sfx(todo, 1) /\ rest \in Seq(Elems) /\ Len(rest) = Len(todo) - 1 /\ Len(todo) >= 1
      /\ \A i \in 1..(Len(todo) - 1) : rest[i] = todo[i + 1]
  BY <1>1, TailIs DEF rest
<1>3. NoMemo(rest)
  <2>1. \A i \in 1..Len(rest) : i + 1 \in 2..Len(todo) /\ rest[i] = todo[i + 1]
    BY <1>1, <1>2
  <2> QED
    BY <2>1 DEF NoMemo
<1>4. Minded(rest, FALSE)
  BY <1>3, NoMemoMinded
<1>5. Awake(rest)
  <2>1. SUFFICES ASSUME rest # << >> PROVE rest[1].op # "undo"
    BY DEF Awake
  <2>2. Len(rest) >= 1
    BY <1>2, <2>1, EmptySeq, LenProperties
  <2>3. 1 \in 1..(Len(todo) - 1) /\ 2 \in 1..Len(todo)
    BY <1>1, <1>2, <2>2
  <2>4. rest[1] = todo[1 + 1] /\ 1 + 1 = 2 /\ Rests(todo, 2)
    BY <1>1, <1>2, <2>3 DEF Stack
  <2> QED
    BY <2>4 DEF Rests
<1>6. ASSUME todo' = rest PROVE Onward
  BY <1>2, <1>4, <1>5, <1>6, OnwardRest
<1>7. CASE ins.op \in {"mark", "undo"}
  <2>1. todo' = rest
    BY <1>7, OpMoves DEF Succeed, Undo
  <2> QED
    BY <1>6, <2>1
<1>8. CASE ins.op = "speculate" /\ ins.memo
  BY <1>1, <1>4, <1>5, <1>8, AttemptStep
<1>9. CASE ins.op \notin {"mark", "undo"} /\ ~(ins.op = "speculate" /\ ins.memo)
  <2>1. \A k \in 1..Len(todo) : ~Memo(todo[k])
    <3>1. \A k \in 1..Len(todo) : k = 1 \/ k \in 2..Len(todo)
      BY <1>1
    <3> QED
      BY <1>1, <1>9, <3>1 DEF Memo
  <2>2. ASSUME NEW j \in 0..Len(todo) PROVE Sfx(todo, j) \in Seq(Elems) /\ NoMemo(Sfx(todo, j)) /\ Awake(Sfx(todo, j))
    <3>1. /\ Sfx(todo, j) \in Seq(Elems) /\ Len(Sfx(todo, j)) = Len(todo) - j
          /\ \A i \in 1..(Len(todo) - j) : Sfx(todo, j)[i] = todo[i + j]
      BY <1>1, SfxIs
    <3>2. \A i \in 1..Len(Sfx(todo, j)) : i + j \in 1..Len(todo) /\ Sfx(todo, j)[i] = todo[i + j]
      BY <1>1, <3>1
    <3>3. NoMemo(Sfx(todo, j))
      BY <2>1, <3>2 DEF NoMemo
    <3>4. Awake(Sfx(todo, j))
      <4>1. SUFFICES ASSUME Sfx(todo, j) # << >> PROVE Sfx(todo, j)[1].op # "undo"
        BY DEF Awake
      <4>2. 1 \in 1..Len(Sfx(todo, j))
        BY <3>1, <4>1, EmptySeq, LenProperties
      <4>3. PICK m \in 1..Len(todo) : m = 1 + j /\ Sfx(todo, j)[1] = todo[m] /\ Rests(todo, m)
        BY <1>1, <3>2, <4>2 DEF Stack
      <4>4. todo[m].op = "undo" => m = 1
        BY <4>3 DEF Rests
      <4> QED
        BY <1>1, <1>9, <4>3, <4>4
    <3> QED
      BY <3>1, <3>3, <3>4
  <2>3. ASSUME NEW j \in 0..Len(todo), NEW s \in Seq(Elems), NoMemo(s), ~Undoing(s), todo' = s \o Sfx(todo, j)
        PROVE  Onward
    <3>1. PICK t \in Seq(Elems) : t = Sfx(todo, j) /\ NoMemo(t) /\ Awake(t)
      BY <2>2, <2>3
    <3>2. PICK u : u = s \o t
      OBVIOUS
    <3>3. Minded(u, AtClose')
      <4>1. NoMemo(u)
        BY <2>3, <3>1, <3>2, NoMemoCat
      <4> QED
        BY <4>1 DEF NoMemo, Minded
    <3>4. ~Undoing(u)
      <4>1. CASE s = << >>
        <5>1. s \o t = t
          BY <3>1, <4>1
        <5> QED
          BY <3>1, <3>2, <5>1 DEF Awake, Undoing
      <4>2. CASE s # << >>
        <5>1. 1 \in 1..Len(s)
          BY <4>2, EmptySeq, LenProperties
        <5>2. (s \o t)[1] = s[1]
          BY <3>1, <5>1, CatIs
        <5> QED
          BY <2>3, <3>2, <4>2, <5>2 DEF Awake, Undoing
      <4> QED
        BY <4>1, <4>2
    <3> QED
      BY <2>3, <3>1, <3>2, <3>3, <3>4 DEF Onward
  <2>4. CASE Replaced
    <3>1. PICK j \in 0..Len(todo) : \E s \in Seq(Elems) : todo' = s \o Sfx(todo, j) /\ Fresh(events', s)
      BY <2>4 DEF Replaced
    <3>2. PICK s \in Seq(Elems) : todo' = s \o Sfx(todo, j) /\ Fresh(events', s)
      BY <3>1
    <3>3. NoMemo(s)
      BY <1>9, <3>2 DEF NoMemo, Memo, Fresh, Newly
    <3>4. ~Undoing(s)
      <4>1. s # << >> => 1 \in 1..Len(s)
        BY EmptySeq, LenProperties
      <4> QED
        BY <3>2, <4>1 DEF Undoing, Fresh, Newly
    <3> QED
      BY <2>3, <3>2, <3>3, <3>4
  <2>5. CASE Reverted
    <3>1. PICK j \in 2..Len(todo) : todo[j].op = "mark" /\ todo' = <<[todo[j] EXCEPT !.op = "undo"]>> \o Sfx(todo, j)
      BY <2>5 DEF Reverted
    <3>2. j \in 0..Len(todo) /\ j \in 1..Len(todo)
      BY <1>1
    <3>3. ~todo[j].memo
      BY <2>1, <3>1, <3>2 DEF Memo
    <3>4. PICK x : x = [todo[j] EXCEPT !.op = "undo"]
      OBVIOUS
    <3>5. todo[j] \in Saves
      BY <1>1, <3>1, <3>2, ElementOfSeq, ElemKinds
    <3>6. x \in Saves /\ x.op = "undo" /\ ~x.memo
      BY <3>1, <3>3, <3>4, <3>5 DEF Saves
    <3>7. x \in Elems
      BY <3>6 DEF Elems
    <3>8. PICK s \in Seq(Elems) : s = <<x>> /\ Len(s) = 1 /\ s[1] = x
      BY <3>7, OneIs
    <3>9. NoMemo(s) /\ ~Undoing(s)
      BY <3>6, <3>8 DEF NoMemo, Undoing, Memo
    <3>10. todo' = s \o Sfx(todo, j)
      BY <3>1, <3>4, <3>8
    <3> QED
      BY <2>3, <3>2, <3>9, <3>10
  <2> QED
    BY <2>4, <2>5, Rearranged
<1> QED
  BY <1>7, <1>8, <1>9

\* What marks and undos keep of the past.
Untouched(t) == \A i \in 1..Len(t) : t[i].op \in {"mark", "undo"} => "abandoned" \notin t[i].events
Tidy == "abandoned" \notin events /\ Untouched(todo) /\ Minded(todo, AtClose) /\ (Undoing(todo) => AtEnd)

LEMMA TidyInit == Init => Tidy
<1> SUFFICES ASSUME Init PROVE Tidy
  OBVIOUS
<1>1. todo \in Seq(Instructions) /\ events = {}
  BY Closed DEF Init
<1>2. \A i \in 1..Len(todo) : todo[i].op \notin {"mark", "undo"}
  <2>1. \A i \in 1..Len(todo) : todo[i] \in Instructions
    BY <1>1, ElementOfSeq
  <2> QED
    BY <2>1, PlainKinds
<1>3. todo # << >> => 1 \in 1..Len(todo)
  BY <1>1, EmptySeq, LenProperties
<1> QED
  BY <1>1, <1>2, <1>3 DEF Tidy, Untouched, Minded, Memo, Undoing

LEMMA UntouchedStep ==
  ASSUME Shape, [Next]_vars, ~errs, Untouched(todo), "abandoned" \notin events'
  PROVE  Untouched(todo')
<1>1. todo \in Seq(Elems) /\ Len(todo) \in Nat
  BY SinceIs, LenProperties DEF Shape, TypeOK
<1>2. ASSUME NEW j \in 0..Len(todo), NEW s \in Seq(Elems), Untouched(s), todo' = s \o Sfx(todo, j) PROVE Untouched(todo')
  <2>1. /\ Sfx(todo, j) \in Seq(Elems) /\ Len(Sfx(todo, j)) = Len(todo) - j
        /\ \A i \in 1..(Len(todo) - j) : Sfx(todo, j)[i] = todo[i + j]
    BY <1>1, SfxIs
  <2>2. PICK t \in Seq(Elems) : t = Sfx(todo, j)
    BY <2>1
  <2>3. Untouched(t)
    <3>1. \A i \in 1..Len(t) : i + j \in 1..Len(todo) /\ t[i] = todo[i + j]
      BY <1>1, <2>1, <2>2
    <3> QED
      BY <3>1 DEF Untouched
  <2>4. /\ Len(s \o t) = Len(s) + Len(t) /\ Len(s) \in Nat /\ Len(t) \in Nat
        /\ \A i \in 1..Len(s) : (s \o t)[i] = s[i]
        /\ \A i \in (Len(s) + 1)..(Len(s) + Len(t)) : (s \o t)[i] = t[i - Len(s)]
    BY CatIs, LenProperties
  <2>5. PICK u : u = s \o t
    OBVIOUS
  <2>6. Untouched(u)
    <3> SUFFICES ASSUME NEW k \in 1..Len(u), u[k].op \in {"mark", "undo"} PROVE "abandoned" \notin u[k].events
      BY DEF Untouched
    <3>1. k \in 1..Len(s) \/ (k \in (Len(s) + 1)..(Len(s) + Len(t)) /\ k - Len(s) \in 1..Len(t))
      BY <2>4, <2>5
    <3>2. CASE k \in 1..Len(s)
      <4>1. u[k] = s[k]
        BY <2>4, <2>5, <3>2
      <4> QED
        BY <1>2, <3>2, <4>1 DEF Untouched
    <3>3. CASE k \in (Len(s) + 1)..(Len(s) + Len(t)) /\ k - Len(s) \in 1..Len(t)
      <4>1. u[k] = t[k - Len(s)]
        BY <2>4, <2>5, <3>3
      <4> QED
        BY <2>3, <3>3, <4>1 DEF Untouched
    <3> QED
      BY <3>1, <3>2, <3>3
  <2> QED
    BY <1>2, <2>2, <2>5, <2>6
<1>3. CASE Replaced
  <2>1. PICK j \in 0..Len(todo) : \E s \in Seq(Elems) : todo' = s \o Sfx(todo, j) /\ Fresh(events', s)
    BY <1>3 DEF Replaced
  <2>2. PICK s \in Seq(Elems) : todo' = s \o Sfx(todo, j) /\ Fresh(events', s)
    BY <2>1
  <2>3. Untouched(s)
    BY <2>2 DEF Untouched, Fresh, Newly
  <2> QED
    BY <1>2, <2>2, <2>3
<1>4. CASE Reverted
  <2>1. PICK j \in 2..Len(todo) : todo[j].op = "mark" /\ todo' = <<[todo[j] EXCEPT !.op = "undo"]>> \o Sfx(todo, j)
    BY <1>4 DEF Reverted
  <2>2. j \in 0..Len(todo) /\ j \in 1..Len(todo)
    BY <1>1
  <2>3. PICK x : x = [todo[j] EXCEPT !.op = "undo"]
    OBVIOUS
  <2>4. todo[j] \in Saves /\ "abandoned" \notin todo[j].events
    BY <1>1, <2>1, <2>2, ElementOfSeq, ElemKinds DEF Untouched
  <2>5. x \in Saves /\ x.events = todo[j].events
    BY <2>3, <2>4 DEF Saves
  <2>6. x \in Elems
    BY <2>5 DEF Elems
  <2>7. PICK s \in Seq(Elems) : s = <<x>> /\ Len(s) = 1 /\ s[1] = x
    BY <2>6, OneIs
  <2>8. Untouched(s)
    BY <2>4, <2>5, <2>7 DEF Untouched
  <2>9. todo' = s \o Sfx(todo, j)
    BY <2>1, <2>3, <2>7
  <2> QED
    BY <1>2, <2>2, <2>8, <2>9
<1> QED
  BY <1>3, <1>4, Rearranged

LEMMA TidyStep ==
  ASSUME Shape, [Next]_vars, errs \/ Tidy
  PROVE  (errs \/ Tidy)'
<1> SUFFICES ASSUME ~errs' PROVE Tidy'
  OBVIOUS
<1>1. TypeOK /\ todo \in Seq(Elems) /\ Len(todo) \in Nat
  BY SinceIs, LenProperties DEF Shape, TypeOK
<1>2. ~errs /\ Tidy
  BY <1>1, ErrsStay
<1>3. "abandoned" \notin events'
  <2>1. \A E : Saw(E) /\ "abandoned" \notin E => "abandoned" \notin events'
    BY <1>2 DEF Saw, Tidy
  <2>2. CASE Lex
    BY <1>1, <1>2, <2>2, LexIs DEF account, Tidy
  <2>3. CASE Undo
    <3>1. ins.op = "undo" /\ todo # << >> /\ ins = todo[1]
          /\ events' = IF ins.errs THEN events
                       ELSE ins.events \cup {e \in {"abandoned"} : ins.memo /\ ~errs /\ (Seen(1) => Peek # "eof")}
      BY <2>3 DEF Undo, Now, ins
    <3>2. 1 \in 1..Len(todo)
      BY <1>1, <3>1, EmptySeq
    <3>3. "abandoned" \notin ins.events
      BY <1>2, <3>1, <3>2 DEF Tidy, Untouched
    <3>4. ins.memo => Seen(1) /\ Peek = "eof"
      BY <1>2, <3>1 DEF Tidy, Undoing, AtEnd
    <3> QED
      BY <1>2, <3>1, <3>3, <3>4 DEF Tidy
  <2>4. Reads
    BY <1>1, CursorMoves
  <2> QED
    BY <1>2, <2>1, <2>2, <2>3, <2>4 DEF Reads, Ignored, account, Took, Reported, Tidy
<1>4. Untouched(todo')
  BY <1>2, <1>3, UntouchedStep DEF Tidy
<1>5. CASE Lex
  <2>1. todo' = todo
    BY <1>1, <1>5, LexIs
  <2>2. Seen(1) => Seen(1)' /\ Peek' = Peek
    BY <1>1, <1>5, SeenLexed DEF Peek
  <2>3. AtClose => AtClose'
    BY <2>2 DEF AtClose
  <2>4. AtEnd => AtEnd'
    BY <2>2 DEF AtEnd
  <2>5. PICK t : t = todo
    OBVIOUS
  <2>6. PICK c \in BOOLEAN : Minded(t, c) /\ (c => AtClose)
    BY <1>2, <2>5, Attending DEF Tidy
  <2>7. Minded(t, AtClose')
    BY <2>3, <2>6, Attended
  <2> QED
    BY <1>2, <1>3, <1>4, <2>1, <2>4, <2>5, <2>7 DEF Tidy
<1>6. CASE UNCHANGED vars
  <2>1. AtClose' = AtClose /\ AtEnd' = AtEnd /\ todo' = todo
    BY <1>6 DEF vars, cursor, AtClose, AtEnd, Seen, Peek, At, Ended
  <2> QED
    BY <1>2, <1>3, <1>4, <2>1 DEF Tidy
<1>7. CASE ~Lex /\ ~UNCHANGED vars
  <2>1. Onward
    <3>1. CASE \E j \in 2..Len(todo) : Memo(todo[j])
      BY <1>2, <1>7, <3>1, MindedStep DEF Tidy
    <3>2. CASE \A j \in 2..Len(todo) : ~Memo(todo[j])
      BY <1>2, <1>7, <3>2, NoMemoStep
    <3> QED
      BY <3>1, <3>2
  <2> QED
    BY <1>3, <1>4, <2>1 DEF Onward, Tidy
<1> QED
  BY <1>5, <1>6, <1>7

LEMMA TidyAlways == Spec => [](errs \/ Tidy)
<1>1. Init => errs \/ Tidy
  BY TidyInit
<1>2. Shape /\ (errs \/ Tidy) /\ [Next]_vars => (errs \/ Tidy)'
  BY TidyStep
<1> QED
  BY <1>1, <1>2, WellFormed, PTL DEF Spec

\* NothingElseSilent: recovery passes over a token only after something was reported, or gave up at a place known to be
\* silent; and an attempt at a list of arguments that leaves no report fails only where the file ends.
THEOREM NothingPassesInSilence == Spec => []NothingElseSilent
<1>1. Sound /\ (errs \/ Tidy) => NothingElseSilent
  <2>1. SkipsNothing /\ (errs \/ Tidy) => NothingElseSilent
    BY DEF SkipsNothing, NothingElseSilent, Accepted, Tidy
  <2> QED
    BY <2>1, SoundSkips
<1> QED
  BY <1>1, SoundAlways, TidyAlways, PTL

===============================================================================
