-------------------------------- MODULE Parser --------------------------------
(***************************************************************************)
(* The recursive descent parser at work (crates/rd_parser): parser.rs,     *)
(* cursor.rs and the Pratt loop of parse_expr.rs execute the functions of  *)
(* Grammar over a token stream.  `todo` is what is left of every function  *)
(* on the call stack, innermost first.  Tokens are drawn when a function   *)
(* looks at them, so a behaviour stands for all files with that beginning. *)
(***************************************************************************)
EXTENDS Grammar, Integers, FiniteSetsExt

CONSTANT Files   \* of records: `begins` with some tokens, at most `more` out of `tokens` follow
ASSUME FilesAssumption == \A f \in Files : f.begins \in Seq(STRING) /\ f.more \in Nat /\ f.tokens \subseteq STRING

VARIABLES file,        \* what the file may consist of
          todo,        \* the call stack: instructions still to execute
          drawn, base, \* the tokens from position base on that were looked at
          pos, half,   \* Cursor: pos, split_at
          nsl,         \* no_struct_lit
          val,         \* what the last expression or attribute list was
          made,        \* parse_item_or_block produced an item
          miss,        \* positions MemoRule::GenericArgs remembers as a miss
          errs,        \* something was reported
          events,      \* what happened before anything was reported (not in the code)
          nest         \* the brackets consumed and not closed (not in the code)

cursor == <<file, drawn, base, pos, half, miss>>
flags == <<nsl, val, made>>
account == <<errs, events, nest>>
vars == <<todo, cursor, flags, account>>

-----------------------------------------------------------------------------
(* The cursor.                                                             *)

NoSplit == -1
Split == half = pos            \* the first ">" of this ">>" closed a list

At(k) == IF pos - base + k <= Len(drawn) THEN drawn[pos - base + k] ELSE "eof"
Peek == At(1)
Ended == drawn # << >> /\ drawn[Len(drawn)] = "eof"
Seen(n) == pos - base + n <= Len(drawn) \/ Ended

ins == todo[1]
rest == Tail(todo)

\* How many tokens the next instruction looks at.
Looks ==
    CASE ins.op \in {"expect", "quiet", "eat", "close", "noted", "advance", "loop", "switch", "skip", "guard", "gclose"} -> 1
      [] ins.op = "if" ->
            IF \E k \in 1..Len(ins.look) : Seen(k) /\ At(k) \notin ins.look[k] THEN 1 ELSE Len(ins.look)
      [] ins.op = "infix" ->
            IF Seen(1) /\ Peek = "or" THEN 2 ELSE IF Seen(1) /\ Peek = "{" /\ val = "path" /\ ~nsl THEN 3 ELSE 1
      [] ins.op = "scan" -> ins.at + 3
      [] OTHER -> 0

Now(op) == todo # << >> /\ ins.op = op /\ Seen(Looks)

Lex ==
    /\ todo # << >> /\ ~Seen(Looks)
    /\ LET n == base + Len(drawn)
           given == Len(file.begins)
       IN \E t \in CASE n < given -> {file.begins[n + 1]}
                      [] n < given + file.more -> file.tokens \cup {"eof"}
                      [] OTHER -> {"eof"} :
              drawn' = Append(drawn, t)
    /\ UNCHANGED <<file, todo, base, pos, half, miss, flags, account>>

Opening == {"(", "[", "{"}
Closing == {")", "]", "}"}
Partner == [t \in Opening |-> CASE t = "(" -> ")" [] t = "[" -> "]" [] t = "{" -> "}"]
Nested(t) ==
    IF t \in Opening THEN <<Partner[t]>> \o nest
    ELSE IF t \in Closing THEN (IF nest # << >> /\ nest[1] = t THEN Tail(nest) ELSE <<t>> \o nest)
    ELSE nest

Speculating == \E i \in DOMAIN todo : todo[i].op = "mark"
Consumed ==            \* Cursor::advance: the end of input is never passed
    /\ pos' = IF Peek = "eof" THEN pos ELSE pos + 1
    /\ UNCHANGED <<file, half>>
    /\ IF Speculating THEN UNCHANGED <<drawn, base, miss>>
       ELSE /\ drawn' = SubSeq(drawn, pos' - base + 1, Len(drawn))
            /\ base' = pos'
            /\ miss' = {m \in miss : m >= pos'}
Saw(E) == /\ events' = IF errs THEN events ELSE events \cup E
          /\ UNCHANGED errs
Took(E) == /\ Consumed
           /\ Saw(E)
           /\ nest' = IF errs THEN nest ELSE Nested(Peek)
Reported == errs' = TRUE /\ nest' = << >> /\ UNCHANGED events
Ignored == UNCHANGED <<cursor, account>>

\* `?` on a None: the functions up to the one that handles it are left.
GaveUp(t) ==
    LET i == Min({j \in DOMAIN t : t[j].op \in {"caught", "mark"}})
        below == SubSeq(t, i + 1, Len(t))
    IN IF t[i].op = "caught" THEN t[i].then \o below ELSE <<[t[i] EXCEPT !.op = "undo"]>> \o below
Left(t) == SubSeq(t, Min({j \in DOMAIN t : t[j].op = "loop"}) + 1, Len(t))

-----------------------------------------------------------------------------
(* Consuming, reporting and giving up.                                     *)

\* (mutant) a token that is missing is not reported
ExpectUnreported ==
    /\ Now("expect") /\ UNCHANGED flags
    /\ \/ Peek \in ins.toks /\ Took({}) /\ todo' = rest
       \/ Peek \notin ins.toks /\ Ignored /\ todo' = GaveUp(rest)
Expect ==
    /\ Now("expect") /\ UNCHANGED flags
    /\ \/ Peek \in ins.toks /\ Took({}) /\ todo' = rest
       \/ Peek \notin ins.toks /\ Reported /\ UNCHANGED cursor /\ todo' = GaveUp(rest)
ExpectQuietly ==
    /\ Now("quiet") /\ UNCHANGED flags
    /\ \/ Peek \in ins.toks /\ Took({}) /\ todo' = rest
       \/ Peek \notin ins.toks /\ Saw({ins.place}) /\ UNCHANGED <<cursor, nest>> /\ todo' = GaveUp(rest)
EatIf ==
    /\ Now("eat") /\ UNCHANGED flags /\ todo' = rest
    /\ \/ Peek \in ins.toks /\ Took({})
       \/ Peek \notin ins.toks /\ Saw({ins.place} \ {""}) /\ UNCHANGED <<cursor, nest>>
EatNoted ==
    /\ Now("noted") /\ UNCHANGED flags /\ todo' = rest
    /\ IF Peek \in ins.toks THEN Took({ins.place}) ELSE Ignored
\* (mutant) a bracket that is missing is not reported
CloseIfThere ==
    /\ Now("close") /\ UNCHANGED flags /\ todo' = rest
    /\ IF Peek \in ins.toks THEN Took({}) ELSE Ignored
CloseOrReport ==
    /\ Now("close") /\ UNCHANGED flags /\ todo' = rest
    /\ IF Peek \in ins.toks THEN Took({}) ELSE Reported /\ UNCHANGED cursor
Advance == Now("advance") /\ Took({}) /\ todo' = rest /\ UNCHANGED flags
Report == Now("emit") /\ Reported /\ todo' = rest /\ UNCHANGED <<cursor, flags>>
GiveUp == Now("fail") /\ todo' = GaveUp(rest) /\ Ignored /\ UNCHANGED flags

\* skip_until_any
SkipToSync ==
    /\ Now("skip") /\ UNCHANGED flags
    /\ IF Peek \in ins.sync \cup {"eof"} THEN todo' = rest /\ Ignored ELSE UNCHANGED todo /\ Took({})

\* eat_generic_close: the first call on a ">>" only marks it.
GenericClose ==
    /\ Now("gclose") /\ UNCHANGED flags
    /\ \/ Peek = ">" /\ Took({}) /\ todo' = rest
       \/ Peek = ">>" /\ todo' = rest
          /\ \/ Split /\ Consumed /\ UNCHANGED account
             \/ ~Split /\ half' = pos /\ UNCHANGED <<file, drawn, base, pos, miss, account>>
       \/ Peek \notin {">", ">>"} /\ UNCHANGED cursor
          /\ CASE ins.how = "emit" -> Reported /\ todo' = rest
               [] ins.how = "expect" -> Reported /\ todo' = GaveUp(rest)
               [] ins.how = "fail" -> UNCHANGED account /\ todo' = GaveUp(rest)
               [] ins.how = "hope" -> Saw({"pool type"}) /\ UNCHANGED nest /\ todo' = rest

-----------------------------------------------------------------------------
(* Choosing, calling and repeating.                                        *)

LookAhead ==
    /\ Now("if") /\ Ignored /\ UNCHANGED flags
    /\ todo' = (IF \A k \in DOMAIN ins.look : At(k) \in ins.look[k] THEN ins.then ELSE ins.else) \o rest
MatchToken ==
    /\ Now("switch") /\ Ignored /\ UNCHANGED flags
    /\ LET fits == {i \in DOMAIN ins.arms : Peek \in ins.arms[i][1]}
       IN todo' = (IF fits = {} THEN ins.otherwise ELSE ins.arms[Min(fits)][2]) \o rest
SetVal == Now("val") /\ val' = ins.val /\ todo' = rest /\ Ignored /\ UNCHANGED <<nsl, made>>
NoteTier ==        \* TierAnnotation of the attributes read so far
    /\ Now("note") /\ todo' = rest /\ Ignored /\ UNCHANGED <<nsl, made>>
    /\ val' = CASE ins.val = "attr" -> (IF val = "none" THEN "attr" ELSE val)
                [] ins.val = "bad" -> (IF val = "low" THEN "low" ELSE "tier")
                [] OTHER -> ins.val
AskVal ==
    /\ Now("ifval") /\ Ignored /\ UNCHANGED flags
    /\ todo' = (IF val \in ins.vals THEN ins.then ELSE ins.else) \o rest
CallRule == Now("call") /\ todo' = Rule(ins.f) \o rest /\ Ignored /\ UNCHANGED flags
ParseBp == Now("bp") /\ todo' = <<Call("prefix"), Infix(ins.min)>> \o rest /\ Ignored /\ UNCHANGED flags

\* One round of the loop of parse_bp: what stands behind an expression.
Jumping == Peek = "or" /\ At(2) \in {"return", "break", "continue"}
LiteralAhead ==
    Peek = "{" /\ ~nsl /\ val = "path" /\ (At(2) = "}" \/ (At(2) \in Ids /\ At(3) = "="))
Stronger == Peek \in DOMAIN Power /\ Power[Peek][1] >= ins.min
InfixRound ==
    /\ Now("infix") /\ UNCHANGED flags
    /\ \/ Jumping /\ ins.min <= 5 /\ Took({}) /\ todo' = OrElse \o todo
       \/ LiteralAhead /\ Ignored /\ todo' = StructLit \o todo
       \/ ~Jumping /\ ~LiteralAhead /\ Stronger /\ Took({}) /\ todo' = AfterOp(Peek) \o todo
       \/ ~(Jumping /\ ins.min <= 5) /\ ~LiteralAhead /\ ~(~Jumping /\ Stronger) /\ Ignored /\ todo' = rest

Repeat ==
    /\ Now("loop") /\ Ignored /\ UNCHANGED flags
    /\ todo' = IF Peek \in ins.stop \cup {"eof"} THEN rest ELSE ins.body \o todo
BreakOut == Now("break") /\ todo' = Left(rest) /\ Ignored /\ UNCHANGED flags
Handle ==
    /\ Now("catch") /\ Ignored /\ UNCHANGED flags
    /\ todo' = ins.body \o <<[op |-> "caught", then |-> ins.then]>> \o rest
NothingCaught == Now("caught") /\ todo' = rest /\ Ignored /\ UNCHANGED flags
NotePosition ==
    /\ Now("advancing") /\ Ignored /\ UNCHANGED flags
    /\ todo' = ins.body \o <<[op |-> "guard", from |-> pos]>> \o rest
\* (mutant) nothing is forced
GuardNothing == Now("guard") /\ UNCHANGED flags /\ todo' = rest /\ Ignored
GuardProgress ==
    /\ Now("guard") /\ UNCHANGED flags /\ todo' = rest
    /\ IF pos = ins.from /\ Peek # "eof" THEN Took({}) ELSE Ignored

-----------------------------------------------------------------------------
(* What is saved and put back.                                             *)

Limit ==           \* enter_no_struct_lit, clear_no_struct_lit
    /\ Now("nsl") /\ nsl' = ins.nsl /\ Ignored /\ UNCHANGED <<val, made>>
    /\ LET Back(failed) == [op |-> "restore", nsl |-> nsl, head |-> ins.nsl, open |-> Len(nest), failed |-> failed]
       IN todo' = ins.body \o <<[op |-> "caught", then |-> <<Back(TRUE)>>], Back(FALSE)>> \o rest
\* (mutant) `?` before leave_no_struct_lit
RestoreSkipped ==
    /\ Now("restore") /\ nsl' = (IF ins.failed THEN nsl ELSE ins.nsl) /\ Ignored /\ UNCHANGED <<val, made>>
    /\ todo' = IF ins.failed THEN GaveUp(rest) ELSE rest
Restore ==
    /\ Now("restore") /\ nsl' = ins.nsl /\ Ignored /\ UNCHANGED <<val, made>>
    /\ todo' = IF ins.failed THEN GaveUp(rest) ELSE rest

\* Cursor::position and Cursor::restore; a miss is remembered.
Attempt ==
    /\ Now("speculate") /\ Ignored /\ UNCHANGED flags
    /\ todo' = IF ins.memo /\ pos \in miss THEN rest
               ELSE ins.body \o <<[op |-> "mark", memo |-> ins.memo, pos |-> pos, errs |-> errs,
                                   events |-> events, nest |-> nest]>> \o rest
Succeed == Now("mark") /\ todo' = rest /\ Ignored /\ UNCHANGED flags

Undo ==
    /\ Now("undo") /\ todo' = rest /\ UNCHANGED <<file, drawn, base, flags, errs>>
    /\ pos' = ins.pos /\ half' = NoSplit
    /\ miss' = miss \cup (IF ins.memo THEN {ins.pos} ELSE {})
    /\ events' = IF ins.errs THEN events
                 ELSE ins.events \cup {e \in {"abandoned"} : ins.memo /\ ~errs /\ (Seen(1) => Peek # "eof")}
    /\ nest' = IF errs THEN nest ELSE ins.nest

\* lambda_return_type_ahead: nothing is consumed until the whole type was seen.
TypeNames == Ids \cup Collections \cup {"InlineList", "Task"}
LambdaResult ==
    /\ Now("scan") /\ Ignored /\ UNCHANGED flags
    /\ LET t == At(ins.at + 1)
           Go(part, n, depth) ==
               todo' = <<[ins EXCEPT !.part = part, !.at = ins.at + n, !.depth = depth]>> \o rest
           deeper == ins.depth + (CASE t = "<" -> 1 [] t = ">" -> -1 [] t = ">>" -> -2 [] OTHER -> 0)
           literal == At(ins.at + 2) = "}" \/ (At(ins.at + 2) \in Ids /\ At(ins.at + 3) = "=")
       IN CASE ins.part = "name" /\ t \in TypeNames -> Go("path", 1, 0)
            [] ins.part = "path" /\ t = "." /\ At(ins.at + 2) \in Ids -> Go("path", 2, 0)
            [] ins.part = "path" /\ t = "<" -> Go("args", 1, 1)
            [] ins.part = "args" /\ t \in TypeNames \cup {"<", ">", ">>", ",", ".", "?", "!"} /\ deeper >= 0 ->
                   Go(IF deeper = 0 THEN "post" ELSE "args", 1, deeper)
            [] ins.part \in {"path", "post"} /\ t \in {"?", "!"} -> Go("post", 1, 0)
            [] ins.part \in {"path", "post"} /\ t = "{" /\ ~literal ->
                   todo' = [i \in 1..ins.at |-> Adv] \o <<Error>> \o rest
            [] OTHER -> todo' = rest

\* An item of an attribute block, which ends when one produced nothing.
BlockItem ==
    /\ Now("item") /\ made' = FALSE /\ Ignored /\ UNCHANGED <<nsl, val>>
    /\ todo' = <<Call("item"), [op |-> "grown", was |-> made]>> \o rest
BlockGrown ==
    /\ Now("grown") /\ Ignored /\ UNCHANGED <<nsl, val>>
    /\ \/ made /\ todo' = rest /\ UNCHANGED made
       \/ ~made /\ todo' = Left(rest) /\ made' = ins.was
ItemMade == Now("made") /\ made' = TRUE /\ todo' = rest /\ Ignored /\ UNCHANGED <<nsl, val>>

-----------------------------------------------------------------------------

Init ==
    /\ file \in Files /\ todo = Program
    /\ drawn = << >> /\ base = 0 /\ pos = 0 /\ half = NoSplit /\ miss = {}
    /\ nsl = FALSE /\ val = "none" /\ made = FALSE
    /\ errs = FALSE /\ events = {} /\ nest = << >>

Next ==
    \/ Lex \/ Expect \/ ExpectQuietly \/ EatIf \/ EatNoted \/ CloseOrReport \/ Advance \/ Report \/ GiveUp
    \/ SkipToSync \/ GenericClose \/ LookAhead \/ MatchToken \/ SetVal \/ NoteTier \/ AskVal \/ CallRule
    \/ ParseBp \/ InfixRound \/ Repeat \/ BreakOut \/ Handle \/ NothingCaught \/ NotePosition \/ GuardProgress
    \/ Limit \/ Restore \/ Attempt \/ Succeed \/ Undo \/ LambdaResult \/ BlockItem \/ BlockGrown \/ ItemMade

Spec == Init /\ [][Next]_vars /\ WF_vars(Next)

-----------------------------------------------------------------------------
(* Properties.                                                             *)

Done == todo = << >>
Accepted == Done /\ ~errs

\* Whatever the file, parsing ends: every loop over a list makes progress, also where a function
\* failed on a token its recovery stops at (guard_progress, the advance of parse_item_or_block).
Terminates == <>Done

\* The places where a function gives up and reports nothing (`eat_ident()?`,
\* parse_type_annotation()?) or goes on without a bracket it looked for.
KnownSilent ==
    {"allocator", "cfg argument", "field type", "variant field type", "accessor", "fn type", "variant",
     "import alias", "import list", "pool type"}
Skips ==
    /\ todo # << >> /\ Seen(1) /\ Peek # "eof"
    /\ \/ ins.op = "skip" /\ Peek \notin ins.sync
       \/ ins.op = "guard" /\ ins.from = pos
\* A token is passed over by recovery only after something was reported, but for the places above;
\* and a "<" after a type is a list of arguments or an error, never read as something else, but
\* where the file ends inside the list (`const a = b as c < d` is accepted as a comparison).
NothingElseSilent ==
    /\ Skips => errs \/ events \cap KnownSilent # {}
    /\ Accepted => "abandoned" \notin events

\* A file without errors closes every bracket it opens, and in order, but for files that went
\* through a silent place or a call with a second "(", which its one ")" closes too; and a half
\* consumed ">>" is never ahead of the cursor: what a speculation did to it is undone with it.
Balanced ==
    /\ Accepted /\ events \cap (KnownSilent \cup {"second ("}) = {} => nest = << >>
    /\ half <= pos

Marks(op) == {i \in DOMAIN todo : todo[i].op = op}
\* The ban on struct literals is of the head being parsed: it ends with the head, and it is lifted
\* within the round and square brackets of the head but for those of `?.` calls and allocators.
RestrictionScoped ==
    nsl => /\ Marks("restore") # {}
           /\ LET head == todo[Min(Marks("restore"))]
              IN head.head /\ (~errs /\ todo # << >> /\ ins.op = "infix" /\ events \cap (KnownSilent \cup {"?.(", "sized (", "second ("}) = {}
                                   => Len(nest) <= head.open \/ nest[1] = "}")
===============================================================================
