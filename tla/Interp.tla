------------------------------- MODULE Interp -------------------------------
(***************************************************************************)
(* interpreter/eval/stmt.rs: the tree-walking evaluation of a function's   *)
(* body, with the scope stack of interpreter/env.rs.                       *)
(*                                                                         *)
(* The recursion of eval_block and eval_stmt is the stack `ctl`.  A block  *)
(* being evaluated is a frame [k |-> "block", at, i, defers]: the prefix   *)
(* of its paths, the next statement and the deferred expressions.  It pops *)
(* one scope when it is left: its own, or the one that was pushed for it   *)
(* with a loop variable, the bindings of an arm, a resource or a caught    *)
(* error.  A loop, and a `try` whose body runs, have a frame under that of *)
(* their block; an `if`, an arm and a `with` return what their block       *)
(* returns.  `sig` is the result on its way: "ok" or a Signal.             *)
(***************************************************************************)
EXTENDS Resolver

CONSTANT MaxRounds    \* bound: the rounds of one loop

VARIABLES body,   \* the function's block
          env,    \* the scopes: name -> the path of the statement that defined it
          ctl,    \* the frames
          sig,    \* "ok" or the Signal: "fail", "return", "break", "continue", "panic"
          did     \* what the last step evaluated and bound

ivars == <<body, env, ctl, sig, did>>

Loops == Counted \cup {"loop"}

Frame(k, at, i) == [k |-> k, at |-> at, i |-> i, defers |-> <<>>]
BlockFrame(at)  == Frame("block", at, 1)

Top   == Last(ctl)
Below == Front(ctl)

InBlock  == ctl # <<>> /\ Top.k = "block"
AtEnd    == Top.i > Len(BlockAt(body, Top.at)) \/ sig # "ok"
Here     == Append(Top.at, Top.i)
Stmt     == StmtAt(body, Here)
Ready(k) == InBlock /\ ~AtEnd /\ Stmt.k \in k
Advanced == Append(Below, [Top EXCEPT !.i = @ + 1])

\* Environment::push with a first binding, and Environment::define.
Pushed(e, n, p)  == Append(e, IF n = NoName THEN <<>> ELSE n :> p)
Defined(e, n, p) == Append(Front(e), (n :> p) @@ Last(e))

\* The names evaluated, with the definition each lookup finds.
Uses(e, p, part, acc) ==
    [i \in DOMAIN acc |-> [at |-> p, part |-> part, n |-> acc[i].n, h |-> acc[i].h,
                           d |-> DepthOf(e, acc[i].n), def |-> ResolveName(e, acc[i].n)]]

\* What evaluating the expressions of s may look up: all of `acc`, and `hid`
\* when the branch or the guard that holds it is taken.
Evaluations(e, p, s) ==
    LET seen == Uses(e, p, "acc", s.acc)
    IN  {seen} \cup (IF s.hid = <<>> THEN {} ELSE {seen \o Uses(e, p, "hid", s.hid)})

Outcomes(s) == {"ok"} \cup s.esc

\* how: "start" a statement, "unmatched" for a match that takes no arm,
\* "again" for a loop's condition, "deferred", "caught", "swallowed" or
\* "quiet"; raised: the signal of an expression.
Did(how, p, uses, binds, raised) ==
    [how |-> how, at |-> p, uses |-> uses, binds |-> binds, raised |-> raised]

Quiet(how) == Did(how, <<>>, <<>>, NoName, "ok")

IInit(blocks) ==
    /\ body \in blocks
    /\ env = <<[n \in Params |-> Parameter], <<>>>>
    /\ ctl = <<BlockFrame(<<>>)>>
    /\ sig = "ok"
    /\ did = Quiet("quiet")

\* An expression raised o: the statement is over and so is its block.
Raise(o) == sig' = o /\ UNCHANGED <<env, ctl>>

Straightline ==
    /\ Ready({"let", "assign", "expr"})
    /\ \E u \in Evaluations(env, Here, Stmt), o \in Outcomes(Stmt) :
         /\ did' = Did("start", Here, u, IF o = "ok" THEN Stmt.def ELSE NoName, o)
         /\ \/ o # "ok" /\ Raise(o)
            \/ /\ o = "ok"
               /\ ctl' = Advanced
               /\ env' = IF Stmt.k = "let" /\ Stmt.def # NoName THEN Defined(env, Stmt.def, Here) ELSE env
               /\ sig' = sig
    /\ body' = body

\* The expression is kept, not evaluated.
Defer ==
    /\ Ready({"defer"})
    /\ ctl' = Append(Below, [Top EXCEPT !.i = @ + 1, !.defers = Append(@, Here)])
    /\ did' = Did("start", Here, <<>>, NoName, "ok")
    /\ UNCHANGED <<body, env, sig>>

Jump ==
    /\ Ready(Jumps)
    /\ \E u \in Evaluations(env, Here, Stmt), o \in Outcomes(Stmt) :
         /\ did' = Did("start", Here, u, NoName, o)
         /\ Raise(IF o = "ok" THEN Stmt.k ELSE o)
    /\ body' = body

\* The frames with the j-th body of the statement about to run.
Into(j) == Append(Advanced, BlockFrame(Here \o <<j>>))

\* `if`, `with` and `unsafe`: eval_block on a body, or on none.
EnterIf ==
    /\ Ready({"if", "with", "unsafe"})
    /\ \E u \in Evaluations(env, Here, Stmt), o \in Outcomes(Stmt) :
         /\ did' = Did("start", Here, u, NoName, o)
         /\ \/ o # "ok" /\ Raise(o)
            \/ /\ o = "ok"
               /\ \E j \in DOMAIN Stmt.bodies : ctl' = Into(j)
               /\ env' = Pushed(env, NoName, Here)
               /\ sig' = sig
            \/ /\ o = "ok" /\ Stmt.k = "if" /\ ~Stmt.last
               /\ ctl' = Advanced
               /\ UNCHANGED <<env, sig>>
    /\ body' = body

\* The arms are tried in a scope of their own; the statement does nothing when
\* none is taken.  A guard that raises leaves with `?`, before the pop.
EnterMatch ==
    /\ Ready({"match"})
    /\ LET arm == Pushed(env, Stmt.def, Here)
           seen == Uses(env, Here, "acc", Stmt.acc)
           guarded == IF Stmt.hid = <<>> THEN seen ELSE seen \o Uses(arm, Here, "hid", Stmt.hid)
       IN  \/ \E o \in Stmt.esc :
                /\ did' = Did("start", Here, seen, NoName, o)
                /\ Raise(o)
           \/ \E o \in Stmt.esc :
                /\ Stmt.hid # <<>>
                /\ did' = Did("start", Here, guarded, Stmt.def, o)
                /\ env' = arm /\ sig' = o /\ ctl' = ctl
           \/ /\ did' = Did("unmatched", Here, guarded, NoName, "ok")
              /\ ctl' = Advanced
              /\ UNCHANGED <<env, sig>>
           \/ \E j \in DOMAIN Stmt.bodies :
                /\ did' = Did("start", Here, guarded, Stmt.def, "ok")
                /\ ctl' = Into(j)
                /\ env' = arm /\ sig' = sig
    /\ body' = body

\* The resource is evaluated inside the scope pushed for it; when it raises
\* that scope stays.
EnterUsing ==
    /\ Ready({"using"})
    /\ LET inner == Pushed(env, NoName, Here)
       IN  \E o \in Outcomes(Stmt) :
             /\ did' = Did("start", Here, Uses(inner, Here, "acc", Stmt.acc),
                           IF o = "ok" THEN Stmt.def ELSE NoName, o)
             /\ env' = IF o = "ok" THEN Pushed(env, Stmt.def, Here) ELSE inner
             /\ ctl' = IF o = "ok" THEN Into(1) ELSE ctl
             /\ sig' = IF o = "ok" THEN sig ELSE o
    /\ body' = body

EnterTry ==
    /\ Ready({"try"})
    /\ ctl' = Advanced \o <<Frame("try", Here, 0), BlockFrame(Here \o <<1>>)>>
    /\ env' = Pushed(env, NoName, Here)
    /\ did' = Did("start", Here, <<>>, NoName, "ok")
    /\ UNCHANGED <<body, sig>>

\* `for` evaluates its collection once; `while` and `loop` nothing yet.
EnterLoop ==
    /\ Ready(Loops)
    /\ LET opened == Append(Advanced, Frame(Stmt.k, Here, 0))
       IN  IF Stmt.k = "for"
           THEN \E u \in Evaluations(env, Here, Stmt), o \in Outcomes(Stmt) :
                  /\ did' = Did("start", Here, u, NoName, o)
                  /\ \/ o # "ok" /\ Raise(o)
                     \/ o = "ok" /\ ctl' = opened /\ UNCHANGED <<env, sig>>
           ELSE /\ did' = IF Stmt.k = "loop" THEN Did("start", Here, <<>>, NoName, "ok") ELSE Quiet("quiet")
                /\ ctl' = opened
                /\ UNCHANGED <<env, sig>>
    /\ body' = body

AtLoop == ctl # <<>> /\ Top.k \in Loops

Looped == StmtAt(body, Top.at)

NextRound(n) ==
    /\ ctl' = Append(Append(Below, [Top EXCEPT !.i = @ + 1]), BlockFrame(Top.at \o <<1>>))
    /\ env' = Pushed(env, n, Top.at)
    /\ sig' = "ok"

LoopEnds(s) == ctl' = Below /\ env' = env /\ sig' = s

\* The top of a loop: `while` evaluates its condition, every round anew; the
\* `next` of an iterator may raise.
Round ==
    /\ AtLoop
    /\ sig \in {"ok", "continue"}
    /\ Top.i < MaxRounds
    /\ \/ /\ Top.k = "while"
          /\ \E u \in Evaluations(env, Top.at, Looped), o \in Outcomes(Looped) :
               /\ did' = Did(IF Top.i = 0 THEN "start" ELSE "again", Top.at, u, NoName, o)
               /\ \/ o # "ok" /\ LoopEnds(o)
                  \/ o = "ok" /\ NextRound(NoName)
                  \/ o = "ok" /\ LoopEnds("ok")
       \/ /\ Top.k = "loop"
          /\ did' = Quiet("quiet")
          /\ NextRound(NoName)
       \/ /\ Top.k = "for"
          /\ \/ NextRound(Looped.def) /\ did' = Did("quiet", Top.at, <<>>, Looped.def, "ok")
             \/ LoopEnds("ok") /\ did' = Quiet("quiet")
             \/ \E o \in Looped.esc : LoopEnds(o) /\ did' = Did("quiet", <<>>, <<>>, NoName, o)
    /\ body' = body

LeaveLoop ==
    /\ AtLoop
    /\ sig \notin {"ok", "continue"}
    /\ LoopEnds(IF sig = "break" THEN "ok" ELSE sig)
    /\ did' = Quiet("quiet")
    /\ body' = body

\* Only a fail is caught; without a catch it is swallowed.
LeaveTry ==
    /\ ctl # <<>> /\ Top.k = "try"
    /\ LET s == StmtAt(body, Top.at)
       IN  \/ /\ sig = "fail" /\ s.last
              /\ ctl' = Append(Below, BlockFrame(Top.at \o <<2>>))
              /\ env' = Pushed(env, s.def, Top.at)
              /\ sig' = "ok"
              /\ did' = [Quiet("caught") EXCEPT !.binds = s.def]
           \/ /\ sig = "fail" /\ ~s.last
              /\ ctl' = Below /\ env' = env /\ sig' = "ok"
              /\ did' = Quiet("swallowed")
           \/ /\ sig # "fail"
              /\ ctl' = Below /\ UNCHANGED <<env, sig>>
              /\ did' = Quiet("quiet")
    /\ body' = body

\* Deferred expressions run last in first out, in the block's scope, on
\* every way out; what one raises is dropped.
RunDeferred ==
    /\ InBlock /\ AtEnd /\ Top.defers # <<>>
    /\ LET p == Last(Top.defers)
       IN  \E u \in Evaluations(env, p, StmtAt(body, p)) :
             did' = Did("deferred", p, u, NoName, "ok")
    /\ ctl' = Append(Below, [Top EXCEPT !.defers = Front(@)])
    /\ UNCHANGED <<body, env, sig>>

\* Mutant: a signal passes without the pop.
LeaveBlockKeepsScope ==
    /\ InBlock /\ AtEnd /\ Top.defers = <<>>
    /\ ctl' = Below
    /\ env' = IF sig = "ok" THEN Front(env) ELSE env
    /\ did' = Quiet("quiet")
    /\ UNCHANGED <<body, sig>>

LeaveBlock ==
    /\ InBlock /\ AtEnd /\ Top.defers = <<>>
    /\ ctl' = Below
    /\ env' = Front(env)
    /\ did' = Quiet("quiet")
    /\ UNCHANGED <<body, sig>>

Step ==
    \/ Straightline \/ Defer \/ Jump
    \/ EnterIf \/ EnterMatch \/ EnterUsing \/ EnterTry \/ EnterLoop
    \/ Round \/ LeaveLoop \/ LeaveTry \/ RunDeferred \/ LeaveBlock

Over == ctl = <<>> \/ (AtLoop /\ sig \in {"ok", "continue"} /\ Top.i = MaxRounds)
=============================================================================
