------------------------------- MODULE Native -------------------------------
(***************************************************************************)
(* From the tree of a function to a native run of it: the semantic passes  *)
(* (Escape), the emitter (Emit), and a machine that executes the blocks,   *)
(* next to what the interpreter (Eval) makes of the same tree with the     *)
(* same answers to its calls.                                              *)
(*                                                                         *)
(*   fn      the function                                                  *)
(*   blocks  what was made of it, and whether a pass refused it            *)
(*   runs    the interpreter's run for each sequence of answers            *)
(*   m       the machine: at <<block, instruction>>, registers, slots,     *)
(*           arenas created ([live, scan], by age), heap of structs ([ty,  *)
(*           val, arena]), the calls made and their answers, how it ended  *)
(*           (out), with which value, and whether a sum wrapped            *)
(***************************************************************************)
EXTENDS Eval, Escape, Emit

CONSTANTS Programs,   \* the functions looked at, with what is made of them
          Answers,    \* what a call may answer
          MaxCalls    \* bound: calls answered in a run

VARIABLES fn, blocks, runs, m
vars == <<fn, blocks, runs, m>>

Lowered(f) ==
    LET made(s, g) == [code |-> g.code, scan |-> g.scan, taken |-> s.ok /\ g.ok, gaps |-> g.notes \cup s.lost]
    IN  made(Analysed(f), Emitted(f))

\* Both ways to run a function: compiled, and interpreted for any answers.
Program(f) ==
    LET with(b) == [fn |-> f, blocks |-> b,
                    runs |-> IF b.taken THEN [a \in SeqOf(Answers, MaxCalls) |-> Interpreted(f, a)] ELSE <<>>]
    IN  with(Lowered(f))

ASSUME NativeAssumption ==
    /\ MaxCalls \in Nat /\ Top \in Nat /\ Answers \subseteq 0 .. Top
    /\ \A p \in Programs : p = Program(p.fn)

\* A function goes to the machine if no pass refuses it; its parameter is an N
\* of the collector's heap.
Init ==
    /\ \E p \in Programs : fn = p.fn /\ blocks = p.blocks /\ runs = p.runs
    /\ m = [at |-> <<0, 1>>, regs |-> <<>>, slots |-> << ObjVal(1) >>, arenas |-> <<>>,
            heap |-> << [ty |-> "N", val |-> 0, arena |-> 0] >>, trace |-> <<>>, answers |-> <<>>,
            out |-> IF blocks.taken THEN "running" ELSE "refused", val |-> 0, wrapped |-> FALSE]

Instr       == blocks.code[m.at[1]][m.at[2]]
Executes(op) == m.out = "running" /\ Instr.op = op
Target      == Instr.t
Arg(i)      == Instr.a[i]
ArgCount    == Len(Instr.a)
Val(i)      == IF "lit" \in DOMAIN Arg(i) THEN Arg(i).lit ELSE m.regs[Arg(i).reg]

Machine(n)  == m' = n /\ UNCHANGED <<fn, blocks, runs>>
On(n)       == [n EXCEPT !.at[2] = @ + 1]
Set(n, v)   == On([n EXCEPT !.regs = (Target :> v) @@ @])
Goto(l)     == Machine([m EXCEPT !.at = <<l, 1>>])
Ended(n, o) == [n EXCEPT !.out = o]

Wrapped(n) == ((n + Top + 1) % (2 * Top + 2)) - Top - 1
Calculated(n) == Set([m EXCEPT !.wrapped = @ \/ Wrapped(n) # n], Wrapped(n))

Live(i)   == m.heap[i].arena = 0 \/ m.arenas[m.heap[i].arena].live
Innermost == LET live == {i \in DOMAIN m.arenas : m.arenas[i].live} IN IF live = {} THEN 0 ELSE Max(live)

Load  == Executes("load") /\ Machine(IF Arg(1) \in DOMAIN m.slots THEN Set(m, m.slots[Arg(1)]) ELSE Ended(m, "unwritten"))
StoreSlot == Executes("store") /\ Machine(On([m EXCEPT !.slots = (Arg(1) :> Val(2)) @@ @]))
Compare ==
    \/ Executes("zero") /\ Machine(Set(m, IF Val(1) = 0 THEN 1 ELSE 0))
    \/ Executes("eq") /\ Machine(Set(m, IF Val(1) = Val(2) THEN 1 ELSE 0))
    \/ Executes("lt") /\ Machine(Set(m, IF Val(1) < Val(2) THEN 1 ELSE 0))
    \/ Executes("le") /\ Machine(Set(m, IF Val(1) <= Val(2) THEN 1 ELSE 0))
Add == Executes("add") /\ Machine(Calculated(Val(1) + Val(2)))
Div == Executes("div") /\ Machine(Calculated(Quotient(Val(1), Val(2))))

\* A call is answered as the environment likes, the interpreter's too.
CallOut ==
    /\ Executes("call")
    /\ LET called == [m EXCEPT !.trace = Append(@, [i \in 1 .. ArgCount |-> Val(i)])]
       IN  IF Len(m.answers) = MaxCalls THEN Machine(Ended(called, "cut"))
           ELSE \E a \in Answers : Machine(Set([called EXCEPT !.answers = Append(@, a)], a))

\* ubel_arena_create(_scan), ubel_arena_destroy, bump and collected allocation.
Create ==
    /\ Executes("create")
    /\ LET a == [live |-> TRUE, scan |-> Target \in blocks.scan]
       IN  Machine(Set([m EXCEPT !.arenas = Append(@, a)], Len(m.arenas) + 1))
Destroy ==
    /\ Executes("destroy")
    /\ LET a == m.regs[Arg(1)]
       IN  Machine(IF m.arenas[a].live THEN On([m EXCEPT !.arenas[a].live = FALSE]) ELSE Ended(m, "freed twice"))
NewObject ==
    /\ Executes("new")
    /\ LET a == IF Arg(1) = 0 THEN 0 ELSE m.regs[Arg(1)]
       IN  Machine(Set([m EXCEPT !.heap = Append(@, [ty |-> Arg(2), val |-> 0, arena |-> a])], ObjVal(Len(m.heap) + 1)))

\* A field of an object whose arena is gone is not to be touched.
GetField ==
    /\ Executes("get")
    /\ Machine(IF Live(ObjOf(Val(1))) THEN Set(m, m.heap[ObjOf(Val(1))].val) ELSE Ended(m, "dangling"))
PutField ==
    /\ Executes("put")
    /\ Machine(IF Live(ObjOf(Val(1))) THEN On([m EXCEPT !.heap[ObjOf(Val(1))].val = Val(2)]) ELSE Ended(m, "dangling"))

Branch ==
    \/ Executes("br") /\ Goto(Arg(1))
    \/ Executes("if") /\ Goto(IF Val(1) # 0 THEN Arg(2) ELSE Arg(3))
    \/ Executes("switch") /\ Goto(IF Val(1) \in DOMAIN Arg(2) THEN Arg(2)[Val(1)] ELSE Arg(3))

\* What is returned must still be there.
Ret ==
    /\ Executes("ret")
    /\ LET gone == fn.ret \in {"N", "B"} /\ ~Live(ObjOf(Val(1)))
       IN  Machine(IF gone THEN Ended(m, "dangling")
                   ELSE Ended([m EXCEPT !.val = IF ArgCount = 0 THEN 0 ELSE Val(1)], "returned"))
\* The three calls of a runtime function that prints an error and exits.
Trap == \E t \in {"divzero", "noreturn", "nomatch"} : Executes(t) /\ Machine(Ended(m, t))

Next == \/ Load \/ StoreSlot \/ Compare \/ Add \/ Div \/ CallOut \/ Create \/ Destroy \/ NewObject
        \/ GetField \/ PutField \/ Branch \/ Ret \/ Trap

Spec == Init /\ [][Next]_vars /\ WF_vars(Next)
-----------------------------------------------------------------------------
(* The known differences, each marked where it arises: "place", "declared" *)
(* and "twice" by Emit, "elif", "arm" and "field" by Escape, and a sum or a *)
(* loop counter that leaves the range of the ints.                         *)
ref       == runs[m.answers]
AsWritten == blocks.gaps = {} /\ ~m.wrapped
Over      == m.out # "running"

\* The native run does what the interpreter does.  Until it is over it has made
\* the same calls in the same order; it returns what the interpreter returns,
\* with the same thing in the field of the parameter, traps where the interpreter
\* panics, and runs off the end of a function that has a result only where the
\* interpreter does.
Agrees ==
    /\ m.trace = ref.trace
    /\ CASE m.out = "returned" -> /\ ref.sig \in {"ok", "return"}
                                  /\ m.heap[1].val = ref.field
                                  /\ fn.ret = "void" \/ m.val = ref.val
         [] m.out = "divzero"  -> ref.sig = "panic"
         [] m.out = "noreturn" -> ref.sig = "ok"
         [] m.out = "cut"      -> ref.sig = "cut"
         [] OTHER              -> FALSE
Faithful ==
    AsWritten /\ m.out # "refused" =>
        IsPrefix(m.trace, ref.trace) /\ (Over => Agrees)

\* emit.rs destroys the arenas of a `with` wherever it is left: only ever the
\* innermost one, none twice, all of them before a return; and what is built goes
\* to the innermost arena there is.
ArenasNest ==
    [][ /\ \A i \in DOMAIN m.arenas : m.arenas[i].live /\ ~m'.arenas[i].live => i = Innermost
        /\ Len(m'.heap) > Len(m.heap) => Last(m'.heap).arena = Innermost
        /\ m'.out = "returned" => Innermost = 0
        /\ m'.out # "freed twice" ]_vars

\* What the type checker accepts never touches, or returns, an object whose arena
\* is gone, but where a mark was lost.
NoDangling == m.out = "dangling" => blocks.gaps \cap {"elif", "arm", "field"} # {}

\* No slot is read before it was written, but for a name that one branch declares.
Written == m.out = "unwritten" => "declared" \in blocks.gaps

\* The collector looks through every arena that holds an object with a pointer.
Scanned ==
    \A i \in DOMAIN m.heap :
        m.heap[i].ty = "B" /\ m.heap[i].arena # 0 /\ Live(i) => m.arenas[m.heap[i].arena].scan

\* The memory of a function is sound: nothing dangles, nothing is read unwritten,
\* and nothing that holds a pointer is hidden from the collector.
MemorySound == NoDangling /\ Written /\ Scanned

\* Where the interpreter's run ends, the native one does too.
Ends == (blocks.taken /\ ref.sig # "cut") ~> (Over \/ ~AsWritten)
=============================================================================
