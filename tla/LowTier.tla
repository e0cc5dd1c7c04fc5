------------------------------ MODULE LowTier -------------------------------
(***************************************************************************)
(* A @tier(low) function from its graph to its execution: cfg::build and   *)
(* the facts, the searches of borrow_check.rs and move_check.rs, the       *)
(* verdict of sema::analyse, and the interpreter on a body that passed.    *)
(*                                                                         *)
(* The interpreter keeps no account of moves and loans, so the histories   *)
(* below do, for the binding each lookup really finds:                     *)
(*   gone    the bindings <<depth, name>> whose Unique value was moved     *)
(*   held    the loans in a local, with what they borrow                   *)
(*   twice   the points where a moved value was moved again                *)
(*   broken  the loans read after another access to their place            *)
(*   strayed the binding of a name was not the one the resolver recorded   *)
(*   gaps    how the execution has left what the graph and the facts say:  *)
(*     "condition"  a loop's condition evaluated again: it stands once,    *)
(*                  before the header                                      *)
(*     "opaque"     an access no fact is collected for                     *)
(*     "deferred"   an expression run when its block was left, not where   *)
(*                  the defer stands                                       *)
(*     "raised"     a break or continue out of an expression               *)
(*     "caught", "swallowed"  a fail stopped by a try: the graph enters    *)
(*                  the catch from before the body, and leaves the         *)
(*                  function when there is none                            *)
(*     "unmatched"  a match that took no arm: the graph has an edge for    *)
(*                  each arm and no other                                  *)
(*     "shadow"     a binding that hides one of the same name: the facts   *)
(*                  know names only                                        *)
(*     "same"       two moves of one name by one statement                 *)
(*     "leak"       a scope left behind by a guard or a resource           *)
(***************************************************************************)
EXTENDS Facts, Interp, Dataflow

CONSTANT Bodies     \* the blocks of the functions checked

VARIABLES names,    \* what the resolver recorded for the body
          gone, held, twice, broken, strayed, gaps

history == <<gone, held, twice, broken, strayed, gaps>>
lvars   == <<vars, ivars, names, history>>

-----------------------------------------------------------------------------
(* sema: the graph and the searches are functions of the body.             *)

SearchOf(block, s, graphOf) ==
    LET pts == DOMAIN graphOf
    IN  [what |-> s.what, from |-> s.from, kill |-> s.kill, hits |-> s.hits,
         reads  |-> IF s.what = "loan" THEN { p \in pts : ReadsPlace(StmtAt(block, p), s.bound) } ELSE {},
         defs   |-> IF s.what = "loan" THEN DefinedAt(block, pts, s.bound) ELSE {},
         before |-> IF s.what = "loan" THEN LiveBefore(block, graphOf, s.bound, {}) ELSE {}]

Searches(block, graphOf) ==
    LET pts == DOMAIN graphOf
    IN  { SearchOf(block, s, graphOf) : s \in LoanSearches(block, pts) \cup MoveSearches(block, pts) }

LInit ==
    /\ IInit({ b \in Bodies : Resolves(b) })
    /\ names = ResolveFunction(body)
    /\ LET cfg == Build(body)
       IN  succ = PointGraph(cfg) /\ entry = FirstPointsOf(cfg, 1, {})
    /\ searches = Searches(body, succ)
    /\ todo = searches /\ cur = NoSearch /\ reaches = {} /\ work = {} /\ found = {}
    /\ phase = "pick" /\ last = Start /\ open = {} /\ stale = {} /\ bad = {}
    /\ gone = {} /\ held = {} /\ twice = {} /\ broken = {} /\ strayed = {} /\ gaps = {}

Check ==
    /\ \/ \E s \in todo : Begin(s)
       \/ \E p \in work : Pop(p)
       \/ Finish \/ Reject \/ Accept
    /\ UNCHANGED <<ivars, names, history>>

-----------------------------------------------------------------------------
(* The histories of a step, from what it did.                              *)

UsedNow == { did'.uses[i] : i \in DOMAIN did'.uses }

Owned(u)     == u.def \notin {Parameter, Undefined} /\ StmtAt(body, u.def).uniq
MovedNow     == { <<u.d, u.n>> : u \in { v \in UsedNow : v.h = "move" /\ Owned(v) } }
Again(i)     == LET u == did'.uses[i]
                IN  /\ u.h = "move" /\ Owned(u)
                    /\ \E j \in 1 .. i - 1 : did'.uses[j].h = "move" /\ did'.uses[j].n = u.n
SameTwice    == { did'.uses[i] : i \in { j \in DOMAIN did'.uses : Again(j) } }

Assigns == did'.at # <<>> /\ did'.raised = "ok" /\ StmtAt(body, did'.at).k = "assign" /\ did'.binds # NoName
Binds   == did'.binds # NoName /\ ~Assigns

\* The binding that is new, or has a new value; none: depth 0.
BoundNow == IF Assigns THEN <<DepthOf(env, did'.binds), did'.binds>>
            ELSE IF Binds THEN <<Len(env'), did'.binds>> ELSE <<0, NoName>>

Touched(b) == \E u \in UsedNow : <<u.d, u.n>> = b

\* An access breaks the loans of its place, but for the one it issues; an
\* assignment that does not read the place ends them.
HeldNow ==
    { [l EXCEPT !.hit = @ \/ \E u \in UsedNow : <<u.d, u.n>> = l.of /\ u.at # l.loan] :
      l \in { h \in held : /\ h.by # BoundNow
                           /\ ~(Assigns /\ h.of = BoundNow /\ ~Touched(h.of)) } }
    \cup
    (IF BoundNow[1] # 0 /\ did'.at # <<>> /\ StmtAt(body, did'.at).bare /\ did'.uses[1].h = "mut"
     THEN {[by |-> BoundNow, of |-> <<did'.uses[1].d, did'.uses[1].n>>, loan |-> did'.at, hit |-> FALSE]}
     ELSE {})

GapsNow ==
    (IF did'.how = "again" /\ did'.uses # <<>> THEN {"condition"} ELSE {}) \cup
    (IF \E u \in UsedNow : u.part = "hid" THEN {"opaque"} ELSE {}) \cup
    (IF did'.how = "deferred" /\ did'.uses # <<>> THEN {"deferred"} ELSE {}) \cup
    (IF did'.raised \in {"break", "continue"} THEN {"raised"} ELSE {}) \cup
    ({did'.how} \cap {"caught", "swallowed", "unmatched"}) \cup
    (IF Binds /\ DepthOf(env, did'.binds) # 0 THEN {"shadow"} ELSE {}) \cup
    (IF SameTwice # {} THEN {"same"} ELSE {}) \cup
    (IF did'.raised # "ok" /\ Len(env') > Len(env) THEN {"leak"} ELSE {})

Record ==
    /\ gaps' = gaps \cup GapsNow
    /\ twice' = twice \cup { u.at : u \in SameTwice \cup { v \in UsedNow : v.h = "move" /\ <<v.d, v.n>> \in gone } }
    /\ gone' = { b \in (gone \cup MovedNow) \ {BoundNow} : b[1] <= Len(env') }
    /\ broken' = broken \cup { l.loan : l \in { h \in held : h.hit /\ Touched(h.by) } }
    /\ held' = { l \in HeldNow : l.by[1] <= Len(env') /\ l.of[1] <= Len(env') }
    /\ strayed' = strayed \cup
           { u.at : u \in { v \in UsedNow : \E r \in names : /\ r.at = v.at /\ r.part = v.part /\ r.n = v.n
                                                            /\ r.def # v.def } }

\* While it has not left the graph the execution is a walk of it.
Run ==
    /\ phase = "walk"
    /\ Step
    /\ Record
    /\ IF did'.how = "start" /\ gaps' = {} THEN Execute(did'.at) ELSE UNCHANGED walk
    /\ UNCHANGED <<succ, entry, searches, todo, cur, reaches, work, found, phase, names>>

Stop ==
    /\ phase = "rejected" \/ Over
    /\ UNCHANGED lvars

LNext == Check \/ Run \/ Stop

LSpec == LInit /\ [][LNext]_lvars

-----------------------------------------------------------------------------
\* The checks and the executions of every body are behaviours of Dataflow:
\* the liveness that is iterated solves its equations, and until a gap opens
\* the statements the interpreter starts follow each other as the edges of
\* the graph say, out of loops, branches, tries and inlined blocks alike
\* (cfg.rs against eval/stmt.rs).
FollowsGraph == Spec

\* In a body that passed both checkers no Unique value is moved again before
\* its binding has a new one, and no local is read whose mutable loan was
\* broken by another access, whatever path the interpreter takes and whatever
\* it raises, as long as no gap opens (borrow_check.rs and move_check.rs).
NoSecondUse == gaps = {} => twice = {} /\ broken = {}

\* Every lookup of the interpreter finds the definition the resolver recorded
\* for that mention of the name: the scopes pushed and popped on every way out
\* of a block are those of name_resolution.rs.  A deferred expression looks up
\* later than it was resolved, and a guard or a resource that raises leaves
\* its scope behind (expr.rs:427, stmt.rs:178 and :301).
Lexical == gaps \cap {"deferred", "leak"} = {} => strayed = {}
=============================================================================
