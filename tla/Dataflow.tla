------------------------------ MODULE Dataflow ------------------------------
(***************************************************************************)
(* The searches of sema/borrow_check.rs and sema/move_check.rs over an     *)
(* arbitrary point graph, and an execution of an accepted body as a walk   *)
(* of that graph.                                                          *)
(*                                                                         *)
(* A search starts after a point (the issue of a loan, the move of a       *)
(* value), follows the graph and goes no further at a kill.  It is a       *)
(* record                                                                  *)
(*   what    "loan" or "move"                                              *)
(*   from    the point it starts after                                     *)
(*   kill    the points it does not pass                                   *)
(*   hits    the points that conflict with the loan, or move again         *)
(*   reads   the points that read the local that holds the loan            *)
(*   defs    the points that give that local another value                 *)
(*   before  the points before which that local is live                    *)
(* of which the last three matter for a loan only.                         *)
(***************************************************************************)
EXTENDS Naturals

CONSTANTS Start,      \* `last` before the first point is executed
          NoSearch    \* `cur` before the first search

VARIABLES succ,      \* point -> the points that may follow it
          entry,     \* the points an execution may start with
          searches,  \* every search the facts ask for
          todo,      \* those not begun
          cur,       \* the one in progress
          reaches,   \* the points it has reached
          work,      \* those of them it has not looked at
          found,     \* history: each finished search with what it reached
          phase,     \* "pick", "search", "walk" or "rejected"
          last,      \* the point executed last
          open,      \* history: the searches begun and not killed on the way
          stale,     \* history: the loans hit while open, their holder unchanged
          bad        \* history: the second moves and the uses of stale loans

graph == <<succ, entry, searches>>
walk  == <<last, open, stale, bad>>
vars  == <<succ, entry, searches, todo, cur, reaches, work, found, phase, last, open, stale, bad>>

Points == DOMAIN succ

Search == [what: {"loan", "move"}, from: Points, kill: SUBSET Points, hits: SUBSET Points,
           reads: SUBSET Points, defs: SUBSET Points, before: SUBSET Points]

\* compute_liveness stops when one more round changes nothing.
Solves(s) ==
    \A p \in Points :
        p \in s.before <=> (p \in s.reads \/ (succ[p] \cap s.before # {} /\ p \notin s.defs))

\* Mutant: live on every way on instead of on some.
LiveAfterEverywhere(s) == { p \in Points : succ[p] # {} /\ succ[p] \subseteq s.before }

LiveAfter(s) == { p \in Points : succ[p] \cap s.before # {} }

Reports(f) ==
    LET s == f.search
    IN  IF s.what = "move" THEN s.hits \cap f.at ELSE s.hits \cap f.at \cap LiveAfter(s)

Clean == \A f \in found : Reports(f) = {}

Init ==
    /\ \A p \in Points : succ[p] \in SUBSET Points
    /\ entry \in SUBSET Points
    /\ Start \notin Points
    /\ searches \in SUBSET Search
    /\ \A s \in searches : Solves(s)
    /\ todo = searches
    /\ cur = NoSearch
    /\ reaches = {}
    /\ work = {}
    /\ found = {}
    /\ phase = "pick"
    /\ last = Start
    /\ open = {}
    /\ stale = {}
    /\ bad = {}

\* The successors of the source are reached whether or not it is a kill.
Begin(s) ==
    /\ phase = "pick"
    /\ s \in todo
    /\ todo' = todo \ {s}
    /\ cur' = s
    /\ reaches' = succ[s.from]
    /\ work' = succ[s.from]
    /\ phase' = "search"
    /\ UNCHANGED <<graph, found, walk>>

Pop(p) ==
    /\ phase = "search"
    /\ p \in work
    /\ LET fresh == IF p \in cur.kill THEN {} ELSE succ[p] \ reaches
       IN  /\ reaches' = reaches \cup fresh
           /\ work' = (work \ {p}) \cup fresh
    /\ UNCHANGED <<graph, todo, cur, found, phase, walk>>

Finish ==
    /\ phase = "search"
    /\ work = {}
    /\ found' = found \cup {[search |-> cur, at |-> reaches]}
    /\ phase' = "pick"
    /\ UNCHANGED <<graph, todo, cur, reaches, work, walk>>

Reject ==
    /\ phase = "pick"
    /\ ~Clean
    /\ phase' = "rejected"
    /\ UNCHANGED <<graph, todo, cur, reaches, work, found, walk>>

Accept ==
    /\ phase = "pick"
    /\ todo = {}
    /\ Clean
    /\ phase' = "walk"
    /\ UNCHANGED <<graph, todo, cur, reaches, work, found, walk>>

Following == IF last = Start THEN entry ELSE succ[last]

\* What executing p does to the histories.
Execute(p) ==
    /\ last' = p
    /\ bad' = bad \cup { s \in open : s.what = "move" /\ p \in s.hits }
                  \cup { s \in stale : p \in s.reads }
    /\ stale' = { s \in stale \cup { t \in open : t.what = "loan" /\ p \in t.hits } : p \notin s.defs }
    /\ open' = { s \in open : p \notin s.kill } \cup { s \in searches : s.from = p }

Walk(p) ==
    /\ phase = "walk"
    /\ p \in Following
    /\ Execute(p)
    /\ UNCHANGED <<graph, todo, cur, reaches, work, found, phase>>

Next ==
    \/ \E s \in todo : Begin(s)
    \/ \E p \in work : Pop(p)
    \/ Finish
    \/ Reject
    \/ Accept
    \/ \E p \in Following : Walk(p)

Spec == Init /\ [][Next]_vars

-----------------------------------------------------------------------------
(* Safe: on every path through the graph of a body that was accepted, no   *)
(* value is moved a second time before it is given a new one, and no local *)
(* is read whose mutable loan has been broken by another access.           *)
Safe == bad = {}
=============================================================================
