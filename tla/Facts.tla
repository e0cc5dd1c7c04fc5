------------------------------- MODULE Facts --------------------------------
(***************************************************************************)
(* sema/facts.rs and sema/move_facts.rs: what the checkers of the LOW tier *)
(* know of a statement, and the searches borrow_check.rs and move_check.rs *)
(* make over the graph.  The walkers do not descend into what holds the    *)
(* accesses `hid`, so no operator here looks at them.  A place is a local: *)
(* a loan of a field or an element is never compared with anything.        *)
(***************************************************************************)
EXTENDS Cfg

\* The statements that carry no expression the facts are collected from.
Carries(s) == s.k \notin {"loop", "continue", "with", "try", "unsafe"}

\* `x = e` mentions its target: the walker visits both sides.
ReadsPlace(s, n) ==
    Carries(s) /\ (n \in NamesIn(s.acc) \/ (s.k = "assign" /\ s.def = n))

DefinesPlace(s) == IF s.k \in {"let", "assign"} THEN s.def ELSE NoName

DefinedAt(body, pts, n) == { p \in pts : DefinesPlace(StmtAt(body, p)) = n }

\* One loan for every borrow; it is bound to a local when the borrow is the
\* whole value of a `let` or of an assignment.
LoansAt(s, p) ==
    IF ~Carries(s) THEN {}
    ELSE { [at |-> p, i |-> i, place |-> s.acc[i].n, mutable |-> s.acc[i].h = "mut",
            bound |-> IF s.bare /\ i = 1 /\ s.k \in {"let", "assign"} THEN s.def ELSE NoName] :
           i \in { j \in DOMAIN s.acc : s.acc[j].h \in Borrowing } }

Loans(body, pts) == UNION { LoansAt(StmtAt(body, p), p) : p \in pts }

\* classify_access: an assignment to the place ends its loans unless it reads
\* the place on the way; any other mention of the place conflicts.
ClassifyAccess(s, n) ==
    IF s.k = "assign" /\ s.def = n
    THEN IF n \in NamesIn(s.acc) THEN "conflict" ELSE "reassign"
    ELSE IF ReadsPlace(s, n) THEN "conflict" ELSE "none"

LoanKilledAt(body, pts, l) ==
    { p \in pts \ {l.at} : ClassifyAccess(StmtAt(body, p), l.place) = "reassign" }
LoanInvalidatedAt(body, pts, l) ==
    { p \in pts \ {l.at} : ClassifyAccess(StmtAt(body, p), l.place) = "conflict" }

\* The locals bound by a `let` that says Unique, and where each is used bare.
TrackedLocals(body, pts) ==
    { StmtAt(body, p).def : p \in { q \in pts : StmtAt(body, q).k = "let" /\ StmtAt(body, q).uniq } }

\* Mutant: only expression statements are searched for moves.
MovedAtCalls(body, pts, n) ==
    { p \in pts : StmtAt(body, p).k = "expr" /\ n \in MovesIn(StmtAt(body, p).acc) }

MovedAt(body, pts, n) ==
    { p \in pts : Carries(StmtAt(body, p)) /\ n \in MovesIn(StmtAt(body, p).acc) }

-----------------------------------------------------------------------------
(* The searches: from where, and the points that are not passed.           *)

\* borrow_check.rs looks only at mutable loans held by a local that some
\* statement may invalidate.
LoanSearches(body, pts) ==
    { [what |-> "loan", name |-> l.place, from |-> l.at,
       kill |-> LoanKilledAt(body, pts, l) \cup (DefinedAt(body, pts, l.bound) \ {l.at}),
       hits |-> LoanInvalidatedAt(body, pts, l), bound |-> l.bound] :
      l \in { m \in Loans(body, pts) : /\ m.mutable
                                       /\ m.bound # NoName
                                       /\ LoanInvalidatedAt(body, pts, m) # {} } }

MoveSearches(body, pts) ==
    UNION { { [what |-> "move", name |-> n, from |-> p, kill |-> DefinedAt(body, pts, n),
               hits |-> MovedAt(body, pts, n), bound |-> NoName] : p \in MovedAt(body, pts, n) } :
            n \in TrackedLocals(body, pts) }

\* compute_liveness: the points before which n is live, the least solution of
\* the backward equations, by iteration from nothing.
RECURSIVE LiveBefore(_, _, _, _)
LiveBefore(body, succ, n, live) ==
    LET next == { p \in DOMAIN succ :
                    \/ ReadsPlace(StmtAt(body, p), n)
                    \/ succ[p] \cap live # {} /\ DefinesPlace(StmtAt(body, p)) # n }
    IN  IF next = live THEN live ELSE LiveBefore(body, succ, n, next)
=============================================================================
