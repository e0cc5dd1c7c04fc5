--------------------------- MODULE DataflowProofs ---------------------------
(***************************************************************************)
(* An accepted body is safe on every path of its graph, for every graph,   *)
(* every set of searches and every order the worklists may choose.         *)
(***************************************************************************)
EXTENDS Dataflow, TLAPS

-----------------------------------------------------------------------------
(* The inductive invariant.                                                *)

\* A set that a search may not leave: it holds the successors of the source,
\* and those of each of its points that is no kill.
Closed(s, at) == /\ succ[s.from] \subseteq at
                 /\ \A q \in at \ s.kill : succ[q] \subseteq at

GraphOK == /\ \A p \in Points : succ[p] \in SUBSET Points
           /\ entry \in SUBSET Points
           /\ Start \notin Points
           /\ searches \in SUBSET Search
           /\ \A s \in searches : Solves(s)

\* The search in progress is closed but for the points still to be looked at.
SearchOK == /\ phase \in {"pick", "search", "walk", "rejected"}
            /\ todo \subseteq searches
            /\ work \subseteq reaches
            /\ phase = "search" =>
                 /\ cur \in searches
                 /\ succ[cur.from] \subseteq reaches
                 /\ \A q \in reaches \ work : q \notin cur.kill => succ[q] \subseteq reaches

FoundOK == \A f \in found : f.search \in searches /\ Closed(f.search, f.at)

Finished(s) == \E f \in found : f.search = s

Covered == \A s \in searches : s \in todo \/ (phase = "search" /\ cur = s) \/ Finished(s)

\* What follows the last point of a walk lies inside every open search, and
\* outside the points before which the holder of a stale loan is live.
OpenOK  == \A s \in open : /\ s \in searches
                           /\ last \in Points
                           /\ \A f \in found : f.search = s => succ[last] \subseteq f.at
StaleOK == \A s \in stale : /\ s \in searches
                            /\ last \in Points
                            /\ succ[last] \cap s.before = {}

WalkOK == /\ phase = "walk" => todo = {} /\ Clean
          /\ phase # "walk" => last = Start /\ open = {} /\ stale = {}
          /\ last \in Points \cup {Start}
          /\ OpenOK
          /\ StaleOK
          /\ bad = {}

Inv == GraphOK /\ SearchOK /\ FoundOK /\ Covered /\ WalkOK

-----------------------------------------------------------------------------
\* The first state satisfies the invariant.
LEMMA InitInv == Init => Inv
BY DEF Init, Inv, GraphOK, SearchOK, FoundOK, Covered, Finished, WalkOK, OpenOK, StaleOK

\* Beginning a search: its source's successors are there at once.
LEMMA BeginInv ==
    ASSUME Inv, NEW s \in todo, Begin(s)
    PROVE  Inv'
<1> USE DEF Inv, Begin, graph, walk
<1>1. GraphOK'
  BY DEF GraphOK, Points, Search, Solves
<1>2. SearchOK'
  BY DEF SearchOK
<1>3. FoundOK'
  BY DEF FoundOK, Closed
<1>4. Covered'
  BY DEF Covered, Finished, SearchOK
<1>5. WalkOK'
  BY DEF WalkOK, OpenOK, StaleOK, Points
<1> QED BY <1>1, <1>2, <1>3, <1>4, <1>5

\* A popped point is a kill, or has all its successors reached afterwards.
LEMMA PopInv ==
    ASSUME Inv, NEW p \in work, Pop(p)
    PROVE  Inv'
<1> USE DEF Inv, Pop, graph, walk
<1>1. GraphOK'
  BY DEF GraphOK, Points, Search, Solves
<1>2. SearchOK'
  <2>1. work' \subseteq reaches'
    BY DEF SearchOK
  <2>2. succ[cur.from] \subseteq reaches'
    BY DEF SearchOK
  <2>3. ASSUME NEW q \in reaches' \ work', q \notin cur.kill
        PROVE  succ[q] \subseteq reaches'
    <3>1. CASE q = p
      BY <2>3, <3>1
    <3>2. CASE q # p
      <4>1. q \in reaches \ work
        BY <2>3, <3>2
      <4> QED BY <2>3, <4>1 DEF SearchOK
    <3> QED BY <3>1, <3>2
  <2> QED BY <2>1, <2>2, <2>3 DEF SearchOK
<1>3. FoundOK'
  BY DEF FoundOK, Closed
<1>4. Covered'
  BY DEF Covered, Finished
<1>5. WalkOK'
  BY DEF WalkOK, OpenOK, StaleOK, Points
<1> QED BY <1>1, <1>2, <1>3, <1>4, <1>5

\* With nothing left to look at, what was reached is closed.
LEMMA FinishInv == ASSUME Inv, Finish PROVE Inv'
<1> USE DEF Inv, Finish, graph, walk
<1>1. GraphOK'
  BY DEF GraphOK, Points, Search, Solves
<1>2. SearchOK'
  BY DEF SearchOK
<1>3. FoundOK'
  BY DEF FoundOK, Closed, SearchOK
<1>4. Covered'
  <2> SUFFICES ASSUME NEW s \in searches
               PROVE  s \in todo \/ \E f \in found' : f.search = s
    BY DEF Covered, Finished
  <2>1. CASE cur = s
    <3> DEFINE done == [search |-> cur, at |-> reaches]
    <3>1. done \in found' /\ done.search = s
      BY <2>1
    <3> QED BY <3>1
  <2>2. CASE cur # s
    BY <2>2 DEF Covered, Finished
  <2> QED BY <2>1, <2>2
<1>5. WalkOK'
  BY DEF WalkOK, OpenOK, StaleOK, Points
<1> QED BY <1>1, <1>2, <1>3, <1>4, <1>5

\* The verdict changes the phase and nothing else.
LEMMA VerdictInv == ASSUME Inv, Reject \/ Accept PROVE Inv'
<1> USE DEF Inv, graph, walk
<1>0. /\ UNCHANGED <<succ, entry, searches, todo, cur, reaches, work, found, last, open, stale, bad>>
      /\ phase = "pick" /\ phase' \in {"walk", "rejected"}
      /\ phase' = "walk" => todo = {} /\ Clean
  BY DEF Reject, Accept
<1>1. GraphOK'
  BY <1>0 DEF GraphOK, Points, Search, Solves
<1>2. SearchOK'
  BY <1>0 DEF SearchOK
<1>3. FoundOK'
  BY <1>0 DEF FoundOK, Closed
<1>4. Covered'
  BY <1>0 DEF Covered, Finished
<1>5. Clean' <=> Clean
  BY <1>0 DEF Clean, Reports, LiveAfter, Points
<1>6. WalkOK'
  BY <1>0, <1>5 DEF WalkOK, OpenOK, StaleOK, Points
<1> QED BY <1>1, <1>2, <1>3, <1>4, <1>6

-----------------------------------------------------------------------------
(* One step along the graph of an accepted body.                           *)

\* Every search has a finished one that reports nothing, and is closed.
LEMMA Answered ==
    ASSUME Inv, phase = "walk", NEW s \in searches
    PROVE  \E f \in found : f.search = s /\ Closed(s, f.at) /\ Reports(f) = {}
<1>1. PICK f \in found : f.search = s
  BY DEF Inv, WalkOK, Covered, Finished
<1>2. Closed(s, f.at)
  BY <1>1 DEF Inv, FoundOK
<1>3. Reports(f) = {}
  BY DEF Inv, WalkOK, Clean
<1> QED BY <1>1, <1>2, <1>3

\* The next point lies inside every open search.
LEMMA Inside ==
    ASSUME Inv, phase = "walk", NEW p \in Following, NEW s \in open,
           NEW f \in found, f.search = s
    PROVE  p \in f.at
<1>1. last \in Points /\ succ[last] \subseteq f.at
  BY DEF Inv, WalkOK, OpenOK
<1>2. last # Start
  BY <1>1 DEF Inv, GraphOK
<1> QED BY <1>1, <1>2 DEF Following

\* The next point reads no holder of a stale loan, and the holder is not live
\* after it unless it is given a new value.
LEMMA NotLive ==
    ASSUME Inv, phase = "walk", NEW p \in Following, NEW s \in stale
    PROVE  /\ p \in Points
           /\ p \notin s.reads
           /\ p \notin s.defs => succ[p] \cap s.before = {}
<1>1. /\ s \in searches /\ last \in Points /\ succ[last] \cap s.before = {}
  BY DEF Inv, WalkOK, StaleOK
<1>2. last # Start
  BY <1>1 DEF Inv, GraphOK
<1>3. p \in succ[last] /\ p \in Points
  BY <1>1, <1>2 DEF Following, Inv, GraphOK
<1>4. p \notin s.before
  BY <1>1, <1>3
<1>5. Solves(s)
  BY <1>1 DEF Inv, GraphOK
<1> QED BY <1>3, <1>4, <1>5 DEF Solves

LEMMA FollowingPoints ==
    ASSUME Inv PROVE Following \subseteq Points
BY DEF Inv, GraphOK, WalkOK, Following

\* Nothing bad happens at the next point, and what stays open or stale there
\* has what the invariant asks.
LEMMA WalkInv ==
    ASSUME Inv, NEW p \in Following, Walk(p)
    PROVE  Inv'
<1>0. /\ phase = "walk" /\ p \in Points /\ last' = p
      /\ UNCHANGED <<succ, entry, searches, todo, cur, reaches, work, found, phase>>
  BY FollowingPoints DEF Walk, Execute, graph
<1>1. GraphOK'
  BY <1>0 DEF Inv, GraphOK, Points, Search, Solves
<1>2. SearchOK' /\ FoundOK' /\ Covered'
  BY <1>0 DEF Inv, SearchOK, FoundOK, Closed, Covered, Finished
<1>3. bad' = {}
  <2>1. ASSUME NEW s \in open, s.what = "move", p \in s.hits
        PROVE  FALSE
    <3>1. s \in searches
      BY DEF Inv, WalkOK, OpenOK
    <3>2. PICK f \in found : f.search = s /\ Reports(f) = {}
      BY <1>0, <3>1, Answered
    <3>3. p \in f.at
      BY <1>0, <3>2, Inside
    <3> QED BY <2>1, <3>2, <3>3 DEF Reports
  <2>2. ASSUME NEW s \in stale, p \in s.reads
        PROVE  FALSE
    BY <1>0, <2>2, NotLive
  <2>3. bad = {}
    BY DEF Inv, WalkOK
  <2> QED BY <2>1, <2>2, <2>3 DEF Walk, Execute
<1>4. OpenOK'
  <2> SUFFICES ASSUME NEW s \in open'
               PROVE  /\ s \in searches
                      /\ \A f \in found : f.search = s => succ[p] \subseteq f.at
    BY <1>0 DEF OpenOK, Points
  <2>1. (s \in open /\ p \notin s.kill) \/ (s \in searches /\ s.from = p)
    BY DEF Walk, Execute
  <2>2. s \in searches
    BY <2>1 DEF Inv, WalkOK, OpenOK
  <2>3. ASSUME NEW f \in found, f.search = s
        PROVE  succ[p] \subseteq f.at
    <3>1. Closed(s, f.at)
      BY <2>3 DEF Inv, FoundOK
    <3>2. CASE s \in open /\ p \notin s.kill
      <4>1. p \in f.at
        BY <1>0, <2>3, <3>2, Inside
      <4> QED BY <3>1, <3>2, <4>1 DEF Closed
    <3>3. CASE s.from = p
      BY <3>1, <3>3 DEF Closed
    <3> QED BY <2>1, <3>2, <3>3
  <2> QED BY <2>2, <2>3
<1>5. StaleOK'
  <2> SUFFICES ASSUME NEW s \in stale'
               PROVE  s \in searches /\ succ[p] \cap s.before = {}
    BY <1>0 DEF StaleOK, Points
  <2>1. p \notin s.defs /\ (s \in stale \/ (s \in open /\ s.what = "loan" /\ p \in s.hits))
    BY DEF Walk, Execute
  <2>2. CASE s \in stale
    BY <1>0, <2>1, <2>2, NotLive DEF Inv, WalkOK, StaleOK
  <2>3. CASE s \in open /\ s.what = "loan" /\ p \in s.hits
    <3>1. s \in searches
      BY <2>3 DEF Inv, WalkOK, OpenOK
    <3>2. PICK f \in found : f.search = s /\ Reports(f) = {}
      BY <1>0, <3>1, Answered
    <3>3. p \in f.at
      BY <1>0, <2>3, <3>2, Inside
    <3>4. p \notin LiveAfter(s)
      BY <2>3, <3>2, <3>3 DEF Reports
    <3> QED BY <1>0, <3>1, <3>4 DEF LiveAfter
  <2> QED BY <2>1, <2>2, <2>3
<1>6. Clean' <=> Clean
  BY <1>0 DEF Clean, Reports, LiveAfter, Points
<1>7. WalkOK'
  BY <1>0, <1>3, <1>4, <1>5, <1>6 DEF Inv, WalkOK, Points
<1> QED BY <1>1, <1>2, <1>7 DEF Inv

-----------------------------------------------------------------------------
\* Every reachable state satisfies the invariant: the searches of borrow_check
\* and move_check are closed under the paths of the graph.
THEOREM SearchesClosed == Spec => []Inv
<1>1. Init => Inv
  BY InitInv
<1>2. Inv /\ [Next]_vars => Inv'
  <2> SUFFICES ASSUME Inv, [Next]_vars PROVE Inv'
    OBVIOUS
  <2>1. ASSUME NEW s \in todo, Begin(s) PROVE Inv'
    BY <2>1, BeginInv
  <2>2. ASSUME NEW p \in work, Pop(p) PROVE Inv'
    BY <2>2, PopInv
  <2>3. CASE Finish
    BY <2>3, FinishInv
  <2>4. CASE Reject \/ Accept
    BY <2>4, VerdictInv
  <2>5. ASSUME NEW p \in Following, Walk(p) PROVE Inv'
    BY <2>5, WalkInv
  <2>6. CASE UNCHANGED vars
    BY <2>6 DEF vars, Inv, GraphOK, SearchOK, FoundOK, Closed, Covered, Finished, WalkOK, OpenOK,
                StaleOK, Clean, Reports, LiveAfter, Points, Search, Solves
  <2> QED BY <2>1, <2>2, <2>3, <2>4, <2>5, <2>6 DEF Next
<1> QED BY <1>1, <1>2, PTL DEF Spec

\* On every path through the graph of an accepted body nothing is moved a
\* second time and no broken loan is read (borrow_check.rs, move_check.rs).
THEOREM AcceptedIsSafe == Spec => []Safe
<1>1. Inv => Safe
  BY DEF Inv, WalkOK, Safe
<1> QED BY <1>1, SearchesClosed, PTL
=============================================================================
