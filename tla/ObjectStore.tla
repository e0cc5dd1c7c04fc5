----------------------------- MODULE ObjectStore -----------------------------
(***************************************************************************)
(* What a garbage-collected heap promises the program that uses it: a      *)
(* graph of objects.  A new object has a name nothing alive has and empty  *)
(* fields; the program moves references between its variables and the      *)
(* fields of objects it holds; objects disappear only when no variable     *)
(* leads to them.  Nothing is said of memory, marks or when.               *)
(***************************************************************************)
CONSTANTS
  Ids,    \* names an object can have
  Slots,  \* names a field can have
  Vars,   \* the program's variables
  None    \* no object, and no name of one

VARIABLES
  heap,   \* the objects that exist, each a function from its fields to objects
  hold    \* the object each variable holds

svars == <<heap, hold>>

Alive   == DOMAIN heap
Holds   == {hold[v] : v \in Vars} \ {None}
Refs(o) == {heap[o][f] : f \in DOMAIN heap[o]} \ {None}

\* The objects a variable leads to: those in every set of objects that holds
\* the variables' and is closed under references.
Reachable == {o \in Alive : \A S \in SUBSET Alive :
                Holds \subseteq S /\ (\A x \in S : Refs(x) \subseteq S) => o \in S}

Init == heap = << >> /\ hold = [v \in Vars |-> None]

New(v, o, F) ==
  /\ o \notin Alive
  /\ hold' = [hold EXCEPT ![v] = o]
  /\ heap' = [x \in Alive \cup {o} |-> IF x = o THEN [f \in F |-> None] ELSE heap[x]]

Assign(v, o) ==
  /\ hold' = [hold EXCEPT ![v] = o]
  /\ UNCHANGED heap
  /\ o \in Holds \cup {None} \cup UNION {Refs(x) : x \in Holds}

SetField(o, f, x) ==
  /\ o \in Holds /\ x \in Holds \cup {None}
  /\ UNCHANGED hold
  /\ heap' = [heap EXCEPT ![o][f] = x]

\* Unreachable objects go, in any number, and references to them with them.
Reclaim(S) ==
  /\ UNCHANGED hold
  /\ heap' = [o \in Alive \ S |->
               [f \in DOMAIN heap[o] |-> IF heap[o][f] \in S THEN None ELSE heap[o][f]]]
  /\ \A o \in S : o \notin Reachable

Next ==
  \/ \E S \in SUBSET Alive : Reclaim(S)
  \/ \E v \in Vars : \E o \in Ids \cup {None} : Assign(v, o)
  \/ \E o \in Alive : \E f \in DOMAIN heap[o], x \in Ids \cup {None} : SetField(o, f, x)
  \/ \E v \in Vars, o \in Ids : \E F \in SUBSET Slots : New(v, o, F)

Spec == Init /\ [][Next]_svars
=============================================================================
