----------------------------- MODULE PoolStore -----------------------------
(***************************************************************************)
(* What Pool<T> promises (docs/MEMORY_MODEL.md section 11): acquire stores *)
(* a value under a handle never given out before, or fails; the value can  *)
(* be read under that handle, and only that one, until it is released; a   *)
(* handle released already reads as null and releases nothing.             *)
(***************************************************************************)
EXTENDS Naturals, FiniteSets, Sequences, Functions

CONSTANTS Pools, Values, Null, Void

VARIABLES issued,  \* the handles given out so far
          store,   \* the values under the handles not released yet
          ret      \* what the last call returned

PoolOf(h) == h[1]

Init == issued = {} /\ store = <<>> /\ ret = Void

Acquire(p, v) ==
    /\ ret' \in issued' \ issued /\ PoolOf(ret') = p
    /\ issued' = issued \cup {ret'}
    /\ store' = [h \in DOMAIN store \cup {ret'} |-> IF h = ret' THEN v ELSE store[h]]

Exhausted == ret' = Null /\ UNCHANGED <<issued, store>>

Release(h) ==
    /\ ret' = Void
    /\ store' = [k \in DOMAIN store \ {h} |-> store[k]]
    /\ UNCHANGED issued

Get(h) ==
    /\ ret' = IF h \in DOMAIN store THEN store[h] ELSE Null
    /\ UNCHANGED <<issued, store>>

\* The values of pool p, each once, in some order.
Iterate(p) ==
    LET live == {h \in DOMAIN store : PoolOf(h) = p}
    IN  /\ \E order \in Bijection(1..Cardinality(live), live) :
              ret' = [i \in DOMAIN order |-> store[order[i]]]
        /\ UNCHANGED <<issued, store>>

Configure == ret' = Void /\ UNCHANGED <<issued, store>>

Next ==
    \/ \E p \in Pools, v \in Values : Acquire(p, v)
    \/ \E h \in issued : Release(h) \/ Get(h)
    \/ \E p \in Pools : Iterate(p)
    \/ Exhausted \/ Configure

Spec == Init /\ [][Next]_<<issued, store, ret>>

=============================================================================
