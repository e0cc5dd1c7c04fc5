-------------------------------- MODULE Pool --------------------------------
(***************************************************************************)
(* Pool<T> of the interpreter: a slot table that grows by blocks, a list   *)
(* of free slots, and generational handles (PoolData in                    *)
(* src/crates/core/src/interpreter/value.rs, its methods in                *)
(* src/crates/core/src/builtins/instance/pool_methods.rs).                 *)
(*                                                                         *)
(* Slot i stands for the code's index i-1, and the blocks are laid end to  *)
(* end, as locate does.  A Value::Handle holds an index and a generation;  *)
(* the model's handle also names the pool that gave it out, which the      *)
(* program cannot see and the methods do not check.                        *)
(***************************************************************************)
EXTENDS Naturals, FiniteSets, Sequences, SequencesExt

CONSTANTS Pools, Values,
          Empty,          \* None, in a slot
          Null, Void,     \* Value::Null, Value::Void
          Panic,          \* the interpreter died
          Sizes,          \* the capacities written in with pool<T>(count)
          GenModulus,     \* u64 generations: 2^64
          MaxGeneration,  \* bound on the releases of one slot
          MaxBlocks,      \* bound on the blocks of a grown pool
          Strays          \* may the program hand a pool a handle of another?

ASSUME PoolAssumption ==
    /\ Sizes \subseteq Nat
    /\ GenModulus \in Nat /\ MaxGeneration \in Nat /\ MaxGeneration < GenModulus
    /\ MaxBlocks \in Nat
    /\ Strays \in BOOLEAN
    /\ Empty \notin Values
    /\ Null \notin Pools \X (Nat \ {0}) \X Nat

VARIABLES block_size, slots, generations, free_list, growable, fifo,
          call,  \* the last call: its method, pool and handle
          ret    \* what it returned

tables == <<slots, generations, free_list>>
knobs  == <<growable, fifo>>
vars   == <<block_size, slots, generations, free_list, growable, fifo, call, ret>>

Slots(p) == 1..Len(slots[p])

Handle == Pools \X (Nat \ {0}) \X Nat

TypeOK ==
    /\ block_size \in [Pools -> Sizes]
    /\ slots \in [Pools -> Seq(Values \cup {Empty})]
    /\ generations \in [Pools -> Seq(0..MaxGeneration)]
    /\ free_list \in [Pools -> Seq(Nat \ {0})]
    /\ growable \in [Pools -> BOOLEAN] /\ fifo \in [Pools -> BOOLEAN]
    /\ \A p \in Pools : Len(generations[p]) = Len(slots[p])

\* The slots that hold a value.
Occupied(p) == {i \in Slots(p) : slots[p][i] # Empty}

\* Handles given out for slot i of p: those released and the one in use.
Live(p)   == {<<p, i, generations[p][i]>> : i \in Occupied(p)}
Stale(p)  == UNION {{<<p, i, g>> : g \in 0..(generations[p][i] - 1)} : i \in Slots(p)}
Issued(p) == Live(p) \cup Stale(p)

\* What the program may pass to p: every handle it ever got, kept in a variable.
Known(p) == UNION {Issued(q) : q \in IF Strays THEN Pools ELSE {p}}

Called(method, p, h) == call' = [method |-> method, pool |-> p, handle |-> h]

Block(p, x) == [k \in 1..block_size[p] |-> x]

\* PoolData::with_capacity, for the capacity the enclosing block gives.
Init ==
    /\ block_size \in [Pools -> Sizes]
    /\ slots = [p \in Pools |-> Block(p, Empty)]
    /\ generations = [p \in Pools |-> Block(p, 0)]
    /\ free_list = [p \in Pools |-> [k \in 1..block_size[p] |-> k]]
    /\ growable = [p \in Pools |-> FALSE] /\ fifo = [p \in Pools |-> FALSE]
    /\ call = [method |-> "new"]
    /\ ret = Void

-----------------------------------------------------------------------------
(* acquire *)

\* The last index of the free list, or the first one under fifo.
Popped(p, free) == IF fifo[p] THEN Head(free) ELSE Last(free)

\* Mutant: the list always loses its first entry.
RestAsFifo(p, free) == Tail(free)

Rest(p, free) == IF fifo[p] THEN Tail(free) ELSE Front(free)

\* Store v in the next free slot of the tables given.
Put(p, v, table, gens, free) ==
    LET i == Popped(p, free)
    IN  /\ slots' = [slots EXCEPT ![p] = [table EXCEPT ![i] = v]]
        /\ generations' = [generations EXCEPT ![p] = gens]
        /\ free_list' = [free_list EXCEPT ![p] = Rest(p, free)]
        /\ ret' = <<p, i, gens[i]>>

AcquireFree(p, v) ==
    /\ free_list[p] # <<>>
    /\ Put(p, v, slots[p], generations[p], free_list[p])

\* Mutant: a new block is numbered from the first slot of the pool.
NewIndexesFromFirst(p) == [k \in 1..block_size[p] |-> k]

NewIndexes(p) == [k \in 1..block_size[p] |-> Len(slots[p]) + k]

CanGrow(p) ==
    growable[p] /\ block_size[p] > 0 /\ Len(slots[p]) < MaxBlocks * block_size[p]

\* try_grow: one more block, and its slots join the free list.  A block of no
\* slots leaves the tables as they are (AcquireNone).
AcquireGrown(p, v) ==
    /\ free_list[p] = <<>> /\ CanGrow(p)
    /\ Put(p, v, slots[p] \o Block(p, Empty), generations[p] \o Block(p, 0), NewIndexes(p))

\* Nothing free and no growth, or growth by a block of no slots.
AcquireNone(p) ==
    /\ free_list[p] = <<>> /\ (growable[p] => block_size[p] = 0)
    /\ ret' = Null
    /\ UNCHANGED tables

Acquire(p, v) ==
    /\ AcquireFree(p, v) \/ AcquireGrown(p, v) \/ AcquireNone(p)
    /\ Called("acquire", p, Null)
    /\ UNCHANGED <<block_size, knobs>>

-----------------------------------------------------------------------------
(* release, get, iteration and the knobs *)

\* Mutant: the generation is not looked at.
FreshAnyGeneration(p, h) == h[2] \in Slots(p)

\* The generation in the handle is the one in the table.
Fresh(p, h) == h[2] \in Slots(p) /\ generations[p][h[2]] = h[3]

\* locate divides by the block size.
Locates(p) == block_size[p] # 0

\* Mutant: a released slot keeps its generation.
ReleaseKeepsGeneration(p, h) ==
    LET i == h[2]
    IN  /\ Fresh(p, h) /\ slots[p][i] # Empty
        /\ slots' = [slots EXCEPT ![p][i] = Empty]
        /\ free_list' = [free_list EXCEPT ![p] = Append(@, i)]
        /\ ret' = Void /\ UNCHANGED generations

ReleaseSlot(p, h) ==
    LET i == h[2]
    IN  /\ Fresh(p, h) /\ slots[p][i] # Empty
        /\ generations[p][i] < MaxGeneration
        /\ slots' = [slots EXCEPT ![p][i] = Empty]
        /\ generations' = [generations EXCEPT ![p][i] = (@ + 1) % GenModulus]
        /\ free_list' = [free_list EXCEPT ![p] = Append(@, i)]
        /\ ret' = Void

ReleaseNothing(p, h) ==
    /\ ~(Fresh(p, h) /\ slots[p][h[2]] # Empty)
    /\ ret' = IF Locates(p) THEN Void ELSE Panic
    /\ UNCHANGED tables

Release(p, h) ==
    /\ ReleaseSlot(p, h) \/ ReleaseNothing(p, h)
    /\ Called("release", p, h)
    /\ UNCHANGED <<block_size, knobs>>

\* The value of slot i, or null for an empty one.
Content(p, i) == IF slots[p][i] = Empty THEN Null ELSE slots[p][i]

Get(p, h) ==
    /\ ret' = IF ~Locates(p) THEN Panic
              ELSE IF Fresh(p, h) THEN Content(p, h[2]) ELSE Null
    /\ Called("get", p, h)
    /\ UNCHANGED <<block_size, tables, knobs>>

\* iter_occupied visits the slots that hold a value in index order.
InIndexOrder(S) == {at \in Bijection(1..Cardinality(S), S) :
                       \A k, l \in DOMAIN at : k < l => at[k] < at[l]}

\* for x in pool.
Iterate(p) ==
    /\ \E at \in InIndexOrder(Occupied(p)) :
          ret' = [k \in 1..Cardinality(Occupied(p)) |-> slots[p][at[k]]]
    /\ Called("iterate", p, Null)
    /\ UNCHANGED <<block_size, tables, knobs>>

Growable(p) ==
    /\ growable' = [growable EXCEPT ![p] = TRUE]
    /\ ret' = Void /\ Called("growable", p, Null)
    /\ UNCHANGED <<block_size, tables, fifo>>

Fifo(p) ==
    /\ fifo' = [fifo EXCEPT ![p] = TRUE]
    /\ ret' = Void /\ Called("fifo", p, Null)
    /\ UNCHANGED <<block_size, tables, growable>>

Next ==
    /\ ret # Panic
    /\ \E p \in Pools :
          \/ \E v \in Values : Acquire(p, v)
          \/ \E h \in Known(p) : Release(p, h) \/ Get(p, h)
          \/ Iterate(p) \/ Growable(p) \/ Fifo(p)

Spec == Init /\ [][Next]_vars

-----------------------------------------------------------------------------
(* What the pool promises.                                                  *)

Listed(p) == {free_list[p][k] : k \in 1..Len(free_list[p])}

\* The free list holds every empty slot, each once, and no other: whatever is
\* released, acquired and grown, no slot is lost and none is given out twice.
FreeListExact ==
    \A p \in Pools :
        /\ Listed(p) = {i \in Slots(p) : slots[p][i] = Empty}
        /\ \A k, l \in 1..Len(free_list[p]) : free_list[p][k] = free_list[p][l] => k = l

\* In a program that keeps its handles with their pools (~Strays) a value leaves
\* its slot only by a release of the handle it was acquired under, never of one
\* released before: a slot used again is safe from its old handles.  It is said of
\* such programs only, since release compares nothing but an index and a generation
\* and so obeys another pool's handle that has both.
OnlyOwnHandleReleases ==
    [][\A p \in Pools : \A i \in Slots(p) :
          slots[p][i] # Empty /\ slots'[p][i] # slots[p][i]
             => call'.method = "release" /\ call'.handle = <<p, i, generations[p][i]>>]_vars

\* acquire returns null only from a full pool that was not told to grow, or
\* whose blocks have no slots (the "single new block" comment of acquire).
FailsOnlyWhenFull ==
    call.method = "acquire" /\ ret = Null =>
        LET p == call.pool
        IN  /\ \A i \in Slots(p) : slots[p][i] # Empty
            /\ growable[p] => block_size[p] = 0

\* For a program that keeps its handles with their pools (~Strays) the pool
\* implements the store: no handle is issued twice, a handle reads the value it
\* was acquired for until it is released and null afterwards, and iteration visits
\* what is stored, each value once.
Store == [h \in UNION {Live(p) : p \in Pools} |-> slots[h[1]][h[2]]]

Abstract == INSTANCE PoolStore WITH
                issued <- UNION {Issued(p) : p \in Pools}, store <- Store

ImplementsPoolStore == Abstract!Spec

=============================================================================
