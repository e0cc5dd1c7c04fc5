----------------------------- MODULE PoolProofs -----------------------------
(***************************************************************************)
(* Proofs about Pool for any number of pools, any block sizes and any      *)
(* sequence of calls: no slot is lost or given out twice, and a value      *)
(* leaves its pool only through its own handle.                            *)
(***************************************************************************)
EXTENDS Pool, SequenceTheorems, FiniteSetTheorems, TLAPS

\* free lists exactly the empty slots of table, each once.
Exact(free, table) ==
    /\ \A k \in 1..Len(free) : free[k] \in 1..Len(table) /\ table[free[k]] = Empty
    /\ \A i \in 1..Len(table) : table[i] = Empty => \E k \in 1..Len(free) : free[k] = i
    /\ \A k, l \in 1..Len(free) : free[k] = free[l] => k = l

Tables == Seq(Values \cup {Empty})
Gens   == Seq(0..MaxGeneration)
Lists  == Seq(Nat \ {0})

\* The tables of one pool fit together.
Sound(table, gens, free) ==
    /\ table \in Tables /\ gens \in Gens /\ free \in Lists
    /\ Len(gens) = Len(table)
    /\ Exact(free, table)

KnobsOK ==
    /\ block_size \in [Pools -> Sizes]
    /\ growable \in [Pools -> BOOLEAN] /\ fifo \in [Pools -> BOOLEAN]
    /\ DOMAIN slots = Pools /\ DOMAIN generations = Pools /\ DOMAIN free_list = Pools
    /\ slots = [p \in Pools |-> slots[p]]
    /\ generations = [p \in Pools |-> generations[p]]
    /\ free_list = [p \in Pools |-> free_list[p]]

Inv == KnobsOK /\ \A p \in Pools : Sound(slots[p], generations[p], free_list[p])

LEMMA InvIsTyped == Inv => TypeOK /\ FreeListExact
<1> SUFFICES ASSUME Inv PROVE TypeOK /\ FreeListExact
  OBVIOUS
<1>1. TypeOK
  BY DEF Inv, KnobsOK, Sound, Tables, Gens, Lists, TypeOK
<1>2. ASSUME NEW p \in Pools
      PROVE  /\ Listed(p) = {i \in Slots(p) : slots[p][i] = Empty}
             /\ \A k, l \in 1..Len(free_list[p]) : free_list[p][k] = free_list[p][l] => k = l
  BY SMTT(60) DEF Inv, Sound, Exact, Listed, Slots
<1> QED  BY <1>1, <1>2 DEF FreeListExact

-----------------------------------------------------------------------------
(* The free list as a sequence.                                             *)

\* What pop takes, and what it leaves.
LEMMA PopSplits ==
    ASSUME NEW p \in Pools, NEW free \in Lists, free # <<>>
    PROVE  /\ Rest(p, free) \in Lists
           /\ \E n \in 1..Len(free) :
                /\ Popped(p, free) = free[n]
                /\ Len(Rest(p, free)) = Len(free) - 1
                /\ \A k \in 1..Len(Rest(p, free)) :
                      Rest(p, free)[k] = free[IF k < n THEN k ELSE k + 1]
<1>1. Len(free) \in Nat /\ Len(free) >= 1
  BY DEF Lists
<1>2. CASE fifo[p]
  <2>1. /\ Rest(p, free) \in Lists /\ Popped(p, free) = free[1]
        /\ Len(Rest(p, free)) = Len(free) - 1
        /\ \A k \in 1..Len(Rest(p, free)) : Rest(p, free)[k] = free[k + 1]
    BY <1>1, <1>2 DEF Rest, Popped, Lists
  <2>2. \A k \in 1..Len(Rest(p, free)) : ~(k < 1)
    BY <1>1, <2>1
  <2>3. 1 \in 1..Len(free)
    BY <1>1
  <2> QED  BY <2>1, <2>2, <2>3
<1>3. CASE ~fifo[p]
  <2>1. /\ Rest(p, free) \in Lists /\ Popped(p, free) = free[Len(free)]
        /\ Len(Rest(p, free)) = Len(free) - 1
        /\ \A k \in 1..Len(Rest(p, free)) : Rest(p, free)[k] = free[k]
    <3>1. /\ SubSeq(free, 1, Len(free) - 1) \in Lists
          /\ Len(SubSeq(free, 1, Len(free) - 1)) = Len(free) - 1
          /\ \A k \in 1..(Len(free) - 1) : SubSeq(free, 1, Len(free) - 1)[k] = free[k]
      <4> DEFINE n == Len(free) - 1
      <4>1. 1 \in Int /\ n \in Nat /\ n \in Int /\ n - 1 + 1 = n
            /\ \A i \in 1..n : free[i] \in Nat \ {0} /\ 1 + i - 1 = i
        BY <1>1 DEF Lists
      <4> HIDE DEF n
      <4>2. /\ SubSeq(free, 1, n) \in Seq(Nat \ {0})
            /\ Len(SubSeq(free, 1, n)) = IF 1 <= n THEN n - 1 + 1 ELSE 0
            /\ \A i \in 1..(n - 1 + 1) : SubSeq(free, 1, n)[i] = free[1 + i - 1]
        BY <4>1, SubSeqProperties
      <4>3. Len(SubSeq(free, 1, n)) = n /\ \A k \in 1..n : SubSeq(free, 1, n)[k] = free[k]
        BY <4>1, <4>2
      <4> QED  BY <4>2, <4>3 DEF n, Lists
    <3> QED  BY <3>1, <1>3 DEF Rest, Popped, Front, Last
  <2>2. \A k \in 1..Len(Rest(p, free)) : k < Len(free)
    BY <1>1, <2>1
  <2>3. Len(free) \in 1..Len(free)
    BY <1>1
  <2> QED  BY <2>1, <2>2, <2>3
<1> QED  BY <1>2, <1>3

\* Filling the popped slot keeps the list exact.
LEMMA PopExact ==
    ASSUME NEW p \in Pools, NEW v \in Values, NEW table \in Tables, NEW free \in Lists,
           Exact(free, table), free # <<>>
    PROVE  /\ Popped(p, free) \in 1..Len(table) /\ table[Popped(p, free)] = Empty
           /\ [table EXCEPT ![Popped(p, free)] = v] \in Tables
           /\ Len([table EXCEPT ![Popped(p, free)] = v]) = Len(table)
           /\ Exact(Rest(p, free), [table EXCEPT ![Popped(p, free)] = v])
<1> DEFINE rest == Rest(p, free)
           i == Popped(p, free)
           new == [table EXCEPT ![i] = v]
<1>1. PICK n \in 1..Len(free) :
         /\ i = free[n] /\ Len(rest) = Len(free) - 1
         /\ \A k \in 1..Len(rest) : rest[k] = free[IF k < n THEN k ELSE k + 1]
  BY PopSplits
<1>2. Len(free) \in Nat /\ Len(table) \in Nat /\ rest \in Lists
  BY PopSplits DEF Lists, Tables
<1>3. i \in 1..Len(table) /\ table[i] = Empty
  BY <1>1 DEF Exact
<1>4. /\ new \in Tables /\ Len(new) = Len(table)
      /\ \A j \in 1..Len(table) : new[j] = IF j = i THEN v ELSE table[j]
  BY <1>3 DEF Tables
<1>5. v # Empty
  BY PoolAssumption
<1> HIDE DEF rest, i, new
<1>6. \A k \in 1..Len(rest) : (IF k < n THEN k ELSE k + 1) \in 1..Len(free)
                              /\ (IF k < n THEN k ELSE k + 1) # n
  BY <1>1, <1>2
<1>7. ASSUME NEW k \in 1..Len(rest) PROVE rest[k] \in 1..Len(new) /\ new[rest[k]] = Empty
  <2> DEFINE m == IF k < n THEN k ELSE k + 1
  <2>1. rest[k] = free[m] /\ m \in 1..Len(free) /\ m # n
    BY <1>1, <1>6
  <2> HIDE DEF m
  <2>2. free[m] # i /\ free[m] \in 1..Len(table) /\ table[free[m]] = Empty
    BY <2>1, <1>1 DEF Exact
  <2> QED  BY <2>1, <2>2, <1>4
<1>8. ASSUME NEW j \in 1..Len(new), new[j] = Empty PROVE \E k \in 1..Len(rest) : rest[k] = j
  <2>1. j \in 1..Len(table) /\ table[j] = Empty /\ j # i
    BY <1>4, <1>5, <1>8
  <2>2. PICK m \in 1..Len(free) : free[m] = j
    BY <2>1 DEF Exact
  <2>3. m # n
    BY <2>1, <2>2, <1>1
  <2>4. CASE m < n
    <3>1. m \in 1..Len(rest)
      BY <2>4, <1>1, <1>2
    <3> QED  BY <3>1, <2>2, <2>4, <1>1
  <2>5. CASE n < m
    <3>1. m - 1 \in 1..Len(rest) /\ ~(m - 1 < n) /\ (m - 1) + 1 = m
      BY <2>5, <1>1, <1>2
    <3> QED  BY <3>1, <2>2, <1>1
  <2> QED  BY <2>3, <2>4, <2>5, <1>2
<1>9. ASSUME NEW k \in 1..Len(rest), NEW l \in 1..Len(rest), rest[k] = rest[l] PROVE k = l
  <2> DEFINE mk == IF k < n THEN k ELSE k + 1
             ml == IF l < n THEN l ELSE l + 1
  <2>1. rest[k] = free[mk] /\ rest[l] = free[ml] /\ mk \in 1..Len(free) /\ ml \in 1..Len(free)
    BY <1>1, <1>6
  <2>2. mk = ml
    <3> HIDE DEF mk, ml
    <3> QED  BY <2>1, <1>9 DEF Exact
  <2> QED  BY <2>2, <1>2
<1>10. Exact(rest, new)
  BY <1>7, <1>8, <1>9 DEF Exact
<1> QED  BY <1>3, <1>4, <1>10 DEF i, new, rest

\* Emptying a slot and listing it keeps the list exact.
LEMMA PushExact ==
    ASSUME NEW table \in Tables, NEW free \in Lists, Exact(free, table),
           NEW i \in 1..Len(table), table[i] # Empty
    PROVE  /\ [table EXCEPT ![i] = Empty] \in Tables
           /\ Len([table EXCEPT ![i] = Empty]) = Len(table)
           /\ Append(free, i) \in Lists
           /\ Exact(Append(free, i), [table EXCEPT ![i] = Empty])
<1> DEFINE new == [table EXCEPT ![i] = Empty]
           more == Append(free, i)
<1>1. Len(free) \in Nat /\ Len(table) \in Nat
  BY DEF Lists, Tables
<1>2. /\ new \in Tables /\ Len(new) = Len(table)
      /\ \A j \in 1..Len(table) : new[j] = IF j = i THEN Empty ELSE table[j]
  BY DEF Tables
<1>3. /\ more \in Lists /\ Len(more) = Len(free) + 1 /\ more[Len(free) + 1] = i
      /\ \A k \in 1..Len(free) : more[k] = free[k]
  BY <1>1 DEF Lists
<1>4. \A k \in 1..Len(more) : k \in 1..Len(free) \/ k = Len(free) + 1
  BY <1>1, <1>3
<1>5. \A k \in 1..Len(free) : free[k] # i /\ k \in 1..Len(more)
  BY <1>1, <1>3 DEF Exact
<1>6. Len(free) + 1 \in 1..Len(more)
  BY <1>1, <1>3
<1> HIDE DEF new, more
<1>7. \A k \in 1..Len(more) : more[k] \in 1..Len(new) /\ new[more[k]] = Empty
  BY <1>2, <1>3, <1>4, SMTT(60) DEF Exact
<1>8. ASSUME NEW j \in 1..Len(new), new[j] = Empty PROVE \E k \in 1..Len(more) : more[k] = j
  BY <1>2, <1>3, <1>5, <1>6, <1>8 DEF Exact
<1>9. ASSUME NEW k \in 1..Len(more), NEW l \in 1..Len(more), more[k] = more[l] PROVE k = l
  BY <1>3, <1>4, <1>5, <1>9, SMTT(60) DEF Exact
<1> QED  BY <1>2, <1>3, <1>7, <1>8, <1>9 DEF Exact, new, more

\* A pool with nothing free and one more block of empty slots.
LEMMA GrowSound ==
    ASSUME NEW p \in Pools, Sound(slots[p], generations[p], free_list[p]), KnobsOK,
           free_list[p] = <<>>, block_size[p] > 0
    PROVE  /\ Sound(slots[p] \o Block(p, Empty), generations[p] \o Block(p, 0), NewIndexes(p))
           /\ NewIndexes(p) # <<>>
           /\ Len(slots[p] \o Block(p, Empty)) = Len(slots[p]) + block_size[p]
           /\ \A i \in Slots(p) : (slots[p] \o Block(p, Empty))[i] = slots[p][i]
<1> DEFINE b == block_size[p]  n == Len(slots[p])
           table == slots[p] \o Block(p, Empty)
           gens == generations[p] \o Block(p, 0)
           free == NewIndexes(p)
<1>1. b \in Nat /\ b > 0 /\ n \in Nat /\ slots[p] \in Tables /\ generations[p] \in Gens
      /\ Len(generations[p]) = n
  BY PoolAssumption DEF KnobsOK, Sound, Tables
<1>2. /\ Block(p, Empty) \in Tables /\ Len(Block(p, Empty)) = b
      /\ \A k \in 1..b : Block(p, Empty)[k] = Empty
  BY <1>1 DEF Block, Tables
<1>3. Block(p, 0) \in Gens /\ Len(Block(p, 0)) = b
  <2> DEFINE G == 0..MaxGeneration
  <2>1. 0 \in G
    BY PoolAssumption
  <2> HIDE DEF G, b
  <2>2. block_size[p] = b
    BY DEF b
  <2>3. Block(p, 0) \in Seq(G) /\ Len(Block(p, 0)) = b
    BY <1>1, <2>1, <2>2 DEF Block
  <2> QED  BY <2>3 DEF Gens, G
<1>5. /\ table \in Tables /\ Len(table) = n + b
      /\ \A i \in 1..n : table[i] = slots[p][i]
      /\ \A i \in (n+1)..(n+b) : table[i] = Empty
  <2> HIDE DEF n, b
  <2> DEFINE x == slots[p]  y == Block(p, Empty)
  <2>0. Len(x) = n
    BY DEF n
  <2> HIDE DEF x, y
  <2>1. x \in Tables /\ y \in Tables /\ Len(y) = b
    BY <1>1, <1>2 DEF x, y
  <2>2. /\ x \o y \in Tables /\ Len(x \o y) = n + b
        /\ \A i \in 1..(n + b) : (x \o y)[i] = IF i <= n THEN x[i] ELSE y[i - n]
    BY <2>0, <2>1, SMTT(60) DEF Tables
  <2>3. \A i \in 1..n : i \in 1..(n + b) /\ i <= n
    BY <1>1
  <2>4. \A i \in (n+1)..(n+b) : i \in 1..(n + b) /\ ~(i <= n) /\ i - n \in 1..b
    BY <1>1
  <2> QED  BY <2>2, <2>3, <2>4, <1>2 DEF x, y
<1>6. gens \in Gens /\ Len(gens) = n + b
  <2> DEFINE x == generations[p]  y == Block(p, 0)
  <2> HIDE DEF n, b, x, y
  <2>1. x \in Gens /\ y \in Gens /\ Len(y) = b /\ Len(x) = n
    BY <1>1, <1>3 DEF x, y
  <2>2. x \o y \in Gens /\ Len(x \o y) = n + b
    BY <2>1 DEF Gens
  <2> QED  BY <2>2 DEF x, y
<1>7. /\ free \in Lists /\ Len(free) = b /\ \A k \in 1..b : free[k] = n + k
  BY <1>1 DEF NewIndexes, Lists
<1>8. \A i \in 1..n : slots[p][i] # Empty
  BY DEF Sound, Exact
<1> HIDE DEF table, gens, free, b, n
<1>9. \A k \in 1..b : n + k \in 1..(n+b) /\ n + k \in (n+1)..(n+b)
  BY <1>1
<1>10. \A i \in 1..(n+b) : i \in 1..n \/ (i - n \in 1..b /\ n + (i - n) = i)
  BY <1>1
<1>11. \A k, l \in 1..b : n + k = n + l => k = l
  BY <1>1
<1>12. Exact(free, table)
  BY <1>5, <1>7, <1>8, <1>9, <1>10, <1>11 DEF Exact
<1>13. free # <<>>
  BY <1>1, <1>7
<1> QED  BY <1>5, <1>6, <1>7, <1>12, <1>13 DEF Sound, table, gens, free, b, n, Slots

-----------------------------------------------------------------------------
(* Steps of the pool.                                                       *)

\* A step that gives pool p new tables and leaves the others alone.
LEMMA OnePool ==
    ASSUME Inv, NEW p \in Pools, NEW table, NEW gens, NEW free, Sound(table, gens, free),
           slots' = [slots EXCEPT ![p] = table],
           generations' = [generations EXCEPT ![p] = gens],
           free_list' = [free_list EXCEPT ![p] = free],
           UNCHANGED <<block_size, knobs>>
    PROVE  Inv'
<1>1. KnobsOK'
  BY DEF Inv, KnobsOK, knobs
<1>2. ASSUME NEW q \in Pools PROVE Sound(slots'[q], generations'[q], free_list'[q])
  <2>1. CASE q = p
    BY <2>1 DEF Inv, KnobsOK
  <2>2. CASE q # p
    BY <2>2 DEF Inv, KnobsOK
  <2> QED  BY <2>1, <2>2
<1> QED  BY <1>1, <1>2 DEF Inv, Sound, Exact

LEMMA PutSound ==
    ASSUME Inv, NEW p \in Pools, NEW v \in Values, NEW table, NEW gens, NEW free,
           Sound(table, gens, free), free # <<>>, Put(p, v, table, gens, free),
           UNCHANGED <<block_size, knobs>>
    PROVE  /\ Inv'
           /\ \A q \in Pools \ {p} : slots'[q] = slots[q]
           /\ \A i \in 1..Len(table) : table[i] # Empty => slots'[p][i] = table[i]
<1> DEFINE i == Popped(p, free)
           new == [table EXCEPT ![i] = v]
           rest == Rest(p, free)
<1>1. /\ slots' = [slots EXCEPT ![p] = new]
      /\ generations' = [generations EXCEPT ![p] = gens]
      /\ free_list' = [free_list EXCEPT ![p] = rest]
  BY DEF Put
<1>2. /\ i \in 1..Len(table) /\ table[i] = Empty
      /\ new \in Tables /\ Len(new) = Len(table) /\ Exact(rest, new) /\ rest \in Lists
  <2>1. table \in Tables /\ free \in Lists /\ Exact(free, table)
    BY DEF Sound
  <2>2. rest \in Lists
    BY <2>1, PopSplits
  <2> QED  BY <2>1, <2>2, PopExact
<1>3. Sound(new, gens, rest)
  BY <1>2 DEF Sound
<1>4. \A j \in 1..Len(table) : table[j] # Empty => new[j] = table[j]
  BY <1>2 DEF Sound, Tables
<1> HIDE DEF i, new, rest
<1>5. Inv'
  BY <1>1, <1>3, OnePool
<1>6. slots'[p] = new /\ \A q \in Pools \ {p} : slots'[q] = slots[q]
  BY <1>1 DEF Inv, KnobsOK
<1> QED  BY <1>4, <1>5, <1>6

\* No acquire disturbs an occupied slot.
LEMMA AcquireSound ==
    ASSUME Inv, NEW p \in Pools, NEW v \in Values, Acquire(p, v)
    PROVE  /\ Inv'
           /\ \A q \in Pools : \A i \in Slots(q) :
                 slots[q][i] # Empty => slots'[q][i] = slots[q][i]
<1>0. UNCHANGED <<block_size, knobs>>
  BY DEF Acquire
<1>1. CASE AcquireFree(p, v)
  <2>1. Sound(slots[p], generations[p], free_list[p]) /\ free_list[p] # <<>>
        /\ Put(p, v, slots[p], generations[p], free_list[p])
    BY <1>1 DEF Inv, AcquireFree
  <2> QED  BY <2>1, <1>0, PutSound DEF Slots
<1>2. CASE AcquireGrown(p, v)
  <2> DEFINE table == slots[p] \o Block(p, Empty)
             gens == generations[p] \o Block(p, 0)
             free == NewIndexes(p)
  <2>1. free_list[p] = <<>> /\ block_size[p] > 0 /\ Put(p, v, table, gens, free)
    BY <1>2 DEF AcquireGrown, CanGrow
  <2>2. /\ Sound(table, gens, free) /\ free # <<>>
        /\ Len(table) = Len(slots[p]) + block_size[p]
        /\ \A i \in Slots(p) : table[i] = slots[p][i]
    BY <2>1, GrowSound DEF Inv
  <2>3. \A i \in Slots(p) : i \in 1..Len(table)
    BY <2>1, <2>2, PoolAssumption DEF Slots, Inv, KnobsOK, Sound, Tables
  <2> HIDE DEF table, gens, free
  <2> QED  BY <2>1, <2>2, <2>3, <1>0, PutSound
<1>3. CASE AcquireNone(p)
  BY <1>0, <1>3 DEF AcquireNone, tables, knobs, Inv, KnobsOK, Sound, Exact
<1> QED  BY <1>1, <1>2, <1>3 DEF Acquire

LEMMA ReleaseSlotSound ==
    ASSUME Inv, NEW p \in Pools, NEW h, ReleaseSlot(p, h), UNCHANGED <<block_size, knobs>>
    PROVE  /\ Inv'
           /\ \A q \in Pools : \A i \in Slots(q) :
                 slots'[q][i] # slots[q][i] => q = p /\ i = h[2] /\ generations[p][i] = h[3]
<1> DEFINE i == h[2]
           table == [slots[p] EXCEPT ![i] = Empty]
           gens == [generations[p] EXCEPT ![i] = (generations[p][i] + 1) % GenModulus]
           free == Append(free_list[p], i)
<1>1. /\ i \in Slots(p) /\ generations[p][i] = h[3] /\ slots[p][i] # Empty
      /\ generations[p][i] < MaxGeneration
      /\ slots' = [slots EXCEPT ![p] = table]
      /\ generations' = [generations EXCEPT ![p] = gens]
      /\ free_list' = [free_list EXCEPT ![p] = free]
  BY DEF ReleaseSlot, Fresh
<1>2. Sound(slots[p], generations[p], free_list[p])
  BY DEF Inv
<1>3. table \in Tables /\ Len(table) = Len(slots[p]) /\ free \in Lists /\ Exact(free, table)
  BY <1>1, <1>2, PushExact DEF Sound, Slots
<1>4. gens \in Gens /\ Len(gens) = Len(slots[p])
  <2>1. generations[p] \in Gens /\ i \in 1..Len(generations[p])
    BY <1>1, <1>2 DEF Sound, Slots
  <2>2. (generations[p][i] + 1) % GenModulus \in 0..MaxGeneration
    <3>1. generations[p][i] \in Nat
      <4> DEFINE G == 0..MaxGeneration  s == generations[p]
      <4>1. s \in Seq(G) /\ i \in 1..Len(s)
        BY <2>1 DEF Gens
      <4> HIDE DEF G, s, i
      <4>2. s[i] \in G
        BY <4>1
      <4> QED  BY <4>2, PoolAssumption DEF G, s
    <3> DEFINE g == generations[p][i] + 1
    <3>2. g \in Nat /\ g < GenModulus /\ g <= MaxGeneration
      BY <1>1, <3>1, PoolAssumption
    <3> HIDE DEF g
    <3>3. g % GenModulus = g
      BY <3>2, PoolAssumption
    <3> QED  BY <3>2, <3>3, PoolAssumption DEF g
  <2> QED  BY <2>1, <2>2, <1>2 DEF Sound, Gens
<1>5. Sound(table, gens, free)
  BY <1>3, <1>4 DEF Sound
<1>6. \A j \in Slots(p) : j # i => table[j] = slots[p][j]
  BY <1>2 DEF Sound, Tables, Slots
<1> HIDE DEF table, gens, free, i
<1>7. Inv'
  BY <1>1, <1>5, OnePool
<1>8. slots'[p] = table /\ \A q \in Pools \ {p} : slots'[q] = slots[q]
  BY <1>1 DEF Inv, KnobsOK
<1> QED  BY <1>1, <1>6, <1>7, <1>8 DEF i

\* Without strays, the handle a slot is released with is its own.
LEMMA OwnHandle ==
    ASSUME Inv, ~Strays, NEW p \in Pools, NEW h \in Known(p)
    PROVE  h = <<p, h[2], h[3]>>
BY DEF Known, Issued, Live, Stale

LEMMA NothingMoves ==
    ASSUME Inv, UNCHANGED tables, UNCHANGED block_size,
           growable' \in [Pools -> BOOLEAN], fifo' \in [Pools -> BOOLEAN]
    PROVE  Inv' /\ slots' = slots
BY DEF tables, Inv, KnobsOK, Sound, Exact

\* Every step keeps the tables sound and empties a slot only as the property says.
ByOwnHandle ==
    \A p \in Pools : \A i \in Slots(p) :
        slots[p][i] # Empty /\ slots'[p][i] # slots[p][i]
            => call'.method = "release" /\ call'.handle = <<p, i, generations[p][i]>>

LEMMA StepSound ==
    ASSUME Inv, [Next]_vars
    PROVE  Inv' /\ (~Strays => ByOwnHandle)
<1>1. ASSUME NEW p \in Pools, NEW v \in Values, Acquire(p, v)
      PROVE  Inv' /\ (~Strays => ByOwnHandle)
  BY <1>1, AcquireSound DEF ByOwnHandle
<1>2. ASSUME NEW p \in Pools, NEW h \in Known(p), Release(p, h)
      PROVE  Inv' /\ (~Strays => ByOwnHandle)
  <2>1. UNCHANGED <<block_size, knobs>> /\ call'.method = "release" /\ call'.handle = h
    BY <1>2 DEF Release, Called
  <2>2. CASE ReleaseSlot(p, h)
    <3>1. /\ Inv'
          /\ \A q \in Pools : \A i \in Slots(q) :
                slots'[q][i] # slots[q][i] => q = p /\ i = h[2] /\ generations[p][i] = h[3]
      BY <2>1, <2>2, ReleaseSlotSound
    <3> QED  BY <2>1, <3>1, <1>2, OwnHandle DEF ByOwnHandle
  <2>3. CASE ReleaseNothing(p, h)
    <3>1. Inv' /\ slots' = slots
      BY <2>1, <2>3, NothingMoves DEF ReleaseNothing, Inv, KnobsOK, knobs
    <3> QED  BY <3>1 DEF ByOwnHandle
  <2> QED  BY <1>2, <2>2, <2>3 DEF Release
<1>3. ASSUME NEW p \in Pools,
             (\E h \in Known(p) : Get(p, h)) \/ Iterate(p) \/ Growable(p) \/ Fifo(p)
      PROVE  Inv' /\ (~Strays => ByOwnHandle)
  <2>1. UNCHANGED tables /\ UNCHANGED block_size
    BY <1>3 DEF Get, Iterate, Growable, Fifo
  <2>2. growable' \in [Pools -> BOOLEAN] /\ fifo' \in [Pools -> BOOLEAN]
    BY <1>3 DEF Get, Iterate, Growable, Fifo, Inv, KnobsOK, knobs
  <2>3. Inv' /\ slots' = slots
    BY <2>1, <2>2, NothingMoves
  <2> QED  BY <2>3 DEF ByOwnHandle
<1>4. CASE UNCHANGED vars
  <2>1. Inv' /\ slots' = slots
    BY <1>4, NothingMoves DEF vars, tables, Inv, KnobsOK
  <2> QED  BY <2>1 DEF ByOwnHandle
<1> QED  BY <1>1, <1>2, <1>3, <1>4 DEF Next

LEMMA InitSound == Init => Inv
<1> SUFFICES ASSUME Init PROVE Inv
  OBVIOUS
<1>1. KnobsOK
  BY DEF Init, KnobsOK
<1>2. ASSUME NEW p \in Pools PROVE Sound(slots[p], generations[p], free_list[p])
  <2> DEFINE b == block_size[p]  G == 0..MaxGeneration
  <2>1. b \in Nat /\ 0 \in G
    <3>1. b \in Sizes
      BY DEF Init
    <3>2. Sizes \subseteq Nat
      BY PoolAssumption
    <3>3. b \in Nat
      BY <3>1, <3>2
    <3>4. 0 \in G
      BY PoolAssumption
    <3> QED  BY <3>3, <3>4
  <2>2. /\ slots[p] = [k \in 1..b |-> Empty] /\ generations[p] = [k \in 1..b |-> 0]
        /\ free_list[p] = [k \in 1..b |-> k]
    BY DEF Init, Block
  <2> HIDE DEF b, G
  <2>3. /\ slots[p] \in Tables /\ Len(slots[p]) = b
        /\ \A k \in 1..b : slots[p][k] = Empty
    BY <2>1, <2>2 DEF Tables
  <2>4. generations[p] \in Seq(G) /\ Len(generations[p]) = b
    BY <2>1, <2>2
  <2>5. /\ free_list[p] \in Lists /\ Len(free_list[p]) = b
        /\ \A k \in 1..b : free_list[p][k] = k
    BY <2>1, <2>2 DEF Lists
  <2> QED  BY <2>3, <2>4, <2>5 DEF Sound, Exact, Gens, G
<1> QED  BY <1>1, <1>2 DEF Inv

-----------------------------------------------------------------------------
(* When acquire fails.                                                      *)

\* What is put in a slot is answered with its handle.
LEMMA PutAnswers ==
    ASSUME NEW p \in Pools, NEW v \in Values, NEW table, NEW gens, NEW free,
           Sound(table, gens, free), free # <<>>, Put(p, v, table, gens, free)
    PROVE  ret' # Null
<1> DEFINE i == Popped(p, free)
<1>1. i \in 1..Len(table)
  <2>1. table \in Tables /\ free \in Lists /\ Exact(free, table)
    BY DEF Sound
  <2> QED  BY <2>1, PopSplits, PopExact
<1>2. Len(table) \in Nat /\ i \in Nat \ {0}
  BY <1>1 DEF Sound, Tables
<1>3. gens[i] \in Nat
  <2> DEFINE G == 0..MaxGeneration
  <2>1. gens \in Seq(G) /\ i \in 1..Len(gens)
    BY <1>1 DEF Sound, Gens
  <2> HIDE DEF G, i
  <2>2. gens[i] \in G
    BY <2>1
  <2> QED  BY <2>2, PoolAssumption DEF G
<1>4. ret' = <<p, i, gens[i]>>
  BY DEF Put
<1> HIDE DEF i
<1>5. ret' \in Pools \X (Nat \ {0}) \X Nat
  BY <1>2, <1>3, <1>4
<1> QED  BY <1>5, PoolAssumption

LEMMA AcquireFails ==
    ASSUME Inv, NEW p \in Pools, NEW v \in Values, Acquire(p, v)
    PROVE  FailsOnlyWhenFull'
<1>0. call' = [method |-> "acquire", pool |-> p, handle |-> Null] /\ UNCHANGED <<block_size, knobs>>
  BY DEF Acquire, Called
<1>1. CASE AcquireFree(p, v)
  <2>1. Sound(slots[p], generations[p], free_list[p]) /\ free_list[p] # <<>>
        /\ Put(p, v, slots[p], generations[p], free_list[p])
    BY <1>1 DEF Inv, AcquireFree
  <2> QED  BY <2>1, PutAnswers DEF FailsOnlyWhenFull
<1>2. CASE AcquireGrown(p, v)
  <2> DEFINE table == slots[p] \o Block(p, Empty)
             gens == generations[p] \o Block(p, 0)
             free == NewIndexes(p)
  <2>1. free_list[p] = <<>> /\ block_size[p] > 0 /\ Put(p, v, table, gens, free)
    BY <1>2 DEF AcquireGrown, CanGrow
  <2>2. Sound(table, gens, free) /\ free # <<>>
    BY <2>1, GrowSound DEF Inv
  <2> HIDE DEF table, gens, free
  <2> QED  BY <2>1, <2>2, PutAnswers DEF FailsOnlyWhenFull
<1>3. CASE AcquireNone(p)
  <2>1. free_list[p] = <<>> /\ (growable[p] => block_size[p] = 0) /\ UNCHANGED tables
    BY <1>3 DEF AcquireNone
  <2>2. \A i \in Slots(p) : slots[p][i] # Empty
    BY <2>1 DEF Inv, Sound, Exact, Slots
  <2> QED  BY <1>0, <2>1, <2>2 DEF FailsOnlyWhenFull, Slots, tables, knobs
<1> QED  BY <1>1, <1>2, <1>3 DEF Acquire

LEMMA StepFails ==
    ASSUME Inv, FailsOnlyWhenFull, [Next]_vars
    PROVE  FailsOnlyWhenFull'
<1>1. ASSUME NEW p \in Pools, NEW v \in Values, Acquire(p, v) PROVE FailsOnlyWhenFull'
  BY <1>1, AcquireFails
<1>2. ASSUME NEW p \in Pools, NEW h, Release(p, h) \/ Get(p, h) \/ Iterate(p) \/ Growable(p) \/ Fifo(p)
      PROVE  FailsOnlyWhenFull'
  BY <1>2 DEF Release, Get, Iterate, Growable, Fifo, Called, FailsOnlyWhenFull
<1>3. CASE UNCHANGED vars
  BY <1>3 DEF vars, FailsOnlyWhenFull, Slots
<1> QED  BY <1>1, <1>2, <1>3 DEF Next

-----------------------------------------------------------------------------
(* The pool as a store.                                                     *)

AllLive   == UNION {Live(p) : p \in Pools}
AllIssued == UNION {Issued(p) : p \in Pools}

\* What a handle has to be to be in use, or to have been given out.
InUse(h)    == /\ h[1] \in Pools /\ h[2] \in Slots(h[1]) /\ slots[h[1]][h[2]] # Empty
               /\ h = <<h[1], h[2], generations[h[1]][h[2]]>>
GivenOut(h) == /\ h[1] \in Pools /\ h[2] \in Slots(h[1])
               /\ h[3] \in 0..(generations[h[1]][h[2]] - 1) /\ h = <<h[1], h[2], h[3]>>

LEMMA Members ==
    /\ \A h : h \in AllLive <=> InUse(h)
    /\ \A h : h \in AllIssued <=> InUse(h) \/ GivenOut(h)
<1>1. \A p : \A h : h \in Live(p) <=>
         \E i \in Slots(p) : slots[p][i] # Empty /\ h = <<p, i, generations[p][i]>>
  BY DEF Live, Occupied
<1>2. \A p : \A h : h \in Stale(p) <=>
         \E i \in Slots(p) : \E g \in 0..(generations[p][i] - 1) : h = <<p, i, g>>
  BY DEF Stale
<1>3. \A h : h \in AllLive <=> InUse(h)
  <2>1. \A h : h \in AllLive <=> \E p \in Pools : h \in Live(p)
    BY DEF AllLive
  <2> QED  BY <1>1, <2>1 DEF InUse
<1>4. \A h : h \in AllIssued <=> InUse(h) \/ GivenOut(h)
  <2>1. \A h : h \in AllIssued <=> \E p \in Pools : h \in Live(p) \/ h \in Stale(p)
    BY DEF AllIssued, Issued
  <2>2. \A h : GivenOut(h) <=> \E p \in Pools : h \in Stale(p)
    BY <1>2 DEF GivenOut
  <2>3. \A h : InUse(h) <=> \E p \in Pools : h \in Live(p)
    BY <1>1 DEF InUse
  <2> QED  BY <2>1, <2>2, <2>3
<1> QED  BY <1>3, <1>4

\* Generations are numbers.
LEMMA GenType ==
    ASSUME Inv, NEW p \in Pools, NEW i \in Slots(p)
    PROVE  generations[p][i] \in 0..MaxGeneration /\ generations[p][i] \in Nat
<1> DEFINE G == 0..MaxGeneration  s == generations[p]
<1>1. s \in Seq(G) /\ i \in 1..Len(s)
  BY DEF Inv, Sound, Gens, Slots
<1> HIDE DEF G, s
<1>2. s[i] \in G
  BY <1>1
<1> QED  BY <1>2, PoolAssumption DEF G, s

\* Pools of blocks without slots stay empty: no handle of theirs makes locate
\* divide by zero.
NoSlots == \A p \in Pools : block_size[p] = 0 => Slots(p) = {}

\* What storing v in slot i of p does to the tables.
Stored(p, i, v) ==
    /\ \A q \in Pools \ {p} : slots'[q] = slots[q] /\ generations'[q] = generations[q]
    /\ Slots(p) \subseteq Slots(p)' /\ i \in Slots(p)'
    /\ slots'[p][i] = v /\ (i \in Slots(p) => slots[p][i] = Empty)
    /\ \A j \in Slots(p)' \ {i} : slots'[p][j] = IF j \in Slots(p) THEN slots[p][j] ELSE Empty
    /\ \A j \in Slots(p)' :
          generations'[p][j] = IF j \in Slots(p) THEN generations[p][j] ELSE 0
    /\ ret' = <<p, i, generations'[p][i]>>
    /\ Slots(p) # {} \/ block_size[p] # 0

\* The slot a value is put in.
LEMMA Placed ==
    ASSUME NEW p \in Pools, NEW v \in Values, NEW table, NEW gens, NEW free,
           Sound(table, gens, free), free # <<>>
    PROVE  LET i == Popped(p, free)  new == [table EXCEPT ![i] = v]
           IN  /\ i \in 1..Len(table) /\ table[i] = Empty /\ Len(new) = Len(table)
               /\ \A j \in 1..Len(table) : new[j] = IF j = i THEN v ELSE table[j]
<1> DEFINE i == Popped(p, free)
           new == [table EXCEPT ![i] = v]
<1>1. table \in Tables /\ free \in Lists /\ Exact(free, table)
  BY DEF Sound
<1>2. /\ i \in 1..Len(table) /\ table[i] = Empty
      /\ new \in Tables /\ Len(new) = Len(table) /\ Exact(Rest(p, free), new)
  BY <1>1, PopExact
<1>3. \A j \in 1..Len(table) : new[j] = IF j = i THEN v ELSE table[j]
  BY <1>1, <1>2 DEF Tables
<1> QED  BY <1>2, <1>3

LEMMA PutStores ==
    ASSUME Inv, NEW p \in Pools, NEW v \in Values, NEW table, NEW gens, NEW free,
           Sound(table, gens, free), free # <<>>, Put(p, v, table, gens, free),
           Len(slots[p]) <= Len(table),
           \A j \in 1..Len(table) :
              /\ table[j] = IF j \in Slots(p) THEN slots[p][j] ELSE Empty
              /\ gens[j] = IF j \in Slots(p) THEN generations[p][j] ELSE 0,
           Slots(p) # {} \/ block_size[p] # 0
    PROVE  \E i : Stored(p, i, v)
<1> DEFINE i == Popped(p, free)
           new == [table EXCEPT ![i] = v]
<1>1. Len(table) \in Nat
  BY DEF Sound, Tables
<1>2. i \in 1..Len(table) /\ table[i] = Empty /\ Len(new) = Len(table)
  BY Placed
<1>3. \A j \in 1..Len(table) : new[j] = IF j = i THEN v ELSE table[j]
  BY Placed
<1>4. ret' = <<p, i, gens[i]>>
  BY DEF Put
<1>5. slots' = [slots EXCEPT ![p] = new] /\ generations' = [generations EXCEPT ![p] = gens]
  BY DEF Put
<1> HIDE DEF i, new
<1>6. /\ slots'[p] = new /\ generations'[p] = gens
      /\ \A q \in Pools \ {p} : slots'[q] = slots[q] /\ generations'[q] = generations[q]
  BY <1>5 DEF Inv, KnobsOK
<1>7. Slots(p)' = 1..Len(table) /\ Slots(p) \subseteq Slots(p)'
  <2>1. Len(table) \in Nat /\ Len(slots[p]) \in Nat
    BY <1>1 DEF Tables, Inv, Sound
  <2> QED  BY <1>2, <1>6, <2>1 DEF Slots
<1>8. i \in Slots(p)' /\ slots'[p][i] = v /\ (i \in Slots(p) => slots[p][i] = Empty)
  <2>1. i \in Slots(p)'
    BY <1>2, <1>7
  <2>2. slots'[p][i] = v
    BY <1>2, <1>3, <1>6
  <2>3. i \in Slots(p) => slots[p][i] = Empty
    BY <1>2
  <2> QED  BY <2>1, <2>2, <2>3
<1>9. \A j \in Slots(p)' \ {i} : slots'[p][j] = IF j \in Slots(p) THEN slots[p][j] ELSE Empty
  BY <1>3, <1>6, <1>7
<1>10. \A j \in Slots(p)' :
          generations'[p][j] = IF j \in Slots(p) THEN generations[p][j] ELSE 0
  BY <1>6, <1>7
<1>11. ret' = <<p, i, generations'[p][i]>>
  BY <1>4, <1>6
<1>12. Stored(p, i, v)
  BY <1>6, <1>7, <1>8, <1>9, <1>10, <1>11 DEF Stored
<1> QED  BY <1>12

LEMMA AcquireStores ==
    ASSUME Inv, NoSlots, NEW p \in Pools, NEW v \in Values,
           AcquireFree(p, v) \/ AcquireGrown(p, v)
    PROVE  \E i : Stored(p, i, v)
<1>1. Sound(slots[p], generations[p], free_list[p]) /\ Len(slots[p]) \in Nat
      /\ Len(generations[p]) = Len(slots[p])
  BY DEF Inv, Sound, Tables
<1>2. CASE AcquireFree(p, v)
  <2>1. free_list[p] # <<>> /\ Put(p, v, slots[p], generations[p], free_list[p])
    BY <1>2 DEF AcquireFree
  <2>2. Slots(p) # {}
    <3>1. 1 \in 1..Len(free_list[p])
      BY <1>1, <2>1 DEF Sound, Lists
    <3> QED  BY <1>1, <3>1 DEF Sound, Exact, Slots
  <2> QED  BY <1>1, <2>1, <2>2, PutStores DEF Slots
<1>3. CASE AcquireGrown(p, v)
  <2> DEFINE table == slots[p] \o Block(p, Empty)
             gens == generations[p] \o Block(p, 0)
             free == NewIndexes(p)
             n == Len(slots[p])
             b == block_size[p]
  <2>1. free_list[p] = <<>> /\ b > 0 /\ Put(p, v, table, gens, free)
    BY <1>3 DEF AcquireGrown, CanGrow
  <2>2. Sound(table, gens, free) /\ free # <<>> /\ Len(table) = n + b
    BY <1>1, <2>1, GrowSound DEF Inv
  <2>3. b \in Nat /\ b # 0 /\ n \in Nat /\ n <= Len(table)
    BY <1>1, <2>1, <2>2, PoolAssumption DEF Inv, KnobsOK
  <2>4. ASSUME NEW j \in 1..(n + b)
        PROVE  /\ table[j] = IF j \in Slots(p) THEN slots[p][j] ELSE Empty
               /\ gens[j] = IF j \in Slots(p) THEN generations[p][j] ELSE 0
    <3> DEFINE s == slots[p]  g == generations[p]  e == Block(p, Empty)  z == Block(p, 0)
    <3>1. Len(e) = b /\ Len(z) = b /\ \A k \in 1..b : e[k] = Empty /\ z[k] = 0
      BY <2>3 DEF Block
    <3>2. s \in Tables /\ g \in Gens /\ e \in Seq({Empty}) /\ z \in Seq({0})
      BY <1>1, <2>3 DEF Sound, Block
    <3>3. Len(s) = n /\ Len(g) = n /\ Slots(p) = 1..n
      BY <1>1 DEF Slots
    <3>4. (j \in 1..n <=> j <= n) /\ (~(j <= n) => j - n \in 1..b)
      BY <2>3
    <3> HIDE DEF s, g, e, z, n, b
    <3>5. (s \o e)[j] = IF j <= n THEN s[j] ELSE e[j - n]
      BY <3>1, <3>2, <3>3 DEF Tables
    <3>6. (g \o z)[j] = IF j <= n THEN g[j] ELSE z[j - n]
      BY <3>1, <3>2, <3>3 DEF Gens
    <3> QED  BY <3>1, <3>3, <3>4, <3>5, <3>6 DEF s, g, e, z
  <2> HIDE DEF table, gens, free
  <2> QED  BY <2>1, <2>2, <2>3, <2>4, PutStores
<1> QED  BY <1>2, <1>3

\* A step that stores nothing and frees nothing.
LEMMA SameHandles ==
    ASSUME UNCHANGED <<slots, generations>>
    PROVE  AllLive' = AllLive /\ AllIssued' = AllIssued /\ Store' = Store
BY DEF AllLive, AllIssued, Store, Issued, Live, Stale, Occupied, Slots

-----------------------------------------------------------------------------
(* Each step of the pool is a step of the store.                            *)

LEMMA MembersNext ==
    /\ \A h : h \in AllLive' <=> InUse(h)'
    /\ \A h : h \in AllIssued' <=> InUse(h)' \/ GivenOut(h)'
<1>1. ( /\ \A h : h \in AllLive <=> InUse(h)
        /\ \A h : h \in AllIssued <=> InUse(h) \/ GivenOut(h) )'
  BY Members, PTL
<1> QED  BY <1>1

LEMMA StoreIs ==
    /\ Store = [h \in AllLive |-> slots[h[1]][h[2]]]
    /\ Store' = [h \in AllLive' |-> slots'[h[1]][h[2]]]
BY DEF Store, AllLive

LEMMA InitMaps == Init => Abstract!Init
<1> SUFFICES ASSUME Init PROVE Abstract!Init
  OBVIOUS
<1>1. ASSUME NEW p \in Pools, NEW i \in Slots(p)
      PROVE  slots[p][i] = Empty /\ generations[p][i] = 0
  <2>1. slots[p] = Block(p, Empty) /\ generations[p] = Block(p, 0) /\ block_size[p] \in Nat
    BY PoolAssumption DEF Init
  <2>2. Slots(p) = 1..block_size[p]
    BY <2>1 DEF Slots, Block
  <2> QED  BY <2>1, <2>2 DEF Block
<1>2. \A h : ~InUse(h) /\ ~GivenOut(h)
  <2>1. \A h : ~InUse(h)
    BY <1>1 DEF InUse
  <2>2. ASSUME NEW h, GivenOut(h) PROVE FALSE
    <3>1. h[3] \in 0..(0 - 1)
      BY <1>1, <2>2 DEF GivenOut
    <3> QED  BY <3>1
  <2> QED  BY <2>1, <2>2
<1>3. AllLive = {} /\ AllIssued = {} /\ ret = Void
  BY <1>2, Members DEF Init
<1> QED  BY <1>3 DEF Abstract!Init, Store, AllLive, AllIssued

\* An acquire that answers with a handle.
LEMMA StoredMaps ==
    ASSUME Inv, NEW p \in Pools, NEW v \in Values, NEW i, Stored(p, i, v)
    PROVE  Abstract!Acquire(p, v)
<1> DEFINE new == <<p, i, generations'[p][i]>>
<1>1. v # Empty
  BY PoolAssumption
<1>2. \A q \in Pools \ {p} : Slots(q)' = Slots(q) /\ slots'[q] = slots[q] /\ generations'[q] = generations[q]
  BY DEF Stored, Slots
<1>3. ~InUse(new) /\ ~GivenOut(new)
  <2>1. i \in Slots(p) => slots[p][i] = Empty /\ generations'[p][i] = generations[p][i]
    BY DEF Stored
  <2>2. i \in Slots(p) => generations[p][i] \in Nat
    BY GenType
  <2>3. i \in Slots(p) => generations[p][i] \notin 0..(generations[p][i] - 1)
    BY <2>2
  <2> QED  BY <2>1, <2>3 DEF InUse, GivenOut
<1>4. ASSUME NEW h PROVE InUse(h)' <=> InUse(h) \/ h = new
  <2>1. CASE h[1] = p
    <3>1. CASE h[2] = i
      BY <1>1, <2>1, <3>1 DEF InUse, Stored
    <3>2. CASE h[2] # i
      BY <2>1, <3>2 DEF InUse, Stored
    <3> QED  BY <3>1, <3>2
  <2>2. CASE h[1] # p
    BY <2>2, <1>2 DEF InUse
  <2> QED  BY <2>1, <2>2
<1>5. ASSUME NEW h PROVE GivenOut(h)' <=> GivenOut(h)
  <2>1. CASE h[1] = p
    <3>1. CASE h[2] \in Slots(p)
      BY <2>1, <3>1 DEF GivenOut, Stored
    <3>2. CASE h[2] \notin Slots(p)
      <4>1. ~(h[3] \in 0..(0 - 1))
        OBVIOUS
      <4> QED  BY <2>1, <3>2, <4>1 DEF GivenOut, Stored
    <3> QED  BY <3>1, <3>2
  <2>2. CASE h[1] # p
    BY <2>2, <1>2 DEF GivenOut
  <2> QED  BY <2>1, <2>2
<1>6. new \notin AllIssued /\ AllIssued' = AllIssued \cup {new} /\ AllLive' = AllLive \cup {new}
  <2> HIDE DEF new
  <2> QED  BY <1>3, <1>4, <1>5, Members, MembersNext
<1>7. ASSUME NEW h \in AllLive PROVE h # new /\ slots'[h[1]][h[2]] = slots[h[1]][h[2]]
  <2>1. InUse(h)
    BY Members
  <2>2. h # new
    BY <2>1, <1>3
  <2>3. CASE h[1] = p
    BY <2>1, <2>3 DEF InUse, Stored
  <2>4. CASE h[1] # p
    BY <2>1, <2>4, <1>2 DEF InUse
  <2> QED  BY <2>2, <2>3, <2>4
<1>8. ret' = new /\ new[1] = p /\ slots'[new[1]][new[2]] = v
  BY DEF Stored
<1> HIDE DEF new
<1>9. Store' = [h \in DOMAIN Store \cup {new} |-> IF h = new THEN v ELSE Store[h]]
  BY <1>6, <1>7, <1>8, StoreIs
<1> QED  BY <1>6, <1>8, <1>9 DEF Abstract!Acquire, Abstract!PoolOf, AllIssued

\* A handle the program may pass to p.
LEMMA KnownHandle ==
    ASSUME Inv, NoSlots, ~Strays, NEW p \in Pools, NEW h \in Known(p)
    PROVE  /\ h \in AllIssued /\ h = <<p, h[2], h[3]>> /\ h[2] \in Slots(p) /\ Locates(p)
           /\ InUse(h) => Fresh(p, h) /\ slots[p][h[2]] # Empty
           /\ Fresh(p, h) /\ slots[p][h[2]] # Empty => InUse(h)
           /\ GivenOut(h) => ~Fresh(p, h)
<1>1. h \in AllIssued /\ h = <<p, h[2], h[3]>>
  BY OwnHandle DEF Known, AllIssued
<1>2. InUse(h) \/ GivenOut(h)
  BY <1>1, Members
<1>3. h[1] = p /\ h[2] \in Slots(p)
  BY <1>1, <1>2 DEF InUse, GivenOut
<1>4. Locates(p)
  BY <1>3 DEF NoSlots, Locates
<1>5. InUse(h) => Fresh(p, h) /\ slots[p][h[2]] # Empty
  BY <1>1, <1>3 DEF InUse, Fresh
<1>6. Fresh(p, h) /\ slots[p][h[2]] # Empty => InUse(h)
  BY <1>1, <1>3 DEF InUse, Fresh
<1>7. GivenOut(h) => ~Fresh(p, h)
  <2>1. generations[p][h[2]] \notin 0..(generations[p][h[2]] - 1)
    BY <1>3, GenType
  <2> QED  BY <1>3, <2>1 DEF GivenOut, Fresh
<1> QED  BY <1>1, <1>3, <1>4, <1>5, <1>6, <1>7

\* What emptying slot i of p does to the tables.
Freed(p, i) ==
    /\ \A q \in Pools : Slots(q)' = Slots(q)
    /\ \A q \in Pools \ {p} : slots'[q] = slots[q] /\ generations'[q] = generations[q]
    /\ i \in Slots(p) /\ slots'[p][i] = Empty
    /\ generations'[p][i] = generations[p][i] + 1
    /\ \A j \in Slots(p) \ {i} :
          slots'[p][j] = slots[p][j] /\ generations'[p][j] = generations[p][j]

LEMMA ReleaseFrees ==
    ASSUME Inv, NEW p \in Pools, NEW h, ReleaseSlot(p, h)
    PROVE  Freed(p, h[2])
<1> DEFINE i == h[2]
           table == [slots[p] EXCEPT ![i] = Empty]
           gens == [generations[p] EXCEPT ![i] = (generations[p][i] + 1) % GenModulus]
<1>1. /\ i \in Slots(p) /\ generations[p][i] < MaxGeneration
      /\ slots' = [slots EXCEPT ![p] = table]
      /\ generations' = [generations EXCEPT ![p] = gens]
  BY DEF ReleaseSlot, Fresh
<1>2. slots[p] \in Tables /\ generations[p] \in Gens /\ Len(generations[p]) = Len(slots[p])
  BY DEF Inv, Sound
<1>3. (generations[p][i] + 1) % GenModulus = generations[p][i] + 1
  <2> DEFINE g == generations[p][i] + 1
  <2>1. g \in Nat /\ g < GenModulus
    BY <1>1, GenType, PoolAssumption
  <2> HIDE DEF g
  <2>2. g % GenModulus = g
    BY <2>1, PoolAssumption
  <2> QED  BY <2>2 DEF g
<1>4. /\ Len(table) = Len(slots[p])
      /\ \A j \in Slots(p) : table[j] = IF j = i THEN Empty ELSE slots[p][j]
  BY <1>1, <1>2 DEF Tables, Slots
<1>5. \A j \in Slots(p) : gens[j] = IF j = i THEN generations[p][i] + 1 ELSE generations[p][j]
  BY <1>1, <1>2, <1>3 DEF Gens, Slots
<1> HIDE DEF table, gens, i
<1>6. /\ slots'[p] = table /\ generations'[p] = gens
      /\ \A q \in Pools \ {p} : slots'[q] = slots[q] /\ generations'[q] = generations[q]
  BY <1>1 DEF Inv, KnobsOK
<1>7. \A q \in Pools : Slots(q)' = Slots(q)
  BY <1>4, <1>6 DEF Slots
<1>8. Freed(p, i)
  BY <1>1, <1>4, <1>5, <1>6, <1>7 DEF Freed
<1> QED  BY <1>8 DEF i

\* A release of a handle in use.
LEMMA FreedMaps ==
    ASSUME Inv, NoSlots, ~Strays, NEW p \in Pools, NEW h \in Known(p), ReleaseSlot(p, h)
    PROVE  Abstract!Release(h)
<1> DEFINE i == h[2]
<1>1. Freed(p, i) /\ ret' = Void
  BY ReleaseFrees DEF ReleaseSlot
<1>2. InUse(h) /\ h = <<p, i, h[3]>> /\ h[3] = generations[p][i] /\ i \in Slots(p)
  BY KnownHandle DEF ReleaseSlot, Fresh
<1>3. generations[p][i] \in Nat
  BY <1>2, GenType
<1> HIDE DEF i
<1>4. ASSUME NEW k PROVE InUse(k)' <=> InUse(k) /\ k # h
  <2>1. CASE k[1] = p
    <3>1. CASE k[2] = i
      BY <1>1, <1>2, <2>1, <3>1 DEF InUse, Freed
    <3>2. CASE k[2] # i
      BY <1>1, <1>2, <2>1, <3>2 DEF InUse, Freed
    <3> QED  BY <3>1, <3>2
  <2>2. CASE k[1] # p
    BY <1>1, <1>2, <2>2 DEF InUse, Freed
  <2> QED  BY <2>1, <2>2
<1>5. ASSUME NEW k PROVE GivenOut(k)' <=> GivenOut(k) \/ k = h
  <2>1. CASE k[1] = p
    <3>1. CASE k[2] = i
      <4> DEFINE g == generations[p][i]
                 m == g + 1
      <4>1. generations'[p][i] = m /\ i \in Slots(p)'
        BY <1>1, <1>2 DEF Freed
      <4>2. GivenOut(k) <=> k[3] \in 0..(g - 1) /\ k = <<p, i, k[3]>>
        BY <1>2, <2>1, <3>1 DEF GivenOut
      <4>3. k = h <=> k[3] = g /\ k = <<p, i, k[3]>>
        BY <1>2
      <4>4. \A x : x \in 0..(m - 1) <=> x \in 0..(g - 1) \/ x = g
        BY <1>3
      <4> HIDE DEF g, m
      <4>5. GivenOut(k)' <=> k[3] \in 0..(m - 1) /\ k = <<p, i, k[3]>>
        BY <4>1, <2>1, <3>1 DEF GivenOut
      <4> QED  BY <4>2, <4>3, <4>4, <4>5
    <3>2. CASE k[2] # i
      BY <1>1, <1>2, <2>1, <3>2 DEF GivenOut, Freed
    <3> QED  BY <3>1, <3>2
  <2>2. CASE k[1] # p
    BY <1>1, <1>2, <2>2 DEF GivenOut, Freed
  <2> QED  BY <2>1, <2>2
<1>6. AllIssued' = AllIssued /\ AllLive' = AllLive \ {h}
  <2>1. \A k : k \in AllLive' <=> k \in AllLive /\ k # h
    BY <1>4, Members, MembersNext
  <2>2. \A k : k \in AllIssued' <=> k \in AllIssued
    BY <1>2, <1>4, <1>5, Members, MembersNext
  <2> QED  BY <2>1, <2>2
<1>7. ASSUME NEW k \in AllLive, k # h PROVE slots'[k[1]][k[2]] = slots[k[1]][k[2]]
  <2>1. InUse(k)
    BY Members
  <2>2. CASE k[1] = p /\ k[2] = i
    BY <2>1, <2>2, <1>2, <1>7 DEF InUse
  <2>3. CASE k[1] = p /\ k[2] # i
    BY <2>1, <2>3, <1>1 DEF InUse, Freed
  <2>4. CASE k[1] # p
    BY <2>1, <2>4, <1>1 DEF InUse, Freed
  <2> QED  BY <2>2, <2>3, <2>4
<1>8. Store' = [k \in DOMAIN Store \ {h} |-> Store[k]]
  BY <1>6, <1>7, StoreIs
<1> QED  BY <1>1, <1>6, <1>8 DEF Abstract!Release, AllIssued

\* A release of a handle no longer in use, and a read.
LEMMA StaleMaps ==
    ASSUME Inv, NoSlots, ~Strays, NEW p \in Pools, NEW h \in Known(p), ReleaseNothing(p, h)
    PROVE  Abstract!Release(h)
<1>1. ret' = Void /\ UNCHANGED <<slots, generations>> /\ ~InUse(h)
  BY KnownHandle DEF ReleaseNothing, tables
<1>2. h \notin DOMAIN Store
  BY <1>1, Members, StoreIs
<1>3. Store = [k \in DOMAIN Store \ {h} |-> Store[k]]
  BY <1>2, StoreIs
<1>4. Store' = Store /\ AllIssued' = AllIssued
  BY <1>1, SameHandles
<1> QED  BY <1>1, <1>3, <1>4 DEF Abstract!Release, AllIssued

LEMMA GetMaps ==
    ASSUME Inv, NoSlots, ~Strays, NEW p \in Pools, NEW h \in Known(p), Get(p, h)
    PROVE  Abstract!Get(h)
<1>1. UNCHANGED <<slots, generations>> /\ ret' = IF Fresh(p, h) THEN Content(p, h[2]) ELSE Null
  BY KnownHandle DEF Get, tables
<1>2. Store' = Store /\ AllIssued' = AllIssued
  BY <1>1, SameHandles
<1>3. h[1] = p /\ h \in AllIssued
  BY KnownHandle
<1>4. CASE InUse(h)
  <2>1. h \in DOMAIN Store /\ Store[h] = slots[p][h[2]]
    BY <1>3, <1>4, Members, StoreIs
  <2>2. ret' = slots[p][h[2]]
    BY <1>1, <1>4, KnownHandle DEF Content
  <2> QED  BY <1>2, <2>1, <2>2 DEF Abstract!Get, AllIssued
<1>5. CASE ~InUse(h)
  <2>1. h \notin DOMAIN Store
    BY <1>5, Members, StoreIs
  <2>2. ret' = Null
    <3>1. GivenOut(h)
      BY <1>3, <1>5, Members
    <3> QED  BY <1>1, <3>1, KnownHandle
  <2> QED  BY <1>2, <2>1, <2>2 DEF Abstract!Get, AllIssued
<1> QED  BY <1>4, <1>5

\* A loop over a pool visits the handles in use.
LEMMA IterateMaps ==
    ASSUME Inv, NEW p \in Pools, Iterate(p)
    PROVE  Abstract!Iterate(p)
<1> DEFINE live == {h \in DOMAIN Store : Abstract!PoolOf(h) = p}
           occupied == Occupied(p)
           n == Cardinality(occupied)
           handle == [i \in occupied |-> <<p, i, generations[p][i]>>]
<1>1. DOMAIN Store = AllLive
  BY StoreIs
<1>2. \A h : h \in live <=> \E i \in occupied : h = handle[i]
  <2>1. \A h : h \in live <=> InUse(h) /\ h[1] = p
    BY <1>1, Members DEF Abstract!PoolOf
  <2>2. \A h : InUse(h) /\ h[1] = p <=> \E i \in occupied : h = <<p, i, generations[p][i]>>
    BY DEF InUse, Occupied
  <2> QED  BY <2>1, <2>2
<1>3. handle \in Bijection(occupied, live)
  <2>1. handle \in [occupied -> live]
    BY <1>2
  <2>2. \A i, j \in occupied : handle[i] = handle[j] => i = j
    OBVIOUS
  <2> HIDE DEF handle, live, occupied
  <2> QED  BY <1>2, <2>1, <2>2 DEF Bijection, Injection, Surjection, IsInjective
<1>4. IsFiniteSet(occupied)
  <2>1. Len(slots[p]) \in Nat
    BY DEF Inv, Sound, Tables
  <2>2. IsFiniteSet(1..Len(slots[p]))
    BY <2>1, FS_Interval
  <2>3. occupied \subseteq 1..Len(slots[p])
    BY DEF Occupied, Slots
  <2> HIDE DEF occupied
  <2> QED  BY <2>2, <2>3, FS_Subset
<1>5. Cardinality(live) = n
  <2> HIDE DEF handle, live, occupied
  <2>1. ExistsBijection(occupied, live)
    BY <1>3 DEF ExistsBijection
  <2> QED  BY <1>4, <2>1, FS_Bijection
<1>6. PICK at \in InIndexOrder(occupied) : ret' = [k \in 1..n |-> slots[p][at[k]]]
  BY DEF Iterate
<1>7. at \in Bijection(1..n, occupied)
  BY <1>6 DEF InIndexOrder
<1> DEFINE order == [k \in 1..n |-> handle[at[k]]]
<1>8. order \in Bijection(1..n, live)
  <2> HIDE DEF handle, live, occupied, n
  <2>1. at \in [1..n -> occupied] /\ handle \in [occupied -> live]
    BY <1>3, <1>7 DEF Bijection, Injection
  <2>2. order \in [1..n -> live]
    BY <2>1
  <2>3. \A k, l \in 1..n : order[k] = order[l] => k = l
    BY <1>3, <1>7, <2>1 DEF Bijection, Injection, IsInjective
  <2>4. \A h \in live : \E k \in 1..n : order[k] = h
    BY <1>3, <1>7, <2>1 DEF Bijection, Surjection
  <2> HIDE DEF order
  <2> QED  BY <2>2, <2>3, <2>4 DEF Bijection, Injection, Surjection, IsInjective
<1>9. ret' = [k \in DOMAIN order |-> Store[order[k]]]
  <2>1. at \in [1..n -> occupied]
    BY <1>7 DEF Bijection, Injection
  <2>2. ASSUME NEW k \in 1..n PROVE Store[order[k]] = slots[p][at[k]]
    <3>1. order[k] = <<p, at[k], generations[p][at[k]]>> /\ order[k] \in AllLive
      BY <2>1, <1>1, <1>2
    <3> HIDE DEF order
    <3> QED  BY <3>1, StoreIs
  <2>3. DOMAIN order = 1..n
    OBVIOUS
  <2> HIDE DEF order, n, occupied
  <2> QED  BY <2>2, <2>3, <1>6
<1>10. Store' = Store /\ AllIssued' = AllIssued
  BY SameHandles DEF Iterate, tables
<1>11. order \in Abstract!Bijection(1..n, live)
  BY <1>8 DEF Abstract!Bijection, Bijection, Abstract!Injection, Injection,
              Abstract!Surjection, Surjection, Abstract!IsInjective, IsInjective
<1>12. Abstract!Cardinality(live) = n
  BY <1>5 DEF Abstract!Cardinality, Cardinality
<1> HIDE DEF order, n
<1> QED  BY <1>9, <1>10, <1>11, <1>12 DEF Abstract!Iterate, AllIssued

-----------------------------------------------------------------------------
(* Pools without slots.                                                     *)

LEMMA NoSlotsKept ==
    ASSUME Inv, NoSlots, [Next]_vars
    PROVE  NoSlots'
<1> SUFFICES ASSUME NEW q \in Pools, block_size'[q] = 0 PROVE Slots(q)' = {}
  BY DEF NoSlots
<1>0. block_size' = block_size
  BY DEF Next, Acquire, Release, Get, Iterate, Growable, Fifo, vars
<1>1. Slots(q) = {} /\ block_size[q] = 0
  BY <1>0 DEF NoSlots
<1>2. ASSUME slots'[q] = slots[q] PROVE Slots(q)' = {}
  BY <1>1, <1>2 DEF Slots
<1>3. ASSUME NEW p \in Pools, NEW v \in Values, Acquire(p, v) PROVE Slots(q)' = {}
  <2>1. CASE AcquireFree(p, v) \/ AcquireGrown(p, v)
    <3>1. PICK i : Stored(p, i, v)
      BY <2>1, AcquireStores
    <3>2. Slots(p) # {} \/ block_size[p] # 0
      BY <3>1 DEF Stored
    <3>3. q # p
      BY <1>1, <3>2
    <3> QED  BY <1>2, <3>1, <3>3 DEF Stored
  <2>2. CASE AcquireNone(p)
    BY <1>2, <2>2 DEF AcquireNone, tables
  <2> QED  BY <1>3, <2>1, <2>2 DEF Acquire
<1>4. ASSUME NEW p \in Pools, NEW h, Release(p, h) PROVE Slots(q)' = {}
  <2>1. CASE ReleaseSlot(p, h)
    BY <1>1, <2>1, ReleaseFrees DEF Freed
  <2>2. CASE ReleaseNothing(p, h)
    BY <1>2, <2>2 DEF ReleaseNothing, tables
  <2> QED  BY <1>4, <2>1, <2>2 DEF Release
<1>5. ASSUME NEW p \in Pools, NEW h, Get(p, h) \/ Iterate(p) \/ Growable(p) \/ Fifo(p)
      PROVE  Slots(q)' = {}
  BY <1>2, <1>5 DEF Get, Iterate, Growable, Fifo, tables
<1>6. CASE UNCHANGED vars
  BY <1>2, <1>6 DEF vars
<1> QED  BY <1>3, <1>4, <1>5, <1>6 DEF Next

LEMMA NoSlotsFirst == Init => NoSlots
<1> SUFFICES ASSUME Init, NEW p \in Pools, block_size[p] = 0 PROVE Slots(p) = {}
  BY DEF NoSlots
<1>1. slots[p] = [k \in 1..0 |-> Empty]
  BY DEF Init, Block
<1>2. Len(slots[p]) = 0
  BY <1>1
<1> QED  BY <1>2 DEF Slots

LEMMA StepMaps ==
    ASSUME Inv, NoSlots, ~Strays, [Next]_vars
    PROVE  [Abstract!Next]_<<AllIssued, Store, ret>>
<1>1. ASSUME NEW p \in Pools, NEW v \in Values, Acquire(p, v) PROVE Abstract!Next
  <2>1. CASE AcquireFree(p, v) \/ AcquireGrown(p, v)
    <3>1. Abstract!Acquire(p, v)
      BY <2>1, AcquireStores, StoredMaps
    <3> QED  BY <3>1 DEF Abstract!Next
  <2>2. CASE AcquireNone(p)
    <3>1. ret' = Null /\ Store' = Store /\ AllIssued' = AllIssued
      BY <2>2, SameHandles DEF AcquireNone, tables
    <3> QED  BY <3>1 DEF Abstract!Next, Abstract!Exhausted, AllIssued
  <2> QED  BY <1>1, <2>1, <2>2 DEF Acquire
<1>2. ASSUME NEW p \in Pools, NEW h \in Known(p), Release(p, h) \/ Get(p, h) PROVE Abstract!Next
  <2>1. h \in AllIssued
    BY KnownHandle
  <2>2. Abstract!Release(h) \/ Abstract!Get(h)
    BY <1>2, FreedMaps, StaleMaps, GetMaps DEF Release
  <2> QED  BY <2>1, <2>2 DEF Abstract!Next, AllIssued
<1>3. ASSUME NEW p \in Pools, Iterate(p) PROVE Abstract!Next
  BY <1>3, IterateMaps DEF Abstract!Next
<1>4. ASSUME NEW p \in Pools, Growable(p) \/ Fifo(p) PROVE Abstract!Next
  <2>1. ret' = Void /\ Store' = Store /\ AllIssued' = AllIssued
    BY <1>4, SameHandles DEF Growable, Fifo, tables
  <2> QED  BY <2>1 DEF Abstract!Next, Abstract!Configure, AllIssued
<1>5. CASE UNCHANGED vars
  BY <1>5, SameHandles DEF vars
<1> QED  BY <1>1, <1>2, <1>3, <1>4, <1>5 DEF Next

-----------------------------------------------------------------------------
(* The theorems.                                                            *)

LEMMA AlwaysSound == Spec => []Inv
<1>1. Inv /\ [Next]_vars => Inv'
  BY StepSound
<1> QED  BY <1>1, InitSound, PTL DEF Spec

\* The tables of a pool keep their types and stay of one length (PoolData:
\* "always the same length").
THEOREM PoolTypeCorrect == Spec => []TypeOK
BY AlwaysSound, InvIsTyped, PTL

\* No slot is lost and none is listed twice, in pools of any size and number,
\* even when the program mixes up their handles.
THEOREM NoSlotLostOrShared == Spec => []FreeListExact
BY AlwaysSound, InvIsTyped, PTL

\* A program that keeps its handles with their pools releases a value only
\* through the handle it was acquired under.
THEOREM ReleasedByOwnHandle ==
    ASSUME ~Strays
    PROVE  Spec => OnlyOwnHandleReleases
<1>1. Inv /\ [Next]_vars => [ByOwnHandle]_vars
  BY StepSound
<1>2. Spec => [][ByOwnHandle]_vars
  BY <1>1, AlwaysSound, PTL DEF Spec
<1> QED  BY <1>2 DEF OnlyOwnHandleReleases, ByOwnHandle

\* acquire returns null only from a pool whose slots are all taken, and that was
\* not told to grow or grows by blocks of no slots.
THEOREM FailsWhenFull == Spec => []FailsOnlyWhenFull
<1>1. Init => FailsOnlyWhenFull
  BY DEF Init, FailsOnlyWhenFull
<1>2. Inv /\ FailsOnlyWhenFull /\ [Next]_vars => FailsOnlyWhenFull'
  BY StepFails
<1> QED  BY <1>1, <1>2, AlwaysSound, PTL DEF Spec

\* A program that keeps its handles with their pools sees a store: no handle is
\* given out twice, each reads the value it was acquired for until it is
\* released and null from then on, and a loop over a pool visits every value
\* once (Value::Handle, PoolData and the pool methods).
THEOREM PoolIsAStore ==
    ASSUME ~Strays
    PROVE  Spec => ImplementsPoolStore
<1>1. Init => Abstract!Init
  BY InitMaps
<1>2. Inv /\ NoSlots /\ [Next]_vars => NoSlots'
  BY NoSlotsKept
<1>3. Inv /\ NoSlots /\ [Next]_vars
         => [Abstract!Next]_<<UNION {Issued(p) : p \in Pools}, Store, ret>>
  BY StepMaps DEF AllIssued
<1> QED  BY <1>1, <1>2, <1>3, NoSlotsFirst, AlwaysSound, PTL DEF Spec, ImplementsPoolStore, Abstract!Spec

=============================================================================
