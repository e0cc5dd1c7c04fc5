-------------------------- MODULE GcHeapSafetyProofs --------------------------
(***************************************************************************)
(* The collector of GcHeap never frees what the program can still reach,   *)
(* as HeapInv is inductive; and it implements the object store: each step  *)
(* of it is a step of ObjectStore or changes nothing there.  Both for      *)
(* every size of heap, every table of size classes and every program.      *)
(***************************************************************************)
EXTENDS GcRefinement, GcHeapProofs

Colours == MarksOnObjects /\ TriColour
Memory  == UnusedIsZero /\ NoScanHasNoPointers /\ Closed

LEMMA HeapInvParts == HeapInv <=> StructInv /\ Colours /\ Memory
BY DEF HeapInv, StructInv, TypeInv, Colours, Memory

-----------------------------------------------------------------------------
(* Addresses and objects *)

\* mark_ptr finds nothing but allocated objects.
LEMMA TargetIsObject ==
  ASSUME StructInv, NEW p \in Values
  PROVE  TargetOf(p) \subseteq Objects
<1>1. CASE p = Null \/ p[1] >= next_fresh \/ span_state[p[1]] = "free"
  BY <1>1 DEF TargetOf
<1>2. CASE ~(p = Null \/ p[1] >= next_fresh \/ span_state[p[1]] = "free")
  <2> DEFINE i == p[1]
             h == HeadOf(p[1])
  <2>1. i \in Spans /\ p[2] \in Offsets /\ p \in Words
    BY <1>2 DEF Values, Words
  <2>2. CASE span_state[i] = "small"
    <3>1. TargetOf(p) \subseteq {<<i, k>> : k \in alloc_bits[i]}
      BY <1>2, <2>2 DEF TargetOf, SmallTarget
    <3>2. alloc_bits[i] \subseteq Offsets
      BY <2>1 DEF StructInv, TypeInv, TypeOK
    <3> QED
      BY <2>1, <2>2, <3>1, <3>2 DEF Objects, SmallObjects, Words
  <2>3. CASE span_state[i] # "small"
    <3>1. TargetOf(p) \subseteq {<<h, 0>>}
      BY <1>2, <2>3 DEF TargetOf, LargeTarget
    <3>2. h \in Spans /\ span_state[h] = "large"
      BY <1>2, <2>1, <2>3 DEF HeadOf, StructInv, TypeInv, TypeOK, Structure, RunsWellFormed
    <3> QED
      BY <3>1, <3>2, SpanType DEF Objects, LargeObjects, Words
  <2> QED
    BY <2>2, <2>3
<1> QED
  BY <1>1, <1>2

LEMMA TargetsAreObjects ==
  ASSUME StructInv, NEW V \in SUBSET Values
  PROVE  Targets(V) \subseteq Objects
BY TargetIsObject DEF Targets

\* ... and finds each object from every word of it, interior pointers included.
LEMMA TargetOfWord ==
  ASSUME StructInv, NEW o \in Objects, NEW w \in WordsOf(o)
  PROVE  w \in Words /\ TargetOf(w) = {o}
<1>1. o \in Words /\ o = <<o[1], o[2]>> /\ o[1] \in Spans
  BY DEF Objects, SmallObjects, LargeObjects, Words
<1>2. o[1] < next_fresh /\ ~(o[1] >= next_fresh) /\ next_fresh \in Nat /\ o[1] \in Nat
  <2>1. span_state[o[1]] # "free"
    BY DEF Objects, SmallObjects, LargeObjects
  <2>2. o[1] < next_fresh
    BY <1>1, <2>1 DEF StructInv, Structure, TableInRange
  <2>3. next_fresh \in Nat /\ o[1] \in Nat
    BY <1>1, SpanType DEF StructInv, TypeInv, TypeOK, Spans
  <2> QED
    BY <2>2, <2>3
<1>3. CASE o \in SmallObjects
  <2>1. span_state[o[1]] = "small" /\ o[2] \in alloc_bits[o[1]]
    BY <1>3 DEF SmallObjects
  <2>2. PICK j \in Offsets : w = <<o[1], j>> /\ j \div Elem[cls[o[1]]] = o[2]
    BY <2>1 DEF WordsOf, SlotWords
  <2>3. o[2] < NElems(o[1])
    <3>1. NElems(o[1]) \in 0 .. SpanWords
      BY <1>1, NElemsType DEF NElems, StructInv, TypeInv, TypeOK
    <3>2. o[2] \in 0 .. NElems(o[1]) - 1
      BY <1>1, <2>1 DEF StructInv, Structure, TableInRange
    <3> QED
      BY <3>1, <3>2
  <2>4. w \in Words /\ w # Null /\ w[1] = o[1] /\ w[2] = j
    BY <1>1, <2>2, HeapAssumption DEF Words
  <2> QED
    BY <1>1, <1>2, <2>1, <2>2, <2>3, <2>4 DEF TargetOf, SmallTarget
<1>4. CASE o \in LargeObjects
  <2>1. span_state[o[1]] = "large" /\ o[2] = 0
    BY <1>4 DEF LargeObjects
  <2>2. /\ w \in Words /\ w[1] \in o[1] .. o[1] + run_len[o[1]] - 1
        /\ (w[1] - o[1]) * SpanWords + w[2] < obj_words[o[1]]
    BY <2>1 DEF WordsOf, RunWords
  <2>3. w # Null
    BY <2>2, HeapAssumption
  <2>4. /\ w[1] \in Spans /\ w[1] < next_fresh
        /\ w[1] = o[1] \/ (span_state[w[1]] = "cont" /\ head_idx[w[1]] = o[1])
    BY <1>1, <2>1, <2>2, RunInHeap DEF StructInv, TypeInv, Structure
  <2>5. HeadOf(w[1]) = o[1] /\ span_state[w[1]] \in {"large", "cont"}
    BY <2>1, <2>4 DEF HeadOf
  <2>6. ~(w[1] >= next_fresh)
    BY <1>2, <2>4, SpanType DEF Spans
  <2>7. LargeTarget(w[1], w[2]) = {<<o[1], 0>>}
    BY <2>2, <2>5 DEF LargeTarget
  <2> QED
    BY <1>1, <2>1, <2>2, <2>3, <2>5, <2>6, <2>7 DEF TargetOf
<1> QED
  BY <1>3, <1>4 DEF Objects

\* No object has a word of a span never handed out, or of an unused slot.
LEMMA UnusedHasNoTarget ==
  ASSUME NEW w \in Words,
         \/ w[1] >= next_fresh
         \/ /\ span_state[w[1]] = "small"
            /\ w[2] \div Elem[cls[w[1]]] \notin alloc_bits[w[1]]
  PROVE  TargetOf(w) = {}
BY DEF TargetOf, SmallTarget

LEMMA InSlot ==
  ASSUME NEW i, NEW j \in Offsets
  PROVE  <<i, j>> \in SlotWords(i, j \div Elem[cls[i]])
BY DEF SlotWords

\* The other direction: the object mark_ptr finds holds the word.
LEMMA WordOfTarget ==
  ASSUME StructInv, NEW p \in Values, NEW o \in TargetOf(p)
  PROVE  p \in WordsOf(o)
<1> DEFINE i == p[1]
           h == HeadOf(p[1])
<1>1. /\ p # Null /\ p \in Words /\ p = <<i, p[2]>> /\ i \in Spans /\ p[2] \in Offsets
      /\ span_state[i] # "free" /\ ~(i >= next_fresh)
  BY DEF TargetOf, Values, Words
<1>2. CASE span_state[i] = "small"
  <2>1. o = <<i, p[2] \div Elem[cls[i]]>>
    BY <1>1, <1>2 DEF TargetOf, SmallTarget
  <2>2. WordsOf(o) = SlotWords(i, p[2] \div Elem[cls[i]])
    BY <1>2, <2>1 DEF WordsOf
  <2>3. <<i, p[2]>> \in SlotWords(i, p[2] \div Elem[cls[i]])
    <3>1. p[2] \in Offsets
      BY <1>1
    <3> QED
      BY <3>1, InSlot, Zenon
  <2> QED
    BY <1>1, <2>2, <2>3
<1>3. CASE span_state[i] # "small"
  <2>1. o = <<h, 0>> /\ (i - h) * SpanWords + p[2] < obj_words[h]
    BY <1>1, <1>3 DEF TargetOf, LargeTarget
  <2>2. h \in Spans /\ span_state[h] = "large" /\ i \in h .. h + run_len[h] - 1
    <3>1. TypeOK /\ RunsWellFormed
      BY DEF StructInv, TypeInv, Structure
    <3>2. CASE span_state[i] = "cont"
      <4>1. h = head_idx[i]
        BY <3>2 DEF HeadOf
      <4>2. h \in Spans
        BY <1>1, <3>1, <4>1 DEF TypeOK
      <4>3. span_state[h] = "large" /\ i \in h + 1 .. h + run_len[h] - 1
        BY <1>1, <3>1, <3>2, <4>1 DEF RunsWellFormed
      <4>4. h \in Int
        BY <4>2 DEF Spans
      <4> HIDE DEF h
      <4> QED
        BY <4>2, <4>3, <4>4
    <3>3. CASE span_state[i] # "cont"
      <4>1. h = i /\ span_state[i] = "large"
        BY <1>1, <1>3, <3>1, <3>3 DEF HeadOf, TypeOK
      <4>2. run_len[i] \in Nat \ {0} /\ i \in Nat
        BY <1>1, <3>1, <4>1, RunInHeap DEF Spans
      <4> QED
        BY <1>1, <4>1, <4>2
    <3> QED
      BY <3>2, <3>3
  <2> HIDE DEF i, h
  <2> QED
    BY <1>1, <2>1, <2>2 DEF WordsOf, RunWords, i
<1> QED
  BY <1>2, <1>3

\* So mark_ptr computes, from the span table alone, which object a word is in.
TargetIsOwner == \A p \in Values : TargetOf(p) = {o \in Objects : p \in WordsOf(o)}
WordsApart    == \A o, x \in Objects : \A w \in WordsOf(o) : w \in WordsOf(x) => o = x

LEMMA Owners == StructInv => TargetIsOwner /\ WordsApart
BY TargetIsObject, WordOfTarget, TargetOfWord DEF TargetIsOwner, WordsApart

LEMMA OwnersNext ==
  ASSUME StructInv'
  PROVE  TargetIsOwner' /\ WordsApart'
<1>1. (StructInv => TargetIsOwner /\ WordsApart)'
  BY Owners, PTL
<1> QED
  BY <1>1

\* An object that is there before and after a step keeps its pointers.
LEMMA TargetsKept ==
  ASSUME StructInv, StructInv', NEW p \in Values,
         \A o \in Objects \cap Objects' : WordsOf(o)' = WordsOf(o)
  PROVE  TargetOf(p) \cap Objects' = TargetOf(p)' \cap Objects
<1>1. TargetOf(p)' = {o \in Objects' : p \in WordsOf(o)'}
  BY OwnersNext DEF TargetIsOwner, Values
<1>2. TargetOf(p) = {o \in Objects : p \in WordsOf(o)}
  BY Owners DEF TargetIsOwner
<1> QED
  BY <1>1, <1>2

-----------------------------------------------------------------------------
(* The program *)

LEMMA SameTargets ==
  ASSUME UNCHANGED <<span_state, cls, head_idx, obj_words, run_len, alloc_bits, next_fresh>>
  PROVE  /\ Objects' = Objects
         /\ \A p : TargetOf(p)' = TargetOf(p)
         /\ \A o : WordsOf(o)' = WordsOf(o)
BY DEF Objects, SmallObjects, LargeObjects, TargetOf, SmallTarget, LargeTarget, HeadOf, NElems,
       WordsOf, RunWords, SlotWords

\* No variable, and no pointer word of an object, dangles.
StackKept == \A r \in PtrVars : ~Dangling(stack[r])
HeapKept  == \A o \in Objects : \A w \in PtrWords(o) : ~Dangling(mem[w])

LEMMA WordsHeldType ==
  ASSUME StructInv, NEW o \in Objects
  PROVE  /\ o \in Words /\ PtrWords(o) \subseteq WordsOf(o) /\ PtrWords(o) \subseteq Words
         /\ \A w \in PtrWords(o) : mem[w] \in Values
<1>1. o \in Words
  BY DEF Objects, SmallObjects, LargeObjects
<1>2. PtrWords(o) \subseteq WordsOf(o)
  BY DEF PtrWords
<1> QED
  BY <1>1, <1>2, WordsOfAreWords DEF StructInv, TypeInv, TypeOK

\* While no sweep is under way everything allocated survives, and Closed says
\* no more than that nothing dangles.
LEMMA ClosedOutsideSweep ==
  StructInv /\ pc # "sweep" => (Closed <=> StackKept /\ HeapKept)
<1> SUFFICES ASSUME StructInv, pc # "sweep" PROVE Closed <=> StackKept /\ HeapKept
  OBVIOUS
<1>1. Survivors = Objects
  BY DEF Survivors
<1>2. Targets(StackVals) \subseteq Objects
  <2>1. StackVals \subseteq Values
    BY DEF StackVals, StructInv, TypeInv, TypeOK
  <2> QED
    BY <2>1, TargetsAreObjects
<1>3. \A o \in Objects : \A w \in PtrWords(o) : TargetOf(mem[w]) \subseteq Objects
  BY WordsHeldType, TargetIsObject
<1> QED
  BY <1>1, <1>2, <1>3 DEF Closed, StackKept, HeapKept

LEMMA ClosedNext ==
  ASSUME StructInv', pc' # "sweep", StackKept', HeapKept'
  PROVE  Closed'
<1>1. (StructInv /\ pc # "sweep" => (Closed <=> StackKept /\ HeapKept))'
  BY ClosedOutsideSweep, PTL
<1> QED
  BY <1>1

LEMMA SameMemory ==
  ASSUME UNCHANGED <<tableVars, next_fresh>>
  PROVE  /\ UNCHANGED <<span_state, cls, needzero, noscan, run_len, head_idx, obj_words, alloc_bits>>
         /\ Objects' = Objects
         /\ \A p : TargetOf(p)' = TargetOf(p)
         /\ \A o : WordsOf(o)' = WordsOf(o)
         /\ \A h : RunWords(h)' = RunWords(h)
<1>1. UNCHANGED <<span_state, cls, needzero, noscan, run_len, head_idx, obj_words, alloc_bits>>
  BY DEF tableVars
<1> QED
  BY <1>1, SameTargets DEF RunWords

\* The heap as it was, and variables that still refer to objects.
LEMMA MemoryQuiet ==
  ASSUME StructInv, StructInv', Memory, pc # "sweep", pc' # "sweep",
         UNCHANGED <<tableVars, next_fresh, mem, ptr_bits>>,
         \A r \in PtrVars : stack'[r] = stack[r] \/ ~Dangling(stack'[r])
  PROVE  Memory'
<1>1. StackKept /\ HeapKept
  BY ClosedOutsideSweep DEF Memory
<1>2. StackKept' /\ HeapKept'
  BY <1>1, SameMemory DEF StackKept, HeapKept, Dangling, PtrWords
<1>3. Closed'
  BY <1>2, ClosedNext
<1>4. UnusedIsZero' /\ NoScanHasNoPointers'
  BY SameMemory DEF Memory, UnusedIsZero, NoScanHasNoPointers
<1> QED
  BY <1>3, <1>4 DEF Memory

LEMMA HeldAreObjects ==
  ASSUME StructInv
  PROVE  Held \subseteq Objects
<1>1. {stack[r] : r \in PtrVars} \subseteq Values
  BY DEF StructInv, TypeInv, TypeOK
<1> QED
  BY <1>1, TargetsAreObjects DEF Held

\* The pointer words of the objects the program holds are words the collector
\* reads too: it scans every object that has any.
LEMMA HeldWordsScanned ==
  ASSUME StructInv, NoScanHasNoPointers, NEW w \in HeldPtrWords
  PROVE  \E o \in Objects : w \in PtrWords(o)
<1>1. PICK o \in Held : w \in WordsOf(o) \cap ptr_bits
  BY DEF HeldPtrWords
<1>2. o \in Objects
  BY <1>1, HeldAreObjects
<1>3. ~(span_state[o[1]] = "large" /\ o[1] \in noscan)
  BY <1>1 DEF NoScanHasNoPointers, WordsOf
<1> QED
  BY <1>1, <1>2, <1>3 DEF PtrWords

\* Writing a word of an object leaves unused memory zero.
LEMMA UnusedKeptByWrite ==
  ASSUME StructInv, UnusedIsZero, UNCHANGED <<tableVars, next_fresh>>,
         NEW o \in Objects, NEW u \in WordsOf(o), NEW v, mem' = [mem EXCEPT ![u] = v]
  PROVE  UnusedIsZero'
<1>1. u \in Words /\ TargetOf(u) # {}
  BY TargetOfWord
<1>2. mem \in [Words -> Values]
  BY DEF StructInv, TypeInv, TypeOK
<1>3. ASSUME NEW w \in Words,
             \/ w[1] >= next_fresh
             \/ /\ span_state[w[1]] = "small" /\ w[1] \notin needzero
                /\ w[2] \div Elem[cls[w[1]]] \notin alloc_bits[w[1]]
      PROVE  mem'[w] = Null
  <2>1. w # u
    BY <1>1, <1>3, UnusedHasNoTarget
  <2>2. mem[w] = Null
    BY <1>3 DEF UnusedIsZero
  <2> QED
    BY <1>2, <2>1, <2>2
<1> QED
  BY <1>3, SameMemory DEF UnusedIsZero

\* What the program does between two calls of the runtime.
LEMMA MemoryProgramData ==
  ASSUME StructInv, StructInv', Memory,
         \/ \E r \in PtrVars : Drop(r) \/ PointInto(r) \/ Load(r) \/ Store(stack[r])
         \/ Store(Null)
         \/ \E n \in IntVals : StoreInt(n) \/ \E r \in IntVars : SetInt(r, n)
  PROVE  Memory'
<1>1. /\ UNCHANGED <<tableVars, next_fresh, ptr_bits>>
      /\ pc # "sweep" /\ pc' # "sweep"
  BY DEF Drop, PointInto, Load, Store, StoreInt, SetInt, heapUnchanged, allocVars
<1>2. stack \in [PtrVars \cup IntVars -> Values] /\ mem \in [Words -> Values]
  BY DEF StructInv, TypeInv, TypeOK
<1>3. StackKept /\ HeapKept /\ UnusedIsZero /\ NoScanHasNoPointers
  BY <1>1, ClosedOutsideSweep DEF Memory
<1>4. CASE \E r \in PtrVars : Drop(r)
  BY <1>1, <1>2, <1>4, MemoryQuiet DEF Drop, Dangling
<1>5. CASE \E r \in PtrVars : PointInto(r)
  <2>1. PICK r \in PtrVars, o \in Held :
          \E w \in WordsOf(o) : stack' = [stack EXCEPT ![r] = w] /\ mem' = mem
    BY <1>5 DEF PointInto
  <2>2. \A w \in WordsOf(o) : ~Dangling(w)
    BY HeldAreObjects, TargetOfWord DEF Dangling
  <2> QED
    BY <1>1, <1>2, <2>1, <2>2, MemoryQuiet
<1>6. CASE \E r \in PtrVars : Load(r)
  <2>1. PICK r \in PtrVars, w \in HeldPtrWords :
          stack' = [stack EXCEPT ![r] = mem[w]] /\ mem' = mem
    BY <1>6 DEF Load
  <2>2. ~Dangling(mem[w])
    BY <1>3, <2>1, HeldWordsScanned DEF HeapKept
  <2> QED
    BY <1>1, <1>2, <2>1, <2>2, MemoryQuiet
<1>7. CASE (\E r \in PtrVars : Store(stack[r])) \/ Store(Null)
  <2>1. PICK v \in Values, u \in HeldPtrWords :
          ~Dangling(v) /\ mem' = [mem EXCEPT ![u] = v] /\ stack' = stack
    <3>1. \A r \in PtrVars : stack[r] \in Values /\ ~Dangling(stack[r])
      BY <1>2, <1>3 DEF StackKept
    <3>2. Null \in Values /\ ~Dangling(Null)
      BY DEF Dangling, Values
    <3> QED
      BY <1>7, <3>1, <3>2 DEF Store
  <2>2. PICK x \in Objects : u \in PtrWords(x)
    BY <1>3, <2>1, HeldWordsScanned
  <2>3. UnusedIsZero'
    BY <1>1, <1>3, <2>1, <2>2, WordsHeldType, UnusedKeptByWrite
  <2>4. NoScanHasNoPointers'
    BY <1>1, <1>3, SameMemory DEF NoScanHasNoPointers
  <2>5. StackKept'
    BY <1>1, <1>3, <2>1, SameMemory DEF StackKept, Dangling
  <2>6. HeapKept'
    <3>1. \A o : PtrWords(o)' = PtrWords(o)
      BY <1>1, SameMemory DEF PtrWords
    <3>2. ASSUME NEW o \in Objects, NEW w \in PtrWords(o)
          PROVE  ~Dangling(mem'[w])
      <4>1. w \in Words /\ (mem'[w] = mem[w] \/ mem'[w] = v)
        BY <1>2, <2>1, WordsHeldType
      <4> QED
        BY <1>3, <2>1, <4>1 DEF HeapKept
    <3> QED
      BY <1>1, <3>1, <3>2, SameMemory DEF HeapKept, Dangling
  <2> QED
    BY <1>1, <2>3, <2>4, <2>5, <2>6, ClosedNext DEF Memory
<1>8. CASE \E n \in IntVals : StoreInt(n)
  <2>1. PICK n \in IntVals, x \in Held :
          \E w \in WordsOf(x) :
            w \notin ptr_bits /\ mem' = [mem EXCEPT ![w] = n] /\ stack' = stack
    BY <1>8 DEF StoreInt, HeldDataWords
  <2>2. PICK u \in WordsOf(x) : u \notin ptr_bits /\ mem' = [mem EXCEPT ![u] = n] /\ stack' = stack
    BY <2>1
  <2>3. UnusedIsZero'
    BY <1>1, <1>3, <2>2, HeldAreObjects, UnusedKeptByWrite
  <2>4. NoScanHasNoPointers'
    BY <1>1, <1>3, SameMemory DEF NoScanHasNoPointers
  <2>5. StackKept'
    BY <1>1, <1>3, <2>2, SameMemory DEF StackKept, Dangling
  <2>6. HeapKept'
    <3>1. \A o : PtrWords(o)' = PtrWords(o)
      BY <1>1, SameMemory DEF PtrWords
    <3>2. ASSUME NEW o \in Objects, NEW w \in PtrWords(o)
          PROVE  mem'[w] = mem[w]
      <4>1. w \in Words /\ w \in ptr_bits
        BY WordsHeldType DEF PtrWords
      <4> QED
        BY <1>2, <2>2, <4>1
    <3> QED
      BY <1>1, <1>3, <3>1, <3>2, SameMemory DEF HeapKept, Dangling
  <2> QED
    BY <1>1, <2>3, <2>4, <2>5, <2>6, ClosedNext DEF Memory
<1>9. CASE \E n \in IntVals, r \in IntVars : SetInt(r, n)
  <2>1. \A r \in PtrVars : stack'[r] = stack[r]
    BY <1>2, <1>9, ProgramAssumption DEF SetInt
  <2> QED
    BY <1>1, <1>9, <2>1, MemoryQuiet DEF SetInt
<1> QED
  BY <1>4, <1>5, <1>6, <1>7, <1>8, <1>9

-----------------------------------------------------------------------------
(* Marks *)

LEMMA IdleIsWhite ==
  ASSUME StructInv, MarksOnObjects, Idle
  PROVE  Marked = {} /\ grey = {}
<1>1. ASSUME NEW o \in Objects PROVE o \notin Marked
  <2>1. o[1] \in Heads
    BY DEF Objects, SmallObjects, LargeObjects, Heads, Words
  <2> QED
    BY <2>1 DEF MarksOnObjects, Marked, Idle
<1> QED
  BY <1>1 DEF MarksOnObjects, Marked, Idle

\* Steps that leave the collector idle start and end with a white heap.
LEMMA ColoursIdle ==
  ASSUME MarksOnObjects, Idle, Idle', grey' = grey,
         \A i \in Spans : span_state'[i] \in {"small", "large"} =>
           mark_bits'[i] = {} \/ (span_state'[i] = span_state[i] /\ mark_bits'[i] = mark_bits[i])
  PROVE  Colours'
<1>1. \A i \in Heads : mark_bits[i] = {}
  BY DEF MarksOnObjects, Idle
<1>2. \A i \in Heads' : mark_bits'[i] = {}
  BY <1>1 DEF Heads
<1> QED
  BY <1>2 DEF Colours, MarksOnObjects, TriColour, Idle

LEMMA NewlyMarked ==
  ASSUME StructInv, NEW V \in SUBSET Values, NEW g, GreyFrom(V, g),
         UNCHANGED <<tableVars, next_fresh>>
  PROVE  /\ Marked' = Marked \cup Targets(V)
         /\ grey' = g \cup {o \in Targets(V) \ Marked :
                             ~(span_state[o[1]] = "large" /\ o[1] \in noscan)}
<1>1. Targets(V) \subseteq Objects
  BY TargetsAreObjects
<1>2. Objects' = Objects /\ \A o \in Objects : o = <<o[1], o[2]>> /\ o[1] \in Spans /\ o[2] \in Offsets
  BY SameMemory DEF Objects, SmallObjects, LargeObjects, Words
<1>3. \A i \in Spans : mark_bits'[i] = mark_bits[i] \cup
                         {k \in Offsets : <<i, k>> \in Targets(V) \ Marked}
  BY DEF GreyFrom
<1>4. \A o \in Objects : o[2] \in mark_bits'[o[1]] <=> o \in Marked \/ o \in Targets(V)
  BY <1>2, <1>3 DEF Marked
<1> QED
  BY <1>1, <1>2, <1>4 DEF Marked, GreyFrom

LEMMA MarksGreyFrom ==
  ASSUME StructInv, NEW V \in SUBSET Values, NEW g, GreyFrom(V, g), MarksOnObjects,
         UNCHANGED <<tableVars, next_fresh>>, pc' = "mark"
  PROVE  MarksOnObjects'
<1>1. Targets(V) \subseteq Objects
  BY TargetsAreObjects
<1>2. Objects' = Objects /\ Heads' = Heads
  BY SameMemory DEF Heads
<1>3. ASSUME NEW i \in Heads, NEW k \in mark_bits'[i] PROVE <<i, k>> \in Objects
  <2>1. k \in mark_bits[i] \/ <<i, k>> \in Targets(V)
    BY <1>3 DEF GreyFrom, Heads
  <2> QED
    BY <1>1, <2>1 DEF MarksOnObjects
<1> QED
  BY <1>2, <1>3 DEF MarksOnObjects, Idle

LEMMA BlackNoScan ==
  ASSUME NEW o, span_state[o[1]] = "large" /\ o[1] \in noscan
  PROVE  Targets({mem[w] : w \in PtrWords(o)}) = {}
BY DEF PtrWords, Targets

\* Marking: what is black points at nothing white.
LEMMA ColoursMark ==
  ASSUME StructInv, NEW V \in SUBSET Values, NEW g \in SUBSET Marked, GreyFrom(V, g),
         UNCHANGED <<tableVars, next_fresh, mem, ptr_bits, stack>>, MarksOnObjects, pc' = "mark",
         Targets(StackVals) \subseteq Marked \cup Targets(V),
         \A o \in Marked \ g :
           Targets({mem[w] : w \in PtrWords(o)}) \subseteq Marked \cup Targets(V)
  PROVE  Colours'
<1>1. MarksOnObjects'
  BY MarksGreyFrom
<1>2. /\ Marked' = Marked \cup Targets(V)
      /\ grey' = g \cup {o \in Targets(V) \ Marked :
                          ~(span_state[o[1]] = "large" /\ o[1] \in noscan)}
  BY NewlyMarked
<1>3. /\ Targets(StackVals)' = Targets(StackVals)
      /\ \A o : Targets({mem[w] : w \in PtrWords(o)})' = Targets({mem[w] : w \in PtrWords(o)})
  BY SameMemory DEF Targets, StackVals, PtrWords
<1>4. \A o \in Marked' \ grey' :
         Targets({mem[w] : w \in PtrWords(o)}) \subseteq Marked \cup Targets(V)
  BY <1>2, BlackNoScan
<1> QED
  BY <1>1, <1>2, <1>3, <1>4 DEF Colours, TriColour

LEMMA ColoursBeginMark ==
  ASSUME StructInv, Colours, pc = "run", BeginMark
  PROVE  Colours'
<1>1. Marked = {} /\ grey = {}
  BY IdleIsWhite DEF Colours, Idle
<1>2. StackVals \subseteq Values
  BY DEF StackVals, StructInv, TypeInv, TypeOK
<1>3. /\ GreyFrom(StackVals, grey) /\ pc' = "mark"
      /\ UNCHANGED <<tableVars, next_fresh, mem, ptr_bits, stack>>
  BY DEF BeginMark, allocVars
<1> QED
  BY <1>1, <1>2, <1>3, ColoursMark DEF Colours

LEMMA ColoursScanObject ==
  ASSUME StructInv, Colours, NEW o \in Words, ScanObject(o)
  PROVE  Colours'
<1> DEFINE V == {mem[w] : w \in PtrWords(o)}
           g == grey \ {o}
<1>1. /\ GreyFrom(V, g) /\ pc = "mark" /\ pc' = "mark" /\ o \in grey
      /\ UNCHANGED <<tableVars, next_fresh, mem, ptr_bits, stack>>
  BY DEF ScanObject, allocVars
<1>2. grey \subseteq Marked /\ Targets(StackVals) \subseteq Marked
  BY <1>1 DEF Colours, TriColour
<1>3. V \in SUBSET Values
  BY <1>1, <1>2, WordsHeldType DEF Marked
<1>4. \A x \in Marked \ g : Targets({mem[w] : w \in PtrWords(x)}) \subseteq Marked \cup Targets(V)
  BY <1>1 DEF Colours, TriColour
<1> HIDE DEF V, g
<1> QED
  <2>1. g \in SUBSET Marked
    BY <1>2 DEF g
  <2> QED
    BY <1>1, <1>2, <1>3, <1>4, <2>1, ColoursMark DEF Colours

-----------------------------------------------------------------------------
(* Sweeping *)

ObjectsBelow == \A o \in Objects : o[1] \in Spans /\ o[1] \in Nat /\ o[1] < next_fresh

LEMMA ObjectsInUse == StructInv => ObjectsBelow
<1> SUFFICES ASSUME StructInv, NEW o \in Objects
             PROVE  o[1] \in Spans /\ o[1] \in Nat /\ o[1] < next_fresh
  BY DEF ObjectsBelow
<1>1. o[1] \in Spans /\ span_state[o[1]] # "free"
  BY DEF Objects, SmallObjects, LargeObjects, Words
<1> QED
  BY <1>1 DEF StructInv, Structure, TableInRange, Spans

\* When the mark stack is empty, what is marked is closed under pointers: the
\* sweep may free the rest.
LEMMA SafeBeginSweep ==
  ASSUME HeapInv, BeginSweep
  PROVE  Colours' /\ Memory'
<1>1. /\ pc = "mark" /\ pc' = "sweep" /\ grey = {} /\ grey' = {} /\ sweep_at' = 0
      /\ UNCHANGED <<tableVars, next_fresh, mem, ptr_bits, stack, mark_bits>>
  BY DEF BeginSweep, StartSweep
<1>2. StructInv /\ Colours /\ Memory
  BY HeapInvParts
<1>3. Heads' = Heads /\ Marked' = Marked /\ Objects' = Objects
  BY <1>1, SameMemory DEF Heads, Marked
<1>4. Colours'
  <2>1. \A i \in Heads : i >= 0
    BY DEF Heads, Spans
  <2> QED
    BY <1>1, <1>2, <1>3, <2>1 DEF Colours, MarksOnObjects, TriColour, Idle
<1>5. UnusedIsZero' /\ NoScanHasNoPointers'
  BY <1>1, <1>2, SameMemory DEF Memory, UnusedIsZero, NoScanHasNoPointers
<1>6. Closed'
  <2>1. Survivors' = Marked
    <3>1. \A o \in Objects : ~(o[1] < 0)
      BY <1>2, ObjectsInUse DEF ObjectsBelow
    <3> QED
      BY <1>1, <1>3, <3>1 DEF Survivors, Marked
  <2>2. StackKept /\ HeapKept
    BY <1>1, <1>2, ClosedOutsideSweep DEF Memory
  <2>3. /\ Targets(StackVals) \subseteq Marked
        /\ \A o \in Marked : \A w \in PtrWords(o) : TargetOf(mem[w]) \subseteq Marked
    BY <1>1, <1>2 DEF Colours, TriColour, Targets
  <2>4. /\ Targets(StackVals)' = Targets(StackVals)
        /\ \A o : PtrWords(o)' = PtrWords(o)
        /\ \A p : TargetOf(p)' = TargetOf(p)
    BY <1>1, SameMemory DEF Targets, StackVals, PtrWords
  <2> QED
    BY <1>1, <2>1, <2>2, <2>3, <2>4 DEF Closed, StackKept, HeapKept, Dangling, Marked
<1> QED
  BY <1>4, <1>5, <1>6 DEF Memory

\* The program sees a sweep only through what survives.
LEMMA ClosedSweep ==
  ASSUME StructInv, StructInv', Closed, UNCHANGED <<mem, stack>>,
         Survivors' = Survivors, Objects' \subseteq Objects,
         \A o \in Objects' : WordsOf(o)' = WordsOf(o) /\ PtrWords(o)' = PtrWords(o)
  PROVE  Closed'
<1>1. Survivors \subseteq Objects'
  BY DEF Survivors
<1>2. ASSUME NEW p \in Values, TargetOf(p) \subseteq Survivors
      PROVE  TargetOf(p)' = TargetOf(p)
  <2>1. TargetOf(p) \cap Objects' = TargetOf(p)' \cap Objects
    BY TargetsKept
  <2>2. TargetOf(p)' \subseteq Objects'
    BY OwnersNext DEF TargetIsOwner, Values
  <2> QED
    BY <1>1, <1>2, <2>1, <2>2
<1>3. /\ StackVals \subseteq Values /\ \A r \in PtrVars : stack[r] \in StackVals
      /\ \A p \in StackVals : TargetOf(p) \subseteq Survivors
  <2>1. stack \in [PtrVars \cup IntVars -> Values]
    BY DEF StructInv, TypeInv, TypeOK
  <2> QED
    BY <2>1 DEF StackVals, Closed, Targets
<1>4. \A o \in Survivors : \A w \in PtrWords(o) :
         mem[w] \in Values /\ TargetOf(mem[w]) \subseteq Survivors /\ ~Dangling(mem[w])
  BY WordsHeldType DEF Survivors, Closed
<1>5. Targets(StackVals)' \subseteq Survivors'
  BY <1>2, <1>3 DEF Targets, StackVals
<1>6. \A r \in PtrVars : ~Dangling(stack[r])'
  BY <1>2, <1>3 DEF Closed, Dangling
<1>7. \A o \in Survivors' : \A w \in PtrWords(o)' :
         ~Dangling(mem[w])' /\ TargetOf(mem[w])' \subseteq Survivors'
  BY <1>1, <1>2, <1>4 DEF Dangling
<1> QED
  BY <1>5, <1>6, <1>7 DEF Closed

\* Marks behind the sweep are gone, marks ahead are as they were.
LEMMA ColoursSweep ==
  ASSUME StructInv, MarksOnObjects, pc = "sweep", pc' = "sweep", grey' = grey,
         NEW i \in Spans, i = sweep_at, sweep_at' = i + 1,
         mark_bits'[i] = {} \/ span_state'[i] \notin {"small", "large"},
         \A j \in Spans \ {i} : /\ mark_bits'[j] = mark_bits[j]
                                /\ \/ span_state'[j] = "free"
                                   \/ span_state'[j] = span_state[j] /\ alloc_bits'[j] = alloc_bits[j]
  PROVE  Colours'
<1>1. ASSUME NEW j \in Heads', NEW k \in mark_bits'[j]
      PROVE  <<j, k>> \in Objects' /\ j >= sweep_at'
  <2>1. j \in Spans /\ span_state'[j] \in {"small", "large"} /\ j # i
    BY <1>1 DEF Heads
  <2>2. span_state'[j] = span_state[j] /\ alloc_bits'[j] = alloc_bits[j] /\ k \in mark_bits[j]
    BY <1>1, <2>1
  <2>3. <<j, k>> \in Objects /\ j >= sweep_at
    BY <2>1, <2>2 DEF MarksOnObjects, Heads
  <2>4. <<j, k>> \in Objects'
    BY <2>2, <2>3 DEF Objects, SmallObjects, LargeObjects
  <2> QED
    BY <2>1, <2>3, <2>4 DEF Spans
<1> QED
  BY <1>1 DEF Colours, MarksOnObjects, TriColour, Idle

\* What the sweep frees at span i is what was not marked there.
LEMMA SurvivorsSweep ==
  ASSUME StructInv, pc = "sweep", pc' = "sweep", NEW i \in Spans, i = sweep_at, sweep_at' = i + 1,
         Objects' = {o \in Objects : o[1] = i => o \in Marked},
         \A j \in Spans \ {i} : mark_bits'[j] = mark_bits[j]
  PROVE  Survivors' = Survivors
<1>1. \A o \in Objects' : /\ o \in Objects /\ o[1] \in Spans
                          /\ o[1] < sweep_at' <=> o[1] < sweep_at \/ o[1] = i
                          /\ o[1] = i => o \in Marked
                          /\ o[1] # i => (o \in Marked' <=> o \in Marked)
  BY ObjectsInUse DEF ObjectsBelow, Marked, Spans
<1>2. \A o \in Survivors : o \in Objects'
  BY DEF Survivors, Spans
<1> QED
  BY <1>1, <1>2 DEF Survivors

\* The sweep takes objects away; what will survive, and the objects it has not
\* taken, stay as they are.
SweepTakes == /\ Objects' \subseteq Objects /\ Survivors' = Survivors
              /\ \A o \in Objects' : WordsOf(o)' = WordsOf(o) /\ PtrWords(o)' = PtrWords(o)

LEMMA SafeSweepStep ==
  ASSUME HeapInv, StructInv', NEW i \in Spans, Sweeping(i),
         Objects' = {o \in Objects : o[1] = i => o \in Marked},
         mark_bits'[i] = {} \/ span_state'[i] \notin {"small", "large"},
         span_state'[i] = "free" \/ span_state'[i] = span_state[i],
         span_state'[i] = "small" => i \in needzero' \/ alloc_bits'[i] = alloc_bits[i],
         \A j \in Spans \ {i} : /\ mark_bits'[j] = mark_bits[j] /\ alloc_bits'[j] = alloc_bits[j]
                                /\ span_state'[j] = "free" \/ span_state'[j] = span_state[j],
         \A j \in Spans : j \notin needzero' => j \notin needzero
  PROVE  Colours' /\ Memory' /\ SweepTakes
<1>1. /\ pc = "sweep" /\ pc' = "sweep" /\ i = sweep_at /\ sweep_at' = i + 1
      /\ UNCHANGED <<cls, noscan, run_len, obj_words, next_fresh, mem, ptr_bits, stack, grey>>
  BY DEF Sweeping
<1>2. StructInv /\ Colours /\ Memory
  BY HeapInvParts
<1>3. Colours'
  BY <1>1, <1>2, ColoursSweep DEF Colours
<1>4. Survivors' = Survivors
  BY <1>1, <1>2, SurvivorsSweep
<1>5. ASSUME NEW o \in Objects'
      PROVE  WordsOf(o)' = WordsOf(o) /\ PtrWords(o)' = PtrWords(o)
  <2>1. o \in Objects /\ o[1] \in Spans /\ span_state'[o[1]] # "free"
    BY <1>2, ObjectsInUse DEF ObjectsBelow, Objects, SmallObjects, LargeObjects
  <2>2. span_state'[o[1]] = span_state[o[1]]
    BY <2>1
  <2> QED
    BY <1>1, <2>2 DEF WordsOf, PtrWords, SlotWords, RunWords
<1>6. Closed'
  BY <1>1, <1>2, <1>4, <1>5, ClosedSweep DEF Memory
<1>7. UnusedIsZero'
  <2>1. ASSUME NEW w \in Words,
               span_state'[w[1]] = "small", w[1] \notin needzero',
               w[2] \div Elem[cls[w[1]]] \notin alloc_bits'[w[1]]
        PROVE  mem[w] = Null
    <3>1. /\ w[1] \in Spans /\ span_state[w[1]] = "small" /\ w[1] \notin needzero
          /\ alloc_bits'[w[1]] = alloc_bits[w[1]]
      BY <2>1 DEF Words
    <3> QED
      BY <1>2, <2>1, <3>1 DEF Memory, UnusedIsZero
  <2> QED
    BY <1>1, <1>2, <2>1 DEF Memory, UnusedIsZero
<1>8. NoScanHasNoPointers'
  <2>1. noscan \subseteq Spans
    BY <1>2 DEF StructInv, TypeInv, TypeOK
  <2> QED
    BY <1>1, <1>2, <2>1 DEF Memory, NoScanHasNoPointers, RunWords
<1>9. SweepTakes
  BY <1>4, <1>5 DEF SweepTakes
<1> QED
  BY <1>3, <1>6, <1>7, <1>8, <1>9 DEF Memory

\* A continuation span or a free one holds no object.
LEMMA SafeSweepOther ==
  ASSUME HeapInv, StructInv', NEW i \in Spans, SweepCont(i) \/ SweepFree(i)
  PROVE  Colours' /\ Memory' /\ SweepTakes
<1>1. /\ Sweeping(i) /\ span_state[i] \in {"cont", "free"}
      /\ UNCHANGED <<span_state, cls, needzero, alloc_bits, mark_bits>>
  BY DEF SweepCont, SweepFree, Sweeping
<1>2. Objects' = {o \in Objects : o[1] = i => o \in Marked}
  BY <1>1 DEF Objects, SmallObjects, LargeObjects
<1> QED
  BY <1>1, <1>2, SafeSweepStep

LEMMA SafeSweepLarge ==
  ASSUME HeapInv, StructInv', NEW i \in Spans, SweepLarge(i)
  PROVE  Colours' /\ Memory' /\ SweepTakes
<1>1. /\ Sweeping(i) /\ span_state[i] = "large"
      /\ UNCHANGED <<needzero, alloc_bits>>
      /\ IF 0 \in mark_bits[i] THEN KeepRun(i) ELSE FreeRun(i)
  BY DEF SweepLarge
<1>2. TypeOK /\ StructInv
  BY HeapInvParts DEF HeapInv
<1>3. <<i, 0>> \in Objects /\ (<<i, 0>> \in Marked <=> 0 \in mark_bits[i])
      /\ \A o \in Objects : o[1] = i => o = <<i, 0>>
  <2>1. <<i, 0>> \in Words
    BY SpanType DEF Words
  <2> QED
    BY <1>1, <2>1 DEF Objects, SmallObjects, LargeObjects, Marked, Words
<1>4. CASE 0 \in mark_bits[i]
  <2>1. UNCHANGED span_state /\ mark_bits' = [mark_bits EXCEPT ![i] = {}]
    BY <1>1, <1>4 DEF KeepRun
  <2>2. /\ mark_bits'[i] = {} /\ \A j \in Spans \ {i} : mark_bits'[j] = mark_bits[j]
    BY <1>2, <2>1 DEF TypeOK
  <2>3. Objects' = {o \in Objects : o[1] = i => o \in Marked}
    BY <1>1, <1>3, <1>4, <2>1 DEF Objects, SmallObjects, LargeObjects
  <2> QED
    BY <1>1, <2>1, <2>2, <2>3, SafeSweepStep
<1>5. CASE 0 \notin mark_bits[i]
  <2> DEFINE run == i .. i + run_len[i] - 1
  <2>1. /\ span_state' = [j \in Spans |-> IF j \in run THEN "free" ELSE span_state[j]]
        /\ UNCHANGED mark_bits
    BY <1>1, <1>5 DEF FreeRun
  <2>2. i \in run /\ \A j \in run : j # i => span_state[j] = "cont"
    <3>1. run_len[i] \in Nat \ {0} /\ i \in Nat
      BY <1>1, <1>2, RunInHeap DEF HeapInv, Structure, Spans
    <3>2. \A j \in run : j # i => span_state[j] = "cont"
      BY <1>1, <1>2, RunInHeap DEF HeapInv, Structure
    <3> QED
      BY <3>1, <3>2
  <2>3. Objects' = {o \in Objects : o[1] = i => o \in Marked}
    <3>1. ASSUME NEW o \in Words PROVE o \in Objects' <=> o \in Objects /\ o[1] # i
      <4>1. o[1] \in Spans
        BY DEF Words
      <4>2. o[1] = i => span_state'[o[1]] = "free"
        BY <2>1, <2>2, <4>1
      <4>3. o[1] # i => \/ span_state'[o[1]] = span_state[o[1]]
                        \/ span_state'[o[1]] = "free" /\ span_state[o[1]] = "cont"
        BY <2>1, <2>2, <4>1
      <4> QED
        BY <1>1, <4>2, <4>3 DEF Objects, SmallObjects, LargeObjects
    <3>2. Objects \subseteq Words /\ Objects' \subseteq Words
      BY DEF Objects, SmallObjects, LargeObjects, Words
    <3> QED
      BY <1>3, <1>5, <3>1, <3>2
  <2>4. /\ span_state'[i] = "free"
        /\ \A j \in Spans : span_state'[j] = "free" \/ span_state'[j] = span_state[j]
    BY <2>1, <2>2
  <2> HIDE DEF run
  <2> QED
    BY <1>1, <2>1, <2>3, <2>4, SafeSweepStep
<1> QED
  BY <1>4, <1>5

LEMMA SafeSweepSmall ==
  ASSUME HeapInv, StructInv', NEW i \in Spans, SweepSmall(i)
  PROVE  Colours' /\ Memory' /\ SweepTakes
<1>1. /\ Sweeping(i) /\ span_state[i] = "small" /\ UNCHANGED cls
      /\ alloc_bits' = [alloc_bits EXCEPT ![i] = mark_bits[i]]
      /\ mark_bits' = [mark_bits EXCEPT ![i] = {}]
      /\ \/ /\ mark_bits[i] = {} /\ span_state' = [span_state EXCEPT ![i] = "free"]
            /\ UNCHANGED needzero
         \/ span_state' = span_state /\ needzero' = needzero \cup {i}
  BY DEF SweepSmall, Sweeping
<1>2. TypeOK /\ StructInv
  BY HeapInvParts DEF HeapInv
<1>3. /\ alloc_bits'[i] = mark_bits[i] /\ mark_bits'[i] = {}
      /\ \A j \in Spans \ {i} : /\ mark_bits'[j] = mark_bits[j] /\ alloc_bits'[j] = alloc_bits[j]
                               /\ span_state'[j] = span_state[j]
      /\ \/ mark_bits[i] = {} /\ span_state'[i] = "free" /\ UNCHANGED needzero
         \/ span_state'[i] = "small" /\ needzero' = needzero \cup {i}
  BY <1>1, <1>2 DEF TypeOK
<1>4. Objects' = {o \in Objects : o[1] = i => o \in Marked}
  <2>1. ASSUME NEW o \in Words
        PROVE  o \in Objects' <=> o \in Objects /\ (o[1] = i => o \in Marked)
    <3>1. o[1] \in Spans
      BY DEF Words
    <3>2. CASE o[1] # i
      BY <1>3, <3>1, <3>2 DEF Objects, SmallObjects, LargeObjects
    <3>3. CASE o[1] = i
      <4>1. mark_bits[i] \subseteq alloc_bits[i]
        BY <1>1, <1>2 DEF StructInv, Structure, TableInRange
      <4>2. o \in Objects' <=> o[2] \in mark_bits[i]
        BY <1>3, <3>3 DEF Objects, SmallObjects, LargeObjects
      <4>3. o \in Objects /\ o \in Marked <=> o[2] \in mark_bits[i]
        BY <1>1, <3>3, <4>1 DEF Objects, SmallObjects, LargeObjects, Marked
      <4> QED
        BY <3>3, <4>2, <4>3
    <3> QED
      BY <3>2, <3>3
  <2>2. Objects \subseteq Words /\ Objects' \subseteq Words
    BY DEF Objects, SmallObjects, LargeObjects, Words
  <2> QED
    BY <2>1, <2>2
<1> QED
  BY <1>1, <1>3, <1>4, SafeSweepStep

\* The sweep has come by every object: what it left is all there is.
LEMMA SafeFinishSweep ==
  ASSUME HeapInv, StructInv', FinishSweep
  PROVE  Colours' /\ Memory'
<1>1. /\ pc = "sweep" /\ pc' \in {"run", "alloc"} /\ sweep_at = next_fresh
      /\ UNCHANGED <<tableVars, next_fresh, mem, ptr_bits, stack, mark_bits, grey>>
  BY DEF FinishSweep, allocVars
<1>2. StructInv /\ Colours /\ Memory
  BY HeapInvParts
<1>3. Survivors = Objects
  BY <1>1, <1>2, ObjectsInUse DEF ObjectsBelow, Survivors
<1>4. StackKept /\ HeapKept
  BY <1>2, <1>3 DEF Memory, Closed, StackKept, HeapKept
<1>5. StackKept' /\ HeapKept'
  BY <1>1, <1>4, SameMemory DEF StackKept, HeapKept, Dangling, PtrWords
<1>6. Closed'
  BY <1>1, <1>5, ClosedNext
<1>7. UnusedIsZero' /\ NoScanHasNoPointers'
  BY <1>1, <1>2, SameMemory DEF Memory, UnusedIsZero, NoScanHasNoPointers
<1>8. Colours'
  <2>1. ASSUME NEW i \in Heads, NEW k \in mark_bits[i] PROVE FALSE
    <3>1. <<i, k>> \in Objects /\ i >= next_fresh
      BY <1>1, <1>2 DEF Colours, MarksOnObjects
    <3>2. <<i, k>>[1] \in Nat /\ <<i, k>>[1] < next_fresh
      BY <1>2, <3>1, ObjectsInUse DEF ObjectsBelow
    <3>3. next_fresh \in Nat
      BY <1>2, SpanType DEF StructInv, TypeInv, TypeOK
    <3> QED
      BY <3>1, <3>2, <3>3
  <2>2. Heads' = Heads /\ grey = {}
    BY <1>1, <1>2, SameMemory DEF Heads, Colours, MarksOnObjects
  <2> QED
    BY <1>1, <2>1, <2>2 DEF Colours, MarksOnObjects, TriColour
<1> QED
  BY <1>6, <1>7, <1>8 DEF Memory

-----------------------------------------------------------------------------
(* Allocation *)

\* A step that adds objects, made of zeroed words, and lets the program have
\* pointers to them.
LEMMA ClosedAlloc ==
  ASSUME StructInv, StructInv', Closed, pc # "sweep", pc' # "sweep",
         Objects \subseteq Objects',
         \A o \in Objects : WordsOf(o)' = WordsOf(o),
         \A o \in Objects : \A w \in PtrWords(o)' : w \in PtrWords(o) /\ mem'[w] = mem[w],
         \A o \in Objects' \ Objects : \A w \in WordsOf(o)' : mem'[w] = Null,
         \A r \in PtrVars : stack'[r] = stack[r] \/ \E o \in Objects' : stack'[r] \in WordsOf(o)'
  PROVE  Closed'
<1>1. StackKept /\ HeapKept
  BY ClosedOutsideSweep
<1>2. ASSUME NEW p \in Values, ~Dangling(p) PROVE ~Dangling(p)'
  <2>1. TargetOf(p) \subseteq Objects
    BY TargetIsObject
  <2>2. TargetOf(p) \cap Objects' = TargetOf(p)' \cap Objects
    BY TargetsKept
  <2> QED
    BY <1>2, <2>1, <2>2 DEF Dangling
<1>3. \A r \in PtrVars : stack[r] \in Values /\ stack'[r] \in Values
  BY DEF StructInv, TypeInv, TypeOK, Values, Words
<1>4. StackKept'
  <2>1. ASSUME NEW r \in PtrVars PROVE ~Dangling(stack[r])'
    <3>1. CASE stack'[r] = stack[r]
      <4>1. ~Dangling(stack[r])
        BY <1>1 DEF StackKept
      <4> QED
        BY <1>2, <1>3, <3>1, <4>1 DEF Dangling
    <3>2. CASE \E o \in Objects' : stack'[r] \in WordsOf(o)'
      BY <1>3, <3>2, OwnersNext DEF TargetIsOwner, Dangling, Values
    <3> QED
      BY <3>1, <3>2
  <2> QED
    BY <2>1 DEF StackKept
<1>5. HeapKept'
  <2>1. ASSUME NEW o \in Objects', NEW w \in PtrWords(o)' PROVE ~Dangling(mem[w])'
    <3>1. CASE o \in Objects
      <4>1. mem'[w] = mem[w] /\ mem[w] \in Values /\ ~Dangling(mem[w])
        BY <1>1, <2>1, <3>1, WordsHeldType DEF HeapKept
      <4> QED
        BY <1>2, <4>1 DEF Dangling
    <3>2. CASE o \notin Objects
      <4>1. w \in WordsOf(o)'
        BY <2>1 DEF PtrWords
      <4> QED
        BY <3>2, <4>1 DEF Dangling
    <3> QED
      BY <3>1, <3>2
  <2> QED
    BY <2>1 DEF HeapKept
<1> QED
  BY <1>4, <1>5, ClosedNext

\* The objects a step adds are made of zeroed words.
NewIsZero == \A o \in Objects' \ Objects : \A w \in WordsOf(o)' : mem'[w] = Null

\* The objects there are keep their words and what is in them, ...
OldKept == \A o \in Objects :
             /\ WordsOf(o)' = WordsOf(o)
             /\ \A w \in WordsOf(o) : mem'[w] = mem[w] /\ (w \in ptr_bits' <=> w \in ptr_bits)

\* ... and the one object a step adds goes to the variable that waits for it.
Added == \/ Objects' = Objects /\ stack' = stack
         \/ \E o \in Objects' : \E w \in WordsOf(o)' :
              /\ o \notin Objects /\ Objects' = Objects \cup {o}
              /\ stack' = [stack EXCEPT ![req[2]] = w]

Placed == NewIsZero /\ OldKept /\ Added

LEMMA SafeTakeSlot ==
  ASSUME HeapInv, StructInv', NEW c \in Classes, TakeSlot(c)
  PROVE  Colours' /\ Memory' /\ Placed
<1> DEFINE i == cur_span[c]
           e == Elem[c]
<1>1. StructInv /\ Colours /\ Memory /\ TypeInv
  BY HeapInvParts DEF StructInv
<1>2. /\ UNCHANGED <<span_state, cls, needzero, noscan, run_len, head_idx, obj_words, next_fresh,
                     mark_bits, grey>>
      /\ pc = "alloc" /\ pc' = "run" /\ cur_span[c] # NoSpan
  BY DEF TakeSlot, SmallRequest, NoSlotIn, Return, allocVars, gcVars
<1>3. i \in Spans /\ span_state[i] = "small" /\ cls[i] = c
  BY <1>1, <1>2 DEF StructInv, Structure, ClassListsSound, TypeInv, TypeOK
<1>4. PICK k \in FreeSlots(i) :
        /\ alloc_bits' = [alloc_bits EXCEPT ![i] = @ \cup {k}]
        /\ mem' = [w \in Words |-> IF i \in needzero /\ w \in SlotWords(i, k)
                                   THEN Null ELSE mem[w]]
        /\ ptr_bits' = (ptr_bits \ SlotWords(i, k)) \cup
                       {w \in SlotWords(i, k) : w[2] - k * e \in req[1].ptrs}
        /\ stack' = [stack EXCEPT ![req[2]] = <<i, k * e>>]
  BY DEF TakeSlot, Lowest, Return
<1>5. k \in Offsets /\ <<i, k * e>> \in Words /\ SlotWords(i, k) \subseteq Words
      /\ k \notin alloc_bits[i]
  BY <1>1, <1>3, FreeSlotType DEF StructInv, Structure, FreeSlots
<1>6. <<i, k * e>> \in SlotWords(i, k)
  <2>1. e \in Nat \ {0} /\ k \in Nat /\ k < SpanWords \div e
    <3>1. e \in 1 .. SpanWords /\ SpanWords \div e \in Nat
      BY NElemsType
    <3>2. freeindex[i] \in Nat
      BY <1>1, <1>3, SpanType DEF TypeInv, TypeOK
    <3> QED
      BY <1>3, <1>4, <3>1, <3>2 DEF FreeSlots, NElems
  <2>2. (k * e) \div e = k /\ k * e \in Offsets
    BY <2>1, SlotStart, SpanType DEF Offsets
  <2> QED
    BY <1>3, <2>2 DEF SlotWords
<1>7. /\ alloc_bits'[i] = alloc_bits[i] \cup {k}
      /\ \A j \in Spans \ {i} : alloc_bits'[j] = alloc_bits[j]
  BY <1>1, <1>3, <1>4 DEF TypeInv, TypeOK
<1>8. Objects' = Objects \cup {<<i, k>>} /\ <<i, k>> \notin Objects
  <2>1. ASSUME NEW o \in Words PROVE o \in Objects' <=> o \in Objects \/ o = <<i, k>>
    <3>1. o[1] \in Spans /\ o = <<o[1], o[2]>>
      BY DEF Words
    <3> QED
      BY <1>2, <1>3, <1>7, <3>1 DEF Objects, SmallObjects, LargeObjects
  <2>2. Objects \subseteq Words /\ Objects' \subseteq Words /\ <<i, k>> \in Words
    BY <1>3, <1>5 DEF Objects, SmallObjects, LargeObjects, Words
  <2> QED
    BY <1>3, <1>5, <2>1, <2>2 DEF Objects, SmallObjects, LargeObjects
<1>9. /\ \A o : WordsOf(o)' = WordsOf(o)
      /\ WordsOf(<<i, k>>) = SlotWords(i, k)
      /\ \A h : RunWords(h)' = RunWords(h)
  BY <1>2, <1>3 DEF WordsOf, RunWords, SlotWords
<1> HIDE DEF i, e
<1>10. \A o \in Objects : WordsOf(o) \cap SlotWords(i, k) = {}
  <2>1. WordsApart'
    BY OwnersNext
  <2> QED
    BY <1>8, <1>9, <2>1 DEF WordsApart
<1>11. \A w \in SlotWords(i, k) : mem'[w] = Null
  <2>1. ASSUME NEW w \in SlotWords(i, k), i \notin needzero PROVE mem[w] = Null
    <3>1. w \in Words /\ w[1] = i /\ w[2] \div Elem[cls[i]] = k
      BY <1>5 DEF SlotWords
    <3> QED
      BY <1>1, <1>3, <1>5, <2>1, <3>1 DEF Memory, UnusedIsZero
  <2> QED
    BY <1>4, <1>5, <2>1
<1>12. \A w \in Words : mem'[w] = Null \/ mem'[w] = mem[w]
  BY <1>4
<1>13. NewIsZero
  BY <1>8, <1>9, <1>11 DEF NewIsZero
<1>17. Closed'
  <2>1. ASSUME NEW o \in Objects, NEW w \in PtrWords(o)'
        PROVE  w \in PtrWords(o) /\ mem'[w] = mem[w]
    <3>1. w \in WordsOf(o) /\ w \notin SlotWords(i, k) /\ w \in ptr_bits'
          /\ ~(span_state[o[1]] = "large" /\ o[1] \in noscan)
      BY <1>2, <1>9, <1>10, <2>1 DEF PtrWords
    <3>2. w \in Words
      BY <1>1, <3>1, TargetOfWord
    <3> QED
      BY <1>4, <3>1, <3>2 DEF PtrWords
  <2>2. \A r \in PtrVars : stack'[r] = stack[r] \/ \E o \in Objects' : stack'[r] \in WordsOf(o)'
    <3>1. stack \in [PtrVars \cup IntVars -> Values]
      BY <1>1 DEF TypeInv, TypeOK
    <3> QED
      BY <1>4, <1>6, <1>8, <1>9, <3>1
  <2> QED
    BY <1>1, <1>2, <1>8, <1>9, <1>13, <2>1, <2>2, ClosedAlloc DEF Memory, NewIsZero
<1>14. UnusedIsZero'
  <2>1. \A j \in Spans : alloc_bits[j] \subseteq alloc_bits'[j]
    BY <1>7
  <2>2. \A w \in Words : w[1] \in Spans
    BY DEF Words
  <2> QED
    BY <1>1, <1>2, <1>12, <2>1, <2>2 DEF Memory, UnusedIsZero
<1>15. NoScanHasNoPointers'
  <2>1. ASSUME NEW h \in noscan, span_state[h] = "large", NEW w \in RunWords(h) PROVE w \notin ptr_bits'
    <3>1. <<h, 0>> \in Objects /\ WordsOf(<<h, 0>>) = RunWords(h)
      <4>1. <<h, 0>> \in Words
        BY <1>1, SpanType DEF TypeInv, TypeOK, Words
      <4> QED
        BY <2>1, <4>1 DEF Objects, LargeObjects, WordsOf
    <3>2. w \notin SlotWords(i, k)
      BY <1>10, <2>1, <3>1
    <3> QED
      BY <1>1, <1>4, <2>1, <3>2 DEF Memory, NoScanHasNoPointers
  <2> QED
    BY <1>2, <1>9, <2>1 DEF NoScanHasNoPointers
<1>16. Colours'
  BY <1>1, <1>2, ColoursIdle DEF Colours, Idle
<1>18. OldKept
  <2>1. ASSUME NEW o \in Objects, NEW w \in WordsOf(o)
        PROVE  mem'[w] = mem[w] /\ (w \in ptr_bits' <=> w \in ptr_bits)
    <3>1. w \in Words /\ w \notin SlotWords(i, k)
      BY <1>1, <1>10, TargetOfWord
    <3> QED
      BY <1>4, <3>1
  <2> QED
    BY <1>9, <2>1 DEF OldKept
<1>19. Added
  BY <1>4, <1>6, <1>8, <1>9 DEF Added
<1> QED
  BY <1>13, <1>14, <1>15, <1>16, <1>17, <1>18, <1>19 DEF Memory, Placed

LEMMA SafeTakePartial ==
  ASSUME HeapInv, StructInv', NEW c \in Classes, TakePartial(c)
  PROVE  Colours' /\ Memory' /\ Placed
<1>1. StructInv /\ Colours /\ Memory
  BY HeapInvParts
<1>2. /\ UNCHANGED <<span_state, cls, needzero, noscan, run_len, head_idx, obj_words, alloc_bits,
                     next_fresh, mem, ptr_bits, stack, mark_bits, grey>>
      /\ pc = "alloc" /\ pc' = "alloc"
  BY DEF TakePartial, SmallRequest, gcVars
<1>3. /\ Objects' = Objects /\ \A o : WordsOf(o)' = WordsOf(o) /\ PtrWords(o)' = PtrWords(o)
      /\ \A h : RunWords(h)' = RunWords(h)
  BY <1>2 DEF Objects, SmallObjects, LargeObjects, WordsOf, RunWords, SlotWords, PtrWords
<1>4. Closed'
  BY <1>1, <1>2, <1>3, ClosedAlloc DEF Memory
<1>5. UnusedIsZero' /\ NoScanHasNoPointers'
  BY <1>1, <1>2, <1>3 DEF Memory, UnusedIsZero, NoScanHasNoPointers
<1>6. Colours'
  BY <1>1, <1>2, ColoursIdle DEF Colours, Idle
<1> QED
  BY <1>2, <1>3, <1>4, <1>5, <1>6 DEF Memory, Placed, NewIsZero, OldKept, Added

\* A free span made a small one holds no object yet; its memory is zero unless
\* needzero says otherwise.
LEMMA SafeNewSpan ==
  ASSUME HeapInv, StructInv', NEW c \in Classes, NEW i \in Spans, NewSpan(c, i),
         span_state[i] = "free", \A w \in Words : w[1] >= next_fresh' => w[1] >= next_fresh,
         \A j \in Spans \ {i} : j \in needzero' <=> j \in needzero,
         i \notin needzero' => i >= next_fresh
  PROVE  Colours' /\ Memory' /\ Placed
<1>1. StructInv /\ Colours /\ Memory /\ TypeOK
  BY HeapInvParts DEF HeapInv
<1>2. /\ UNCHANGED <<noscan, run_len, obj_words, mem, ptr_bits, stack, grey>>
      /\ pc = "alloc" /\ pc' = "alloc"
  BY DEF NewSpan, SmallRequest
<1>3. /\ span_state'[i] = "small" /\ alloc_bits'[i] = {} /\ mark_bits'[i] = {}
      /\ \A j \in Spans \ {i} : /\ span_state'[j] = span_state[j] /\ cls'[j] = cls[j]
                               /\ alloc_bits'[j] = alloc_bits[j] /\ mark_bits'[j] = mark_bits[j]
  BY <1>1 DEF NewSpan, TypeOK
<1>4. Objects' = Objects /\ \A o \in Objects : o[1] \in Spans \ {i}
  <2>1. ASSUME NEW o \in Words PROVE o \in Objects' <=> o \in Objects
    <3>1. o[1] \in Spans
      BY DEF Words
    <3> QED
      BY <1>3, <3>1 DEF Objects, SmallObjects, LargeObjects
  <2>2. Objects \subseteq Words /\ Objects' \subseteq Words
    BY DEF Objects, SmallObjects, LargeObjects, Words
  <2>3. \A o \in Objects : o[1] \in Spans /\ o[1] # i
    BY DEF Objects, SmallObjects, LargeObjects, Words
  <2>4. Objects' = Objects
    BY <2>1, <2>2
  <2> QED
    BY <2>3, <2>4
<1>5. \A o \in Objects : WordsOf(o)' = WordsOf(o) /\ PtrWords(o)' = PtrWords(o)
  <2>1. \A o \in Objects : span_state'[o[1]] = span_state[o[1]] /\ cls'[o[1]] = cls[o[1]]
    BY <1>3, <1>4
  <2>2. \A o \in Objects : WordsOf(o)' = WordsOf(o)
    BY <1>2, <2>1 DEF WordsOf, RunWords, SlotWords
  <2> QED
    BY <1>2, <2>1, <2>2 DEF PtrWords
<1>6. Closed'
  BY <1>1, <1>2, <1>4, <1>5, ClosedAlloc DEF Memory
<1>7. UnusedIsZero'
  <2>1. ASSUME NEW w \in Words,
               \/ w[1] >= next_fresh'
               \/ /\ span_state'[w[1]] = "small" /\ w[1] \notin needzero'
                  /\ w[2] \div Elem[cls'[w[1]]] \notin alloc_bits'[w[1]]
        PROVE  mem[w] = Null
    <3>1. w[1] \in Spans
      BY DEF Words
    <3>2. \/ w[1] >= next_fresh
          \/ /\ span_state[w[1]] = "small" /\ w[1] \notin needzero
             /\ w[2] \div Elem[cls[w[1]]] \notin alloc_bits[w[1]]
      BY <1>3, <2>1, <3>1
    <3> QED
      BY <1>1, <3>2 DEF Memory, UnusedIsZero
  <2> QED
    BY <1>2, <2>1 DEF UnusedIsZero
<1>8. NoScanHasNoPointers'
  <2>1. noscan \subseteq Spans
    BY <1>1 DEF TypeOK
  <2> QED
    BY <1>1, <1>2, <1>3, <2>1 DEF Memory, NoScanHasNoPointers, RunWords
<1>9. Colours'
  <2>1. ASSUME NEW j \in Spans, span_state'[j] \in {"small", "large"}
        PROVE  mark_bits'[j] = {} \/ (span_state'[j] = span_state[j] /\ mark_bits'[j] = mark_bits[j])
    <3>1. CASE j = i
      BY <1>3, <3>1
    <3>2. CASE j # i
      BY <1>3, <2>1, <3>2
    <3> QED
      BY <3>1, <3>2
  <2>2. MarksOnObjects /\ Idle /\ Idle' /\ grey' = grey
    BY <1>1, <1>2 DEF Colours, Idle
  <2> QED
    BY <2>1, <2>2, ColoursIdle
<1>10. Placed
  BY <1>2, <1>4, <1>5 DEF Placed, NewIsZero, OldKept, Added
<1> QED
  BY <1>6, <1>7, <1>8, <1>9, <1>10 DEF Memory

LEMMA SafeTakeSpan ==
  ASSUME HeapInv, StructInv', NEW c \in Classes, TakeFreeSpan(c) \/ TakeFreshSpan(c)
  PROVE  Colours' /\ Memory' /\ Placed
<1>1. StructInv /\ next_fresh \in 0 .. NSpans /\ NSpans \in Nat /\ free_spans \in Seq(Spans)
  BY HeapInvParts, SpanType DEF StructInv, TypeInv, TypeOK
<1>2. CASE TakeFreeSpan(c)
  <2>1. PICK j \in FreeEntries :
          /\ NewSpan(c, free_spans[j]) /\ next_fresh' = next_fresh
          /\ needzero' = needzero \cup {free_spans[j]}
    BY <1>2 DEF TakeFreeSpan, Highest
  <2>2. free_spans[j] \in Spans /\ span_state[free_spans[j]] = "free"
    BY <1>1, <2>1 DEF FreeEntries
  <2> QED
    BY <2>1, <2>2, SafeNewSpan
<1>3. CASE TakeFreshSpan(c)
  <2>1. /\ NewSpan(c, next_fresh) /\ next_fresh < NSpans
        /\ next_fresh' = next_fresh + 1 /\ needzero' = needzero \ {next_fresh}
    BY <1>3 DEF TakeFreshSpan
  <2>2. next_fresh \in Spans /\ span_state[next_fresh] = "free"
    BY <1>1, <2>1 DEF Spans, StructInv, Structure, TableInRange
  <2>3. \A w \in Words : w[1] >= next_fresh' => w[1] >= next_fresh
    BY <1>1, <2>1 DEF Words, Spans
  <2> QED
    BY <1>1, <2>1, <2>2, <2>3, SafeNewSpan
<1> QED
  BY <1>2, <1>3

\* A run of free spans made a large object: no other object has a word of it.
LEMMA SafeNewRun ==
  ASSUME HeapInv, StructInv', NEW n \in 1 .. NSpans, NEW h \in Spans, NEW zero, NewRun(h, n, zero),
         req # NoReq, pc = "alloc",
         \A j \in h .. h + n - 1 : j \in Spans /\ span_state[j] = "free",
         zero \/ \A j \in h .. h + n - 1 : j >= next_fresh,
         \A w \in Words : w[1] >= next_fresh' => w[1] >= next_fresh
  PROVE  Colours' /\ Memory' /\ Placed
<1> DEFINE q    == req[1]
           run  == h .. h + n - 1
           tail == h + 1 .. h + n - 1
           used == {w \in Words : /\ w[1] \in run
                                  /\ (w[1] - h) * SpanWords + w[2] < q.words}
<1>1. StructInv /\ Colours /\ Memory /\ TypeOK /\ n \in Nat \ {0}
  BY HeapInvParts, SpanType DEF HeapInv
<1>2. /\ span_state' = [i \in Spans |-> IF i = h THEN "large" ELSE
                                        IF i \in tail THEN "cont" ELSE span_state[i]]
      /\ noscan' = IF q.ptrs = {} THEN noscan \cup {h} ELSE noscan \ {h}
      /\ needzero' = needzero \ {h}
      /\ run_len' = [run_len EXCEPT ![h] = n]
      /\ obj_words' = [obj_words EXCEPT ![h] = q.words]
      /\ mark_bits' = [mark_bits EXCEPT ![h] = {}]
      /\ UNCHANGED <<cls, alloc_bits, grey>> /\ pc' = "run"
  BY DEF NewRun, Return
<1>3. /\ mem' = [w \in Words |-> IF zero /\ w \in used THEN Null ELSE mem[w]]
      /\ ptr_bits' = (ptr_bits \ used) \cup
                     {w \in used : (w[1] - h) * SpanWords + w[2] \in q.ptrs}
      /\ stack' = [stack EXCEPT ![req[2]] = <<h, 0>>]
  BY DEF NewRun, Return
<1>4. h \in run /\ \A j \in tail : j \in run
  BY <1>1 DEF Spans
<1>5. /\ span_state'[h] = "large" /\ run_len'[h] = n /\ obj_words'[h] = q.words /\ mark_bits'[h] = {}
      /\ \A j \in Spans : j # h => /\ span_state'[j] \in {span_state[j], "cont"}
                                    /\ run_len'[j] = run_len[j] /\ obj_words'[j] = obj_words[j]
                                    /\ mark_bits'[j] = mark_bits[j]
      /\ \A j \in Spans \ run : span_state'[j] = span_state[j]
  <2>1. /\ run_len \in [Spans -> 0 .. NSpans] /\ mark_bits \in [Spans -> SUBSET Offsets]
        /\ obj_words \in [Spans -> 0 .. HeapWords]
    BY <1>1 DEF TypeOK
  <2> HIDE DEF run, tail, used, q
  <2> QED
    BY <1>2, <1>4, <2>1
<1>6. <<h, 0>> \in Words /\ \A w \in Words : w[1] \in Spans
  BY SpanType DEF Words
<1>7. Objects' = Objects \cup {<<h, 0>>} /\ <<h, 0>> \notin Objects
      /\ \A o \in Objects : o[1] \in Spans \ run
  <2> HIDE DEF run, tail, used, q
  <2>1. \A o \in Objects : o[1] \in Spans /\ o[1] \notin run
    <3>1. \A o \in Objects : o[1] \in Spans /\ span_state[o[1]] # "free"
      BY DEF Objects, SmallObjects, LargeObjects, Words
    <3>2. \A j \in run : span_state[j] = "free"
      BY DEF run
    <3> QED
      BY <3>1, <3>2
  <2>2. ASSUME NEW o \in Words PROVE o \in Objects' <=> o \in Objects \/ o = <<h, 0>>
    <3>1. o \in Objects => o[1] \notin run
      BY <2>1
    <3>2. CASE o[1] = h
      <4>1. o \in Objects' <=> o[2] = 0
        BY <1>5, <3>2 DEF Objects, SmallObjects, LargeObjects
      <4> QED
        BY <1>4, <3>1, <3>2, <4>1 DEF Words
    <3>3. CASE o[1] \in run /\ o[1] # h
      <4>1. span_state'[o[1]] \in {"cont", "free"}
        BY <1>5, <1>6, <3>3 DEF run
      <4> QED
        BY <3>1, <3>3, <4>1 DEF Objects, SmallObjects, LargeObjects
    <3>4. CASE o[1] \notin run
      BY <1>2, <1>4, <1>5, <1>6, <3>4 DEF Objects, SmallObjects, LargeObjects
    <3> QED
      BY <3>1, <3>2, <3>3, <3>4
  <2>3. Objects \subseteq Words /\ Objects' \subseteq Words
    BY DEF Objects, SmallObjects, LargeObjects, Words
  <2>4. Objects' = Objects \cup {<<h, 0>>}
    BY <1>6, <2>2, <2>3
  <2>5. <<h, 0>> \notin Objects
    <3>1. <<h, 0>>[1] = h
      OBVIOUS
    <3> QED
      BY <1>4, <2>1, <3>1
  <2> QED
    BY <2>1, <2>4, <2>5
<1>8. /\ \A o \in Objects : WordsOf(o)' = WordsOf(o)
      /\ WordsOf(<<h, 0>>)' = used /\ RunWords(h)' = used
      /\ \A g \in Spans \ {h} : RunWords(g)' = RunWords(g)
  <2>1. \A g \in Spans \ {h} : RunWords(g)' = RunWords(g)
    BY <1>5 DEF RunWords
  <2>2. RunWords(h)' = used
    BY <1>5 DEF RunWords
  <2> HIDE DEF run, used, q
  <2> QED
    BY <1>2, <1>4, <1>5, <1>7, <2>1, <2>2 DEF WordsOf, SlotWords
<1>9. /\ used \subseteq Words /\ \A w \in used : w[1] \in run
      /\ ptr_bits' \cap used = {w \in used : (w[1] - h) * SpanWords + w[2] \in q.ptrs}
      /\ \A w \in Words \ used : w \in ptr_bits' <=> w \in ptr_bits
      /\ \A w \in Words \ used : mem'[w] = mem[w]
      /\ \A w \in Words : mem'[w] = mem[w] \/ mem'[w] = Null
  BY <1>3
<1>10. \A o \in Objects : WordsOf(o) \cap used = {}
  <2>1. WordsApart'
    BY OwnersNext
  <2> HIDE DEF used
  <2> QED
    BY <1>7, <1>8, <2>1 DEF WordsApart
<1>11. \A w \in used : mem'[w] = Null
  <2>1. CASE zero
    BY <1>3, <2>1
  <2>2. CASE \A j \in run : j >= next_fresh
    <3>1. \A w \in used : mem[w] = Null
      BY <1>1, <1>9, <2>2 DEF Memory, UnusedIsZero
    <3> QED
      BY <1>9, <3>1
  <2> QED
    BY <2>1, <2>2
<1> HIDE DEF run, tail, used, q
<1>12. NewIsZero
  BY <1>7, <1>8, <1>11 DEF NewIsZero
<1>17. <<h, 0>> \in used
  <2>1. (h - h) * SpanWords + 0 = 0 /\ q.words > 0
    <3>1. q \in Requests
      BY <1>1, RequestType DEF q, StructInv
    <3> QED
      BY <3>1, ProgramAssumption, SpanType DEF Spans
  <2> QED
    BY <1>4, <1>6, <2>1 DEF used
<1>16. Closed'
  <2>1. ASSUME NEW o \in Objects, NEW w \in PtrWords(o)'
        PROVE  w \in PtrWords(o) /\ mem'[w] = mem[w]
    <3>1. /\ w \in WordsOf(o) /\ w \notin used /\ w \in ptr_bits'
          /\ ~(span_state'[o[1]] = "large" /\ o[1] \in noscan')
      BY <1>8, <1>10, <2>1 DEF PtrWords
    <3>2. w \in Words
      BY <1>1, <3>1, TargetOfWord
    <3>3. o[1] # h /\ span_state'[o[1]] = span_state[o[1]]
      BY <1>4, <1>5, <1>7
    <3>4. o[1] \in noscan => o[1] \in noscan'
      BY <1>2, <3>3
    <3> QED
      BY <1>9, <3>1, <3>2, <3>3, <3>4 DEF PtrWords
  <2>2. \A r \in PtrVars : stack'[r] = stack[r] \/ \E o \in Objects' : stack'[r] \in WordsOf(o)'
    <3>1. stack \in [PtrVars \cup IntVars -> Values]
      BY <1>1 DEF TypeOK
    <3> QED
      BY <1>3, <1>7, <1>8, <1>17, <3>1
  <2> QED
    BY <1>1, <1>2, <1>7, <1>8, <1>12, <2>1, <2>2, ClosedAlloc DEF Memory, NewIsZero
<1>13. UnusedIsZero'
  <2>1. ASSUME NEW w \in Words,
               \/ w[1] >= next_fresh'
               \/ /\ span_state'[w[1]] = "small" /\ w[1] \notin needzero'
                  /\ w[2] \div Elem[cls[w[1]]] \notin alloc_bits[w[1]]
        PROVE  mem[w] = Null
    <3>1. \/ w[1] >= next_fresh
          \/ /\ span_state[w[1]] = "small" /\ w[1] \notin needzero
             /\ w[2] \div Elem[cls[w[1]]] \notin alloc_bits[w[1]]
      BY <1>2, <1>5, <1>6, <2>1
    <3> QED
      BY <1>1, <3>1 DEF Memory, UnusedIsZero
  <2> QED
    BY <1>2, <1>9, <2>1 DEF UnusedIsZero
<1>14. NoScanHasNoPointers'
  <2>1. ASSUME NEW g \in noscan', span_state'[g] = "large", NEW w \in RunWords(g)'
        PROVE  w \notin ptr_bits'
    <3>1. g \in Spans
      BY <1>1, <1>2 DEF TypeOK
    <3>2. CASE g = h
      BY <1>2, <1>8, <1>9, <2>1, <3>2
    <3>3. CASE g # h
      <4>1. g \in noscan /\ span_state[g] = "large" /\ w \in RunWords(g)
        BY <1>2, <1>5, <1>8, <2>1, <3>1, <3>3
      <4>2. <<g, 0>> \in Objects /\ WordsOf(<<g, 0>>) = RunWords(g)
        <5>1. <<g, 0>> \in Words
          BY <3>1, SpanType DEF Words
        <5> QED
          BY <4>1, <5>1 DEF Objects, LargeObjects, WordsOf
      <4>3. w \notin used /\ w \in Words
        BY <1>10, <4>1, <4>2 DEF RunWords
      <4> QED
        BY <1>1, <1>9, <4>1, <4>3 DEF Memory, NoScanHasNoPointers
    <3> QED
      BY <3>2, <3>3
  <2> QED
    BY <2>1 DEF NoScanHasNoPointers
<1>15. Colours'
  <2>1. ASSUME NEW j \in Spans, span_state'[j] \in {"small", "large"}
        PROVE  mark_bits'[j] = {} \/ (span_state'[j] = span_state[j] /\ mark_bits'[j] = mark_bits[j])
    <3>1. CASE j = h
      BY <1>5, <3>1
    <3>2. CASE j # h
      BY <1>5, <2>1, <3>2
    <3> QED
      BY <3>1, <3>2
  <2>2. MarksOnObjects /\ Idle /\ Idle' /\ grey' = grey
    BY <1>1, <1>2 DEF Colours, Idle
  <2> QED
    BY <2>1, <2>2, ColoursIdle
<1>18. OldKept
  <2>1. ASSUME NEW o \in Objects, NEW w \in WordsOf(o)
        PROVE  mem'[w] = mem[w] /\ (w \in ptr_bits' <=> w \in ptr_bits)
    <3>1. w \in Words /\ w \notin used
      BY <1>1, <1>10, TargetOfWord
    <3> QED
      BY <1>9, <3>1
  <2> QED
    BY <1>8, <2>1 DEF OldKept
<1>19. Added
  BY <1>3, <1>7, <1>8, <1>17 DEF Added
<1> QED
  BY <1>12, <1>13, <1>14, <1>15, <1>16, <1>18, <1>19 DEF Memory, Placed

LEMMA SafeTakeRun ==
  ASSUME HeapInv, StructInv', NEW n \in 1 .. NSpans, TakeFreeRun(n) \/ TakeFreshRun(n)
  PROVE  Colours' /\ Memory' /\ Placed
<1>1. /\ StructInv /\ next_fresh \in 0 .. NSpans /\ NSpans \in Nat
      /\ pc = "alloc" /\ req # NoReq
  <2>1. pc = "alloc"
    BY DEF TakeFreeRun, TakeFreshRun, LargeRequest
  <2> QED
    BY <2>1, HeapInvParts, SpanType DEF StructInv, TypeInv, TypeOK, RequestKept
<1>2. CASE TakeFreeRun(n)
  <2>1. PICK h \in FreeRuns(n) : NewRun(h, n, TRUE)
    BY <1>2 DEF TakeFreeRun, Lowest
  <2>2. next_fresh' = next_fresh
    BY <1>2 DEF TakeFreeRun
  <2>3. /\ h \in Spans /\ h + n <= NSpans
        /\ \A j \in h .. h + n - 1 : span_state[j] = "free"
    BY <1>1, FreeRunType DEF StructInv
  <2>4. \A j \in h .. h + n - 1 : j \in Spans
    BY <1>1, <2>3 DEF Spans
  <2> QED
    BY <1>1, <2>1, <2>2, <2>3, <2>4, SafeNewRun
<1>3. CASE TakeFreshRun(n)
  <2>1. /\ NewRun(next_fresh, n, FALSE)
        /\ next_fresh' = next_fresh + n /\ next_fresh + n <= NSpans
    BY <1>3 DEF TakeFreshRun
  <2>2. next_fresh \in Spans /\ \A j \in next_fresh .. next_fresh + n - 1 : j \in Spans /\ j >= next_fresh
    BY <1>1, <2>1 DEF Spans
  <2>3. \A j \in next_fresh .. next_fresh + n - 1 : span_state[j] = "free"
    <3>1. \A j \in Spans : j \in Nat
      BY <1>1 DEF Spans
    <3> QED
      BY <1>1, <2>2, <3>1 DEF StructInv, Structure, TableInRange
  <2>4. \A w \in Words : w[1] >= next_fresh' => w[1] >= next_fresh
    BY <1>1, <2>1 DEF Words, Spans
  <2> QED
    BY <1>1, <2>1, <2>2, <2>3, <2>4, SafeNewRun
<1> QED
  BY <1>2, <1>3

-----------------------------------------------------------------------------
(* The invariant *)

\* A step that touches neither the heap nor the collector.
LEMMA SafeQuiet ==
  ASSUME HeapInv, StructInv', Idle, Idle', UNCHANGED <<tableVars, next_fresh, mem, ptr_bits, stack, gcVars>>
  PROVE  Colours' /\ Memory'
<1>1. StructInv /\ Colours /\ Memory /\ pc # "sweep" /\ pc' # "sweep"
  BY HeapInvParts DEF Idle
<1>2. grey' = grey /\ mark_bits' = mark_bits
  BY DEF gcVars
<1>3. Memory'
  BY <1>1, MemoryQuiet
<1>4. Colours'
  BY <1>1, <1>2, SameMemory, ColoursIdle DEF Colours
<1> QED
  BY <1>3, <1>4

LEMMA SafeBeginMark ==
  ASSUME HeapInv, StructInv', pc = "run", BeginMark
  PROVE  Colours' /\ Memory'
<1>1. StructInv /\ Colours /\ Memory
  BY HeapInvParts
<1>2. pc' = "mark" /\ UNCHANGED <<tableVars, next_fresh, mem, ptr_bits, stack>>
  BY DEF BeginMark, allocVars
<1> QED
  BY <1>1, <1>2, ColoursBeginMark, MemoryQuiet

LEMMA SafeScanObject ==
  ASSUME HeapInv, StructInv', NEW o \in Words, ScanObject(o)
  PROVE  Colours' /\ Memory'
<1>1. StructInv /\ Colours /\ Memory
  BY HeapInvParts
<1>2. pc = "mark" /\ pc' = "mark" /\ UNCHANGED <<tableVars, next_fresh, mem, ptr_bits, stack>>
  BY DEF ScanObject, allocVars
<1> QED
  BY <1>1, <1>2, ColoursScanObject, MemoryQuiet

LEMMA SafeProgram ==
  ASSUME HeapInv, StructInv', Program
  PROVE  Colours' /\ Memory'
<1>1. StructInv /\ Colours /\ Memory
  BY HeapInvParts
<1>2. CASE \/ \E r \in PtrVars : Drop(r) \/ PointInto(r) \/ Load(r) \/ Store(stack[r])
           \/ Store(Null)
           \/ \E n \in IntVals : StoreInt(n) \/ \E r \in IntVars : SetInt(r, n)
  <2>1. Memory'
    BY <1>1, <1>2, MemoryProgramData
  <2>2. Idle /\ Idle' /\ UNCHANGED <<span_state, mark_bits, grey>>
    BY <1>2 DEF Drop, PointInto, Load, Store, StoreInt, SetInt, heapUnchanged, tableVars, gcVars, Idle
  <2> QED
    BY <1>1, <2>1, <2>2, ColoursIdle DEF Colours
<1>3. CASE Collect
  BY <1>3, SafeBeginMark DEF Collect
<1>4. CASE \E q \in Requests, r \in PtrVars : Request(q, r)
  <2>1. PICK q \in Requests, r \in PtrVars : Request(q, r)
    BY <1>4
  <2>2. pc = "run"
    BY <2>1 DEF Request
  <2>3. CASE BeginMark
    BY <2>2, <2>3, SafeBeginMark
  <2>4. CASE ~BeginMark
    <3>1. Idle /\ Idle' /\ UNCHANGED <<tableVars, next_fresh, mem, ptr_bits, stack, gcVars>>
      BY <2>1, <2>4 DEF Request, heapUnchanged, allocVars, Idle
    <3> QED
      BY <3>1, SafeQuiet
  <2> QED
    BY <2>3, <2>4
<1>5. CASE \/ \E q \in Requests : RequestTooLarge(q)
           \/ \E m \in MinTriggers : SetMinTrigger(m)
           \/ \E n \in StressLevels : SetStress(n)
  <2>1. Idle /\ Idle' /\ UNCHANGED <<tableVars, next_fresh, mem, ptr_bits, stack, gcVars>>
    BY <1>5 DEF RequestTooLarge, SetMinTrigger, SetStress, heapUnchanged, allocVars, Idle
  <2> QED
    BY <2>1, SafeQuiet
<1> QED
  BY <1>2, <1>3, <1>4, <1>5 DEF Program

LEMMA SafePlace ==
  ASSUME HeapInv, StructInv', Place
  PROVE  Colours' /\ Memory'
<1>1. CASE Exhausted
  <2>1. Idle /\ Idle' /\ UNCHANGED <<tableVars, next_fresh, mem, ptr_bits, stack, gcVars>>
    BY <1>1 DEF Exhausted, SmallRequest, LargeRequest, heapUnchanged, allocVars, Idle
  <2> QED
    BY <2>1, SafeQuiet
<1> QED
  BY <1>1, SafeTakeSlot, SafeTakePartial, SafeTakeSpan, SafeTakeRun DEF Place

LEMMA SafeSweep ==
  ASSUME HeapInv, StructInv', Sweep
  PROVE  Colours' /\ Memory'
BY SafeSweepOther, SafeSweepLarge, SafeSweepSmall, SafeFinishSweep DEF Sweep

LEMMA SafeNext ==
  ASSUME HeapInv, Next
  PROVE  HeapInv'
<1>1. StructInv'
  BY HeapInvParts, StructNext
<1>2. Colours' /\ Memory'
  <2>1. CASE Mark
    BY <1>1, <2>1, SafeBeginSweep, SafeScanObject DEF Mark
  <2>2. CASE Aborted
    <3>1. Idle /\ Idle' /\ UNCHANGED <<tableVars, next_fresh, mem, ptr_bits, stack, gcVars>>
      BY <2>2 DEF Aborted, vars, allocVars, Idle
    <3> QED
      BY <1>1, <3>1, SafeQuiet
  <2> QED
    BY <1>1, <2>1, <2>2, SafeProgram, SafePlace, SafeSweep DEF Next
<1>3. (HeapInv <=> StructInv /\ Colours /\ Memory)'
  BY HeapInvParts, PTL
<1> QED
  BY <1>1, <1>2, <1>3

LEMMA SafeStutter ==
  ASSUME HeapInv, UNCHANGED vars
  PROVE  HeapInv'
<1>1. StructInv' /\ StructInv /\ Colours /\ Memory
  BY HeapInvParts, StructStutter
<1>2. UNCHANGED <<tableVars, next_fresh, mem, ptr_bits, stack, mark_bits, grey, pc, sweep_at>>
  BY DEF vars, allocVars, gcVars
<1>3. /\ Objects' = Objects /\ Marked' = Marked /\ Heads' = Heads /\ Survivors' = Survivors
      /\ \A p : TargetOf(p)' = TargetOf(p)
      /\ \A o : PtrWords(o)' = PtrWords(o)
      /\ \A h : RunWords(h)' = RunWords(h)
      /\ Targets(StackVals)' = Targets(StackVals)
  BY <1>2, SameMemory DEF Marked, Heads, Survivors, PtrWords, Targets, StackVals
<1>4. Colours'
  <2>1. \A o : Targets({mem[w] : w \in PtrWords(o)})' = Targets({mem[w] : w \in PtrWords(o)})
    BY <1>2, <1>3 DEF Targets
  <2> QED
    BY <1>1, <1>2, <1>3, <2>1 DEF Colours, MarksOnObjects, TriColour, Idle
<1>5. Memory'
  BY <1>1, <1>2, <1>3, SameMemory DEF Memory, UnusedIsZero, NoScanHasNoPointers, Closed, Dangling
<1>6. (HeapInv <=> StructInv /\ Colours /\ Memory)'
  BY HeapInvParts, PTL
<1> QED
  BY <1>1, <1>4, <1>5, <1>6

LEMMA SafeInit == Init => HeapInv
<1> SUFFICES ASSUME Init PROVE HeapInv
  OBVIOUS
<1>1. StructInv
  BY TypeInit, StructInit DEF StructInv
<1>2. /\ \A i \in Spans : span_state[i] = "free" /\ mark_bits[i] = {}
      /\ pc = "run" /\ grey = {} /\ noscan = {}
      /\ \A w \in Words : mem[w] = Null
      /\ \A r \in PtrVars \cup IntVars : stack[r] = Null
  BY DEF Init
<1>3. Objects = {} /\ Heads = {}
  BY <1>2 DEF Objects, SmallObjects, LargeObjects, Heads, Words
<1>4. Colours
  BY <1>2, <1>3 DEF Colours, MarksOnObjects, TriColour
<1>5. StackKept /\ HeapKept
  BY <1>2, <1>3 DEF StackKept, HeapKept, Dangling
<1>6. Memory
  BY <1>1, <1>2, <1>5, ClosedOutsideSweep DEF Memory, UnusedIsZero, NoScanHasNoPointers
<1> QED
  BY <1>1, <1>4, <1>6, HeapInvParts

\* The collector's argument holds in every state, for every heap, every table
\* of size classes and every program (ubel_gc_collect, gc_slot, gc_alloc_large).
THEOREM HeapInvariant == Spec => []HeapInv
<1>1. HeapInv /\ [Next]_vars => HeapInv'
  BY SafeNext, SafeStutter
<1> QED
  BY SafeInit, <1>1, PTL DEF Spec

\* No collection ever frees what the program can reach: no pointer of the
\* program, nor of an object, refers to freed memory.
THEOREM NothingDangles == Spec => []NoDangling
<1>1. HeapInv => NoDangling
  <2> SUFFICES ASSUME HeapInv PROVE NoDangling
    OBVIOUS
  <2>1. Closed
    BY DEF HeapInv
  <2>2. Idle => Survivors = Objects
    BY DEF Idle, Survivors
  <2> QED
    BY <2>1, <2>2 DEF Closed, NoDangling
<1> QED
  BY <1>1, HeapInvariant, PTL

\* While marking, nothing black points at anything white (mark_ptr, scan_object).
THEOREM NothingBlackPointsAtWhite == Spec => []TriColour
<1>1. HeapInv => TriColour
  BY DEF HeapInv
<1> QED
  BY <1>1, HeapInvariant, PTL

\* Every collection starts from a heap without marks, whatever the last one and
\* the allocations since have done (sweep, new_span, gc_alloc_large).
THEOREM StartsWhite == Spec => []MarksClear
<1>1. HeapInv => MarksClear
  <2> SUFFICES ASSUME HeapInv, Idle, NEW o \in Objects PROVE o[2] \notin mark_bits[o[1]]
    BY DEF MarksClear
  <2>1. Marked = {}
    BY HeapInvParts, IdleIsWhite DEF Colours
  <2> QED
    BY <2>1 DEF Marked
<1> QED
  BY <1>1, HeapInvariant, PTL

LEMMA SweepSteps ==
  ASSUME HeapInv, StructInv', Sweep
  PROVE  \/ pc' = "sweep" /\ UNCHANGED <<mem, ptr_bits, stack>> /\ SweepTakes
         \/ FinishSweep
<1>1. ASSUME NEW i \in Spans, SweepCont(i) \/ SweepFree(i) \/ SweepLarge(i) \/ SweepSmall(i)
      PROVE  pc' = "sweep" /\ UNCHANGED <<mem, ptr_bits, stack>> /\ SweepTakes
  <2>1. Sweeping(i)
    BY <1>1 DEF SweepCont, SweepFree, SweepLarge, SweepSmall
  <2>2. pc' = "sweep" /\ UNCHANGED <<mem, ptr_bits, stack>>
    BY <2>1 DEF Sweeping
  <2> QED
    BY <1>1, <2>2, SafeSweepOther, SafeSweepLarge, SafeSweepSmall
<1> QED
  BY <1>1 DEF Sweep

\* Whatever hands out memory (a fresh span, a swept slot, a span that was part
\* of a large object, a reused run), every word of a new object is zero: what
\* needzero and the fresh flag leave uncleared was never written (gc_slot,
\* gc_alloc_large).
THEOREM NewMemoryIsZero == Spec => NewObjectsAreZero
<1>1. HeapInv /\ [Next]_vars => [NewIsZero]_vars
  <2> SUFFICES ASSUME HeapInv, Next PROVE NewIsZero
    OBVIOUS
  <2>1. CASE Program \/ Mark \/ Aborted
    <3>1. UNCHANGED <<tableVars, next_fresh>>
      BY <2>1 DEF Program, Mark, Aborted, Drop, PointInto, Load, Store, StoreInt, SetInt, Request,
         RequestTooLarge, Collect, BeginMark, BeginSweep, StartSweep, ScanObject, SetMinTrigger,
         SetStress, heapUnchanged, vars, allocVars
    <3> QED
      BY <3>1, SameMemory DEF NewIsZero
  <2>2. CASE Sweep
    <3>1. Objects' \subseteq Objects
      <4>1. CASE FinishSweep
        <5>1. UNCHANGED <<tableVars, next_fresh>>
          BY <4>1 DEF FinishSweep, allocVars
        <5> QED
          BY <5>1, SameMemory
      <4>2. StructInv'
        BY HeapInvParts, StructNext
      <4> QED
        BY <2>2, <4>1, <4>2, SweepSteps DEF SweepTakes
    <3> QED
      BY <3>1 DEF NewIsZero
  <2>3. CASE Place
    <3>1. StructInv'
      BY HeapInvParts, StructNext
    <3>2. CASE Exhausted
      <4>1. UNCHANGED <<tableVars, next_fresh>>
        BY <3>2 DEF Exhausted, heapUnchanged, allocVars
      <4> QED
        BY <4>1, SameMemory DEF NewIsZero
    <3> QED
      BY <2>3, <3>1, <3>2, SafeTakeSlot, SafeTakePartial, SafeTakeSpan, SafeTakeRun DEF Place, Placed
  <2> QED
    BY <2>1, <2>2, <2>3 DEF Next
<1> QED
  BY <1>1, HeapInvariant, PTL DEF Spec, NewObjectsAreZero, NewIsZero

-----------------------------------------------------------------------------
(* What is in reach *)

LEMMA ReachClosed ==
  ASSUME StructInv, NEW V \in SUBSET Values
  PROVE  /\ Reach(V) \subseteq Objects /\ Targets(V) \subseteq Reach(V)
         /\ \A x \in Reach(V) : Targets({mem[w] : w \in PtrWords(x)}) \subseteq Reach(V)
<1>1. Reach(V) \subseteq Objects
  BY DEF Reach
<1>2. Targets(V) \subseteq Reach(V)
  BY TargetsAreObjects DEF Reach
<1>3. ASSUME NEW x \in Reach(V), NEW o \in Targets({mem[w] : w \in PtrWords(x)})
      PROVE  o \in Reach(V)
  <2>1. o \in Objects
    <3>1. {mem[w] : w \in PtrWords(x)} \in SUBSET Values
      BY <1>1, <1>3, WordsHeldType
    <3> QED
      BY <1>3, <3>1, TargetsAreObjects
  <2>2. ASSUME NEW S \in SUBSET Objects, Targets(V) \subseteq S,
               \A y \in S : Targets({mem[w] : w \in PtrWords(y)}) \subseteq S
        PROVE  o \in S
    <3>1. x \in S
      BY <1>3, <2>2 DEF Reach
    <3> QED
      BY <1>3, <2>2, <3>1
  <2> QED
    BY <2>1, <2>2 DEF Reach
<1> QED
  BY <1>1, <1>2, <1>3

LEMMA ReachLeast ==
  ASSUME NEW V, NEW S \in SUBSET Objects, Targets(V) \subseteq S,
         \A x \in S : Targets({mem[w] : w \in PtrWords(x)}) \subseteq S
  PROVE  Reach(V) \subseteq S
BY DEF Reach

\* Reach, in the terms of this module.
Children(o)  == Targets({mem[w] : w \in PtrWords(o)})
ClosedSet(S) == Targets(StackVals) \subseteq S /\ \A x \in S : Children(x) \subseteq S
ReachIsLeast ==
  Reach(StackVals) = {o \in Objects : \A S \in SUBSET Objects : ClosedSet(S) => o \in S}

LEMMA ReachIs == ReachIsLeast
BY DEF ReachIsLeast, Reach, ClosedSet, Children

LEMMA ReachIsNext == ReachIsLeast'
BY ReachIs, PTL

LEMMA SameReach ==
  ASSUME UNCHANGED <<tableVars, next_fresh, mem, ptr_bits, stack>>
  PROVE  Reach(StackVals)' = Reach(StackVals)
<1>1. /\ Objects' = Objects /\ Targets(StackVals)' = Targets(StackVals)
      /\ \A o : Children(o)' = Children(o)
  BY SameMemory DEF Children, Targets, StackVals, PtrWords
<1>2. \A S : ClosedSet(S)' <=> ClosedSet(S)
  BY <1>1 DEF ClosedSet
<1> QED
  BY <1>1, <1>2, ReachIs, ReachIsNext DEF ReachIsLeast

\* Marking stays in reach: an object is marked because the stack, or an object
\* in reach, points at it.
LEMMA ReachedMark ==
  ASSUME HeapInv, OnlyReached, Mark \/ (BeginMark /\ pc = "run")
  PROVE  OnlyReached'
<1>1. StructInv /\ Colours /\ Memory
  BY HeapInvParts
<1>2. StackVals \in SUBSET Values
  BY <1>1 DEF StackVals, StructInv, TypeInv, TypeOK
<1>3. CASE BeginMark /\ pc = "run"
  <2>1. /\ GreyFrom(StackVals, grey) /\ pc' = "mark"
        /\ UNCHANGED <<tableVars, next_fresh, mem, ptr_bits, stack>>
    BY <1>3 DEF BeginMark, allocVars
  <2>2. Marked' = Targets(StackVals)
    BY <1>1, <1>2, <1>3, <2>1, NewlyMarked, IdleIsWhite DEF Colours, Idle
  <2> QED
    BY <1>1, <1>2, <2>1, <2>2, SameReach, ReachClosed DEF OnlyReached
<1>4. CASE \E o \in Words : ScanObject(o)
  <2>1. PICK o \in Words : ScanObject(o)
    BY <1>4
  <2> DEFINE V == {mem[w] : w \in PtrWords(o)}
  <2>2. /\ GreyFrom(V, grey \ {o}) /\ pc = "mark" /\ pc' = "mark" /\ o \in grey
        /\ UNCHANGED <<tableVars, next_fresh, mem, ptr_bits, stack>>
    BY <2>1 DEF ScanObject, allocVars
  <2>3. o \in Marked /\ o \in Objects
    BY <1>1, <2>2 DEF Colours, TriColour, Marked
  <2>4. V \in SUBSET Values
    BY <1>1, <2>3, WordsHeldType
  <2>5. Targets(V) \subseteq Reach(StackVals)
    BY <1>1, <1>2, <2>2, <2>3, ReachClosed DEF OnlyReached
  <2> HIDE DEF V
  <2>6. Marked' = Marked \cup Targets(V)
    BY <1>1, <2>2, <2>4, NewlyMarked
  <2> QED
    BY <2>2, <2>5, <2>6, SameReach DEF OnlyReached
<1>5. CASE BeginSweep
  <2>1. /\ pc = "mark" /\ pc' = "sweep" /\ sweep_at' = 0
        /\ UNCHANGED <<tableVars, next_fresh, mem, ptr_bits, stack, mark_bits>>
    BY <1>5 DEF BeginSweep, StartSweep
  <2>2. Objects' = Objects /\ Marked' = Marked
    BY <2>1, SameMemory DEF Marked
  <2>3. Survivors' \subseteq Marked
    <3>1. \A o \in Objects : ~(o[1] < 0)
      BY <1>1, ObjectsInUse DEF ObjectsBelow
    <3> QED
      BY <2>1, <2>2, <3>1 DEF Survivors
  <2> QED
    BY <2>1, <2>3, SameReach DEF OnlyReached
<1> QED
  BY <1>3, <1>4, <1>5 DEF Mark

\* Sweeping takes nothing out of reach that was in reach: a way from the stack
\* to an object leads through objects that survive.
LEMMA ReachedSweep ==
  ASSUME HeapInv, StructInv', OnlyReached, pc = "sweep", pc' = "sweep", SweepTakes,
         UNCHANGED <<mem, ptr_bits, stack>>
  PROVE  OnlyReached'
<1>1. StructInv /\ Closed /\ Survivors \subseteq Reach(StackVals)
  BY HeapInvParts DEF Memory, OnlyReached
<1>2. /\ Survivors' = Survivors /\ Survivors \subseteq Objects' /\ Objects' \subseteq Objects
      /\ \A o \in Objects' : WordsOf(o)' = WordsOf(o) /\ PtrWords(o)' = PtrWords(o)
  BY DEF SweepTakes, Survivors
<1>3. ASSUME NEW p \in Values, TargetOf(p) \subseteq Survivors
      PROVE  TargetOf(p)' = TargetOf(p)
  <2>1. TargetOf(p) \cap Objects' = TargetOf(p)' \cap Objects
    BY <1>1, <1>2, TargetsKept
  <2>2. TargetOf(p)' \subseteq Objects'
    BY OwnersNext DEF TargetIsOwner, Values
  <2> QED
    BY <1>2, <1>3, <2>1, <2>2
<1>4. ASSUME NEW V \in SUBSET Values, Targets(V) \subseteq Survivors
      PROVE  UNION {TargetOf(p)' : p \in V} = Targets(V)
  <2>1. \A p \in V : TargetOf(p)' = TargetOf(p)
    BY <1>3, <1>4 DEF Targets
  <2> QED
    BY <2>1 DEF Targets
<1>5. Targets(StackVals)' = Targets(StackVals) /\ Targets(StackVals) \subseteq Survivors
  <2>1. /\ StackVals \in SUBSET Values
        /\ StackVals' = StackVals
    <3>1. stack \in [PtrVars \cup IntVars -> Values] /\ stack' = stack
      BY <1>1 DEF StructInv, TypeInv, TypeOK
    <3> QED
      BY <3>1 DEF StackVals
  <2>2. Targets(StackVals) \subseteq Survivors
    BY <1>1 DEF Closed
  <2>3. Targets(StackVals)' = UNION {TargetOf(p)' : p \in StackVals}
    BY <2>1 DEF Targets
  <2> QED
    BY <1>4, <2>1, <2>2, <2>3
<1>6. ASSUME NEW x \in Survivors
      PROVE  /\ Targets({mem[w] : w \in PtrWords(x)})' = Targets({mem[w] : w \in PtrWords(x)})
             /\ Targets({mem[w] : w \in PtrWords(x)}) \subseteq Survivors
  <2> DEFINE V == {mem[w] : w \in PtrWords(x)}
  <2>1. V \in SUBSET Values
    BY <1>1, WordsHeldType DEF Survivors
  <2>2. Targets(V) \subseteq Survivors
    BY <1>1 DEF Closed, Targets
  <2>3. V' = V
    BY <1>2
  <2>4. Targets(V)' = UNION {TargetOf(p)' : p \in V}
    BY <2>3 DEF Targets
  <2> QED
    BY <1>4, <2>1, <2>2, <2>4
<1>7. ASSUME NEW S \in SUBSET Objects', Targets(StackVals)' \subseteq S,
             \A x \in S : Targets({mem[w] : w \in PtrWords(x)})' \subseteq S
      PROVE  Survivors \subseteq S
  <2>1. S \cap Survivors \in SUBSET Objects
    BY <1>2
  <2>2. Targets(StackVals) \subseteq S \cap Survivors
    BY <1>5, <1>7
  <2>3. \A x \in S \cap Survivors :
           Targets({mem[w] : w \in PtrWords(x)}) \subseteq S \cap Survivors
    BY <1>6, <1>7
  <2>4. Reach(StackVals) \subseteq S \cap Survivors
    BY <2>1, <2>2, <2>3, ReachLeast
  <2> QED
    BY <1>1, <2>4
<1>8. Survivors \subseteq Reach(StackVals)'
  BY <1>2, <1>7 DEF Reach
<1> QED
  BY <1>2, <1>8 DEF OnlyReached

\* The steps outside a collection, but for the one that begins it.
LEMMA OutsideCollection ==
  ASSUME HeapInv, Next
  PROVE  \/ pc' \notin {"mark", "sweep"}
         \/ Mark
         \/ BeginMark /\ pc = "run"
         \/ Sweep
<1>1. CASE Program
  BY <1>1 DEF Program, Drop, PointInto, Load, Store, StoreInt, SetInt, Request, RequestTooLarge,
              Collect, SetMinTrigger, SetStress
<1>2. CASE Place
  <2>1. CASE Exhausted
    BY <2>1 DEF Exhausted
  <2>2. CASE \E c \in Classes : TakeSlot(c) \/ TakePartial(c) \/ TakeFreeSpan(c) \/ TakeFreshSpan(c)
    BY <2>2 DEF TakeSlot, TakePartial, TakeFreeSpan, TakeFreshSpan, NewSpan, SmallRequest, Return
  <2>3. CASE \E n \in 1 .. NSpans : TakeFreeRun(n) \/ TakeFreshRun(n)
    BY <2>3 DEF TakeFreeRun, TakeFreshRun, NewRun, Return
  <2> QED
    BY <1>2, <2>1, <2>2, <2>3 DEF Place
<1>3. CASE Aborted
  BY <1>3 DEF Aborted, vars
<1> QED
  BY <1>1, <1>2, <1>3 DEF Next

LEMMA OnlyReachedInvariant == Spec => [](HeapInv /\ OnlyReached)
<1>1. Init => OnlyReached
  BY DEF Init, OnlyReached
<1>2. ASSUME HeapInv, OnlyReached, [Next]_vars PROVE OnlyReached'
  <2>1. StructInv'
    BY <1>2, HeapInvParts, StructNext, StructStutter
  <2>2. CASE Mark \/ (BeginMark /\ pc = "run")
    BY <1>2, <2>2, ReachedMark
  <2>3. CASE Sweep
    <3>1. pc = "sweep"
      BY <2>3 DEF Sweep, SweepCont, SweepFree, SweepLarge, SweepSmall, Sweeping, FinishSweep
    <3>2. CASE FinishSweep
      BY <3>2 DEF FinishSweep, OnlyReached
    <3> QED
      BY <1>2, <2>1, <2>3, <3>1, <3>2, SweepSteps, ReachedSweep
  <2>4. CASE UNCHANGED vars
    <3>1. UNCHANGED <<tableVars, next_fresh, mem, ptr_bits, stack, mark_bits, sweep_at, pc>>
      BY <2>4 DEF vars, allocVars, gcVars
    <3>2. Objects' = Objects /\ Marked' = Marked
      BY <3>1, SameMemory DEF Marked
    <3> QED
      BY <1>2, <3>1, <3>2, SameReach DEF OnlyReached, Survivors
  <2>5. CASE pc' \notin {"mark", "sweep"}
    BY <2>5 DEF OnlyReached
  <2>6. Next \/ UNCHANGED vars
    BY <1>2
  <2> QED
    BY <1>2, <2>2, <2>3, <2>4, <2>5, <2>6, OutsideCollection
<1> QED
  BY <1>1, <1>2, HeapInvariant, PTL DEF Spec

\* A collection frees exactly what no word of the stack leads to: when the mark
\* stack runs empty the marked objects are those in reach, and when the sweep
\* is over they are the objects there are (ubel_gc_collect).
THEOREM CollectsExactly == Spec => CollectExact
<1>1. ASSUME HeapInv, OnlyReached, Next
      PROVE  /\ pc = "mark" /\ pc' = "sweep" => Marked = Reach(StackVals)
             /\ pc = "sweep" /\ pc' # "sweep" => Objects = Reach(StackVals)
  <2>1. StructInv /\ Colours /\ Memory /\ StackVals \in SUBSET Values
    <3>1. StructInv /\ Colours /\ Memory
      BY <1>1, HeapInvParts
    <3>2. stack \in [PtrVars \cup IntVars -> Values]
      BY <3>1 DEF StructInv, TypeInv, TypeOK
    <3>3. StackVals \in SUBSET Values
      BY <3>2 DEF StackVals
    <3> QED
      BY <3>1, <3>3
  <2>2. ASSUME pc = "mark", pc' = "sweep" PROVE Marked = Reach(StackVals)
    <3>1. BeginSweep
      <4>1. ~Program
        BY <2>2 DEF Program, Drop, PointInto, Load, Store, StoreInt, SetInt, Request, RequestTooLarge,
                    Collect, SetMinTrigger, SetStress
      <4>2. ~Sweep
        BY <2>2 DEF Sweep, SweepCont, SweepFree, SweepLarge, SweepSmall, Sweeping, FinishSweep
      <4>3. ~Place /\ ~Aborted
        BY <2>2 DEF Place, TakeSlot, TakePartial, TakeFreeSpan, TakeFreshSpan, NewSpan, SmallRequest,
                    LargeRequest, TakeFreeRun, TakeFreshRun, Exhausted, Aborted
      <4>4. \A o \in Words : ~ScanObject(o)
        BY <2>2 DEF ScanObject
      <4> QED
        BY <1>1, <4>1, <4>2, <4>3, <4>4 DEF Next, Mark
    <3>2. grey = {} /\ Marked \subseteq Objects
      BY <3>1 DEF BeginSweep, Marked
    <3>3. Reach(StackVals) \subseteq Marked
      BY <2>1, <2>2, <3>2, ReachLeast DEF Colours, TriColour
    <3> QED
      BY <1>1, <2>2, <3>3 DEF OnlyReached
  <2>3. ASSUME pc = "sweep", pc' # "sweep" PROVE Objects = Reach(StackVals)
    <3>1. FinishSweep
      BY <1>1, <2>3 DEF Next, Program, Drop, PointInto, Load, Store, StoreInt, SetInt, Request,
         RequestTooLarge, Collect, SetMinTrigger, SetStress, Mark, ScanObject, BeginSweep, StartSweep,
         Sweep, SweepCont, SweepFree, SweepLarge, SweepSmall, Sweeping, Place, TakeSlot, TakePartial,
         TakeFreeSpan, TakeFreshSpan, NewSpan, SmallRequest, LargeRequest, TakeFreeRun, TakeFreshRun,
         Exhausted, Aborted
    <3>2. sweep_at = next_fresh
      BY <3>1 DEF FinishSweep
    <3>3. Survivors = Objects
      BY <2>1, <3>2, ObjectsInUse DEF ObjectsBelow, Survivors
    <3> QED
      BY <1>1, <2>1, <2>3, <3>3, ReachClosed DEF OnlyReached
  <2> QED
    BY <2>2, <2>3
<1>2. ASSUME HeapInv, OnlyReached, [Next]_vars
      PROVE  [/\ pc = "mark" /\ pc' = "sweep" => Marked = Reach(StackVals)
              /\ pc = "sweep" /\ pc' # "sweep" => Objects = Reach(StackVals)]_vars
  BY <1>1, <1>2
<1> QED
  BY <1>2, OnlyReachedInvariant, PTL DEF Spec, CollectExact

-----------------------------------------------------------------------------
(* The object a word refers to *)

\* It is the object that holds the word, if there is one.
ReferentIsOwner ==
  \A p \in Values : /\ Referent(p) \in Objects \cup {Null}
                    /\ \A o \in Objects : Referent(p) = o <=> p \in WordsOf(o)

LEMMA Referents == StructInv => ReferentIsOwner
<1> SUFFICES ASSUME StructInv, NEW p \in Values
             PROVE  /\ Referent(p) \in Objects \cup {Null}
                    /\ \A o \in Objects : Referent(p) = o <=> p \in WordsOf(o)
  BY DEF ReferentIsOwner
<1>1. TargetOf(p) = {o \in Objects : p \in WordsOf(o)} /\ WordsApart
  BY Owners DEF TargetIsOwner
<1>2. Null \notin Objects
  BY HeapAssumption DEF Objects, SmallObjects, LargeObjects
<1>3. CASE TargetOf(p) = {}
  BY <1>1, <1>2, <1>3 DEF Referent
<1>4. CASE TargetOf(p) # {}
  <2>1. PICK o : o \in TargetOf(p)
    BY <1>4
  <2>2. Referent(p) \in TargetOf(p)
    BY <2>1 DEF Referent
  <2> QED
    BY <1>1, <2>2 DEF WordsApart
<1> QED
  BY <1>3, <1>4

LEMMA ReferentsNext ==
  ASSUME StructInv'
  PROVE  ReferentIsOwner'
<1>1. (StructInv => ReferentIsOwner)'
  BY Referents, PTL
<1> QED
  BY <1>1

LEMMA ReferentOfNull == Referent(Null) = Null
BY DEF Referent, TargetOf

LEMMA NotDangling ==
  ASSUME StructInv, NEW p \in Values, ~Dangling(p)
  PROVE  p = Null \/ Referent(p) \in Objects
<1> SUFFICES ASSUME p # Null PROVE Referent(p) \in Objects
  OBVIOUS
<1>1. TargetOf(p) # {} /\ TargetOf(p) \subseteq Objects
  BY TargetIsObject DEF Dangling
<1> QED
  BY <1>1 DEF Referent

LEMMA NoneIsNoObject == Null \notin Objects
BY HeapAssumption DEF Objects, SmallObjects, LargeObjects

\* The fields of an object are the words the collector reads of it.
LEMMA FieldsScanned ==
  ASSUME HeapInv, NEW o \in Objects
  PROVE  /\ Fields(o) = PtrWords(o) /\ Fields(o) \subseteq WordsOf(o) /\ Fields(o) \subseteq Words
         /\ \A w \in Fields(o) : mem[w] \in Values
<1>1. StructInv /\ NoScanHasNoPointers
  BY HeapInvParts DEF Memory
<1>2. Fields(o) = PtrWords(o)
  BY <1>1 DEF Fields, PtrWords, NoScanHasNoPointers, WordsOf
<1> QED
  BY <1>1, <1>2, WordsHeldType

\* The graph of objects and the variables, before and after a step.
LEMMA Views ==
  /\ Graph = [o \in Objects |-> [w \in Fields(o) |-> Referent(mem[w])]]
  /\ Graph' = [o \in Objects' |-> [w \in Fields(o)' |-> Referent(mem[w])']]
  /\ Variables = [r \in PtrVars |-> Referent(stack[r])]
  /\ Variables' = [r \in PtrVars |-> Referent(stack[r])']
BY DEF Graph, Variables

LEMMA ViewsHeld ==
  ASSUME HeapInv, NEW r \in PtrVars
  PROVE  /\ stack[r] \in Values /\ ~Dangling(stack[r])
         /\ Variables[r] = Referent(stack[r])
         /\ Referent(stack[r]) \in Objects => Referent(stack[r]) \in Store_!Holds
<1>1. stack[r] \in Values /\ ~Dangling(stack[r])
  BY HeapInvParts DEF HeapInv, TypeOK, Memory, Closed
<1>2. Variables[r] = Referent(stack[r])
  BY DEF Variables
<1> QED
  BY <1>1, <1>2, NoneIsNoObject DEF Store_!Holds

-----------------------------------------------------------------------------
(* The program *)

\* A step that leaves the objects where they are does so with what words refer to.
LEMMA SameReferents ==
  ASSUME UNCHANGED <<tableVars, next_fresh>>
  PROVE  /\ Objects' = Objects /\ \A p : Referent(p)' = Referent(p)
         /\ ptr_bits' = ptr_bits => \A o : Fields(o)' = Fields(o)
<1>1. /\ Objects' = Objects
      /\ \A p : TargetOf(p)' = TargetOf(p)
      /\ \A o : WordsOf(o)' = WordsOf(o)
  BY SameMemory
<1>2. ASSUME NEW p PROVE Referent(p)' = Referent(p)
  <2>1. TargetOf(p)' = TargetOf(p)
    BY <1>1
  <2> QED
    BY <2>1 DEF Referent
<1>3. ptr_bits' = ptr_bits => \A o : Fields(o)' = Fields(o)
  BY <1>1 DEF Fields
<1> QED
  BY <1>1, <1>2, <1>3

LEMMA QuietMaps ==
  ASSUME UNCHANGED <<tableVars, next_fresh, mem, ptr_bits, stack>>
  PROVE  Graph' = Graph /\ Variables' = Variables
<1>1. \A w : Referent(mem[w])' = Referent(mem[w])
  BY SameReferents DEF Referent
<1>2. \A r : Referent(stack[r])' = Referent(stack[r])
  BY SameReferents DEF Referent
<1> QED
  BY <1>1, <1>2, SameReferents, Views

\* What the program holds, in the terms of the store.
LEMMA HeldIsHolds ==
  ASSUME HeapInv, NEW o \in Held
  PROVE  o \in Objects /\ o \in Store_!Holds
<1>1. PICK r \in PtrVars : o \in TargetOf(stack[r])
  BY DEF Held, Targets
<1>2. StructInv /\ stack[r] \in Values
  BY HeapInvParts, ViewsHeld
<1>3. o \in Objects /\ stack[r] \in WordsOf(o)
  BY <1>1, <1>2, TargetIsObject, WordOfTarget
<1>4. Referent(stack[r]) = o
  BY <1>2, <1>3, Referents DEF ReferentIsOwner
<1> QED
  BY <1>3, <1>4, ViewsHeld

\* A word put into a variable.
LEMMA AssignMaps ==
  ASSUME HeapInv, NEW r \in PtrVars, NEW v \in Values,
         UNCHANGED <<tableVars, next_fresh, mem, ptr_bits>>, stack' = [stack EXCEPT ![r] = v],
         Referent(v) \in Store_!Holds \cup {Null} \cup UNION {Store_!Refs(x) : x \in Store_!Holds}
  PROVE  Store_!Next
<1>1. \A w : Referent(mem[w])' = Referent(mem[w])
  BY SameReferents DEF Referent
<1>2. Graph' = Graph
  BY <1>1, SameReferents, Views
<1>3. Variables' = [Variables EXCEPT ![r] = Referent(v)]
  <2>1. stack \in [PtrVars \cup IntVars -> Values]
    BY DEF HeapInv, TypeOK
  <2>2. \A q \in PtrVars : stack'[q] = IF q = r THEN v ELSE stack[q]
    BY <2>1
  <2>3. \A q \in PtrVars : Referent(stack[q])' = IF q = r THEN Referent(v) ELSE Referent(stack[q])
    BY <2>2, SameReferents DEF Referent
  <2> QED
    BY <2>3, Views
<1>4. Referent(v) \in Words \cup {Null}
  BY HeapInvParts, Referents DEF ReferentIsOwner, Objects, SmallObjects, LargeObjects
<1> QED
  BY <1>2, <1>3, <1>4 DEF Store_!Next, Store_!Assign

\* A word put into a pointer word of an object.
LEMMA SetFieldMaps ==
  ASSUME HeapInv, NEW o \in Held, NEW w \in Fields(o), NEW v \in Values,
         UNCHANGED <<tableVars, next_fresh, stack, ptr_bits>>, mem' = [mem EXCEPT ![w] = v],
         Referent(v) \in Store_!Holds \cup {Null}
  PROVE  Store_!Next
<1>1. o \in Objects /\ o \in Store_!Holds
  BY HeldIsHolds
<1>2. Variables' = Variables
  BY SameReferents, Views
<1>3. w \in Words /\ \A x \in Objects : Fields(x) \subseteq Words /\ (w \in Fields(x) => x = o)
  BY <1>1, HeapInvParts, Owners, FieldsScanned DEF WordsApart
<1>4. \A x \in Objects : \A f \in Fields(x) :
         Referent(mem[f])' = IF x = o /\ f = w THEN Referent(v) ELSE Referent(mem[f])
  <2>1. mem \in [Words -> Values]
    BY DEF HeapInv, TypeOK
  <2>2. \A f \in Words : mem'[f] = IF f = w THEN v ELSE mem[f]
    BY <2>1
  <2> QED
    BY <1>3, <2>2, SameReferents DEF Referent
<1>5. Graph' = [Graph EXCEPT ![o][w] = Referent(v)]
  <2>1. Graph' = [x \in Objects |-> [f \in Fields(x) |-> Referent(mem[f])']]
    BY SameReferents, Views
  <2>2. \A x \in Objects \ {o} : Graph'[x] = Graph[x]
    BY <1>4, <2>1, Views
  <2>3. Graph'[o] = [Graph[o] EXCEPT ![w] = Referent(v)]
    BY <1>1, <1>4, <2>1, Views
  <2> QED
    BY <1>1, <2>1, <2>2, <2>3, Views
<1>6. Referent(v) \in Words \cup {Null}
  BY HeapInvParts, Referents DEF ReferentIsOwner, Objects, SmallObjects, LargeObjects
<1>7. o \in Store_!Alive /\ w \in DOMAIN Graph[o]
  BY <1>1, Views DEF Store_!Alive
<1>8. Store_!SetField(o, w, Referent(v))
  BY <1>1, <1>2, <1>5 DEF Store_!SetField
<1> QED
  BY <1>6, <1>7, <1>8 DEF Store_!Next

\* Nothing changes in the store.
Quiet == Graph' = Graph /\ Variables' = Variables

LEMMA StoreIntMaps ==
  ASSUME HeapInv, NEW n \in IntVals, StoreInt(n)
  PROVE  Quiet
<1>1. PICK w \in HeldDataWords : mem' = [mem EXCEPT ![w] = n]
  BY DEF StoreInt
<1>2. /\ UNCHANGED <<tableVars, next_fresh, stack, ptr_bits>>
      /\ mem \in [Words -> Values] /\ w \notin ptr_bits
  BY <1>1 DEF StoreInt, heapUnchanged, allocVars, HeapInv, TypeOK, HeldDataWords
<1>3. \A x \in Objects : \A f \in Fields(x) : Referent(mem[f])' = Referent(mem[f])
  <2>1. \A f \in Words : f # w => mem'[f] = mem[f]
    BY <1>1, <1>2
  <2>2. \A x \in Objects : \A f \in Fields(x) : f \in Words /\ f # w
    BY <1>2, FieldsScanned DEF Fields
  <2> QED
    BY <1>2, <2>1, <2>2, SameReferents DEF Referent
<1>4. \A r : Referent(stack[r])' = Referent(stack[r])
  BY <1>2, SameReferents DEF Referent
<1> QED
  BY <1>2, <1>3, <1>4, SameReferents, Views DEF Quiet

LEMMA SetIntMaps ==
  ASSUME HeapInv, NEW r \in IntVars, NEW n, SetInt(r, n)
  PROVE  Quiet
<1>1. /\ UNCHANGED <<tableVars, next_fresh, mem, ptr_bits>>
      /\ stack' = [stack EXCEPT ![r] = n] /\ stack \in [PtrVars \cup IntVars -> Values]
  BY DEF SetInt, heapUnchanged, allocVars, HeapInv, TypeOK
<1>2. \A q \in PtrVars : stack'[q] = stack[q]
  BY <1>1, ProgramAssumption
<1>3. \A q \in PtrVars : Referent(stack[q])' = Referent(stack[q])
  BY <1>1, <1>2, SameReferents DEF Referent
<1>4. \A w : Referent(mem[w])' = Referent(mem[w])
  BY <1>1, SameReferents DEF Referent
<1> QED
  BY <1>1, <1>3, <1>4, SameReferents, Views DEF Quiet

LEMMA ProgramDataMaps ==
  ASSUME HeapInv, NEW r \in PtrVars, Drop(r) \/ PointInto(r) \/ Load(r) \/ Store(stack[r]) \/ Store(Null)
  PROVE  Store_!Next
<1>1. StructInv /\ UNCHANGED <<tableVars, next_fresh, ptr_bits>>
  BY HeapInvParts DEF Drop, PointInto, Load, Store, heapUnchanged, allocVars
<1>2. CASE Drop(r)
  <2>1. stack' = [stack EXCEPT ![r] = Null] /\ mem' = mem /\ Null \in Values
    BY <1>2 DEF Drop, Values
  <2> QED
    BY <1>1, <2>1, ReferentOfNull, AssignMaps
<1>3. CASE PointInto(r)
  <2>1. mem' = mem
    BY <1>3 DEF PointInto
  <2>2. PICK o \in Held : \E w \in WordsOf(o) : stack' = [stack EXCEPT ![r] = w]
    BY <1>3 DEF PointInto
  <2>3. PICK w \in WordsOf(o) : stack' = [stack EXCEPT ![r] = w]
    BY <2>2
  <2>4. o \in Objects /\ o \in Store_!Holds
    BY HeldIsHolds
  <2>5. w \in Values /\ Referent(w) = o
    BY <1>1, <2>4, TargetOfWord, Referents DEF ReferentIsOwner, Values
  <2> QED
    BY <1>1, <2>1, <2>3, <2>4, <2>5, AssignMaps
<1>4. CASE Load(r)
  <2>1. mem' = mem
    BY <1>4 DEF Load
  <2>2. PICK w \in HeldPtrWords : stack' = [stack EXCEPT ![r] = mem[w]]
    BY <1>4 DEF Load
  <2>3. PICK o \in Held : w \in Fields(o)
    BY <2>2 DEF HeldPtrWords, Fields
  <2>4. o \in Objects /\ o \in Store_!Holds /\ mem[w] \in Values
    BY <2>3, HeldIsHolds, FieldsScanned
  <2>5. Referent(mem[w]) = Null \/ Referent(mem[w]) \in Store_!Refs(o)
    BY <2>3, <2>4, Views DEF Store_!Refs
  <2>6. Referent(mem[w]) \in Store_!Holds \cup {Null} \cup UNION {Store_!Refs(x) : x \in Store_!Holds}
    BY <2>4, <2>5
  <2> QED
    BY <1>1, <2>1, <2>2, <2>4, <2>6, AssignMaps
<1>5. ASSUME NEW v \in {stack[r], Null}, Store(v) PROVE Store_!Next
  <2>1. stack' = stack
    BY <1>5 DEF Store
  <2>2. PICK w \in HeldPtrWords : mem' = [mem EXCEPT ![w] = v]
    BY <1>5 DEF Store
  <2>3. PICK o \in Held : w \in Fields(o)
    BY <2>2 DEF HeldPtrWords, Fields
  <2>4. v \in Values /\ Referent(v) \in Store_!Holds \cup {Null}
    BY <1>1, <1>5, ReferentOfNull, ViewsHeld, NotDangling DEF Values
  <2> QED
    BY <1>1, <2>1, <2>2, <2>3, <2>4, SetFieldMaps
<1> QED
  BY <1>2, <1>3, <1>4, <1>5

-----------------------------------------------------------------------------
(* Sweeping *)

\* The sweep takes objects the store cannot reach, and the references to them.
LEMMA SweepMaps ==
  ASSUME HeapInv, HeapInv', SweepTakes, UNCHANGED <<mem, ptr_bits, stack>>
  PROVE  Store_!Next
<1> DEFINE S == Objects \ Objects'
<1>1. StructInv /\ StructInv' /\ Closed
  <2>1. (HeapInv => StructInv)'
    BY HeapInvParts, PTL
  <2> QED
    BY <2>1, HeapInvParts DEF Memory
<1>2. /\ Objects' \subseteq Objects /\ Survivors \subseteq Objects' /\ S \subseteq Objects
      /\ \A o \in Objects' : WordsOf(o)' = WordsOf(o) /\ Fields(o)' = Fields(o)
      /\ Objects \ S = Objects'
  BY DEF SweepTakes, Survivors, Fields
<1>3. ASSUME NEW p \in Values
      PROVE  Referent(p)' = IF Referent(p) \in S THEN Null ELSE Referent(p)
  <2>1. /\ Referent(p)' \in Objects' \cup {Null}
        /\ \A o \in Objects' : Referent(p)' = o <=> p \in WordsOf(o)'
    BY <1>1, ReferentsNext DEF ReferentIsOwner, Values
  <2>2. /\ Referent(p) \in Objects \cup {Null}
        /\ \A o \in Objects : Referent(p) = o <=> p \in WordsOf(o)
    BY <1>1, Referents DEF ReferentIsOwner
  <2> QED
    BY <1>2, <2>1, <2>2, NoneIsNoObject
<1>4. \A x \in Survivors : \A f \in Fields(x) :
         mem[f] \in Values /\ (Referent(mem[f]) = Null \/ Referent(mem[f]) \in Survivors)
  <2>1. ASSUME NEW x \in Survivors, NEW f \in Fields(x)
        PROVE  mem[f] \in Values /\ ~Dangling(mem[f]) /\ TargetOf(mem[f]) \subseteq Survivors
    BY <1>1, FieldsScanned DEF Survivors, Closed
  <2>2. ASSUME NEW p \in Values, ~Dangling(p), TargetOf(p) \subseteq Survivors
        PROVE  Referent(p) = Null \/ Referent(p) \in Survivors
    BY <2>2 DEF Referent, Dangling
  <2> QED
    BY <2>1, <2>2
<1>5. \A r \in PtrVars :
         stack[r] \in Values /\ (Referent(stack[r]) = Null \/ Referent(stack[r]) \in Survivors)
  <2>1. ASSUME NEW r \in PtrVars PROVE stack[r] \in Values /\ TargetOf(stack[r]) \subseteq Survivors
    BY <1>1, ViewsHeld DEF Closed, Targets, StackVals
  <2> QED
    BY <2>1 DEF Referent
<1>6. Variables' = Variables
  <2>1. ASSUME NEW r \in PtrVars PROVE Referent(stack[r])' = Referent(stack[r])
    <3>1. PICK p \in Values : p = stack[r]
      BY <1>5
    <3>2. Referent(p) \notin S
      BY <1>2, <1>5, <3>1, NoneIsNoObject
    <3>3. Referent(p)' = Referent(p)
      BY <1>3, <3>2
    <3> QED
      BY <3>1, <3>3 DEF Referent
  <2> QED
    BY <2>1, Views
<1>7. Graph' = [o \in Objects \ S |-> [f \in DOMAIN Graph[o] |->
                 IF Graph[o][f] \in S THEN Null ELSE Graph[o][f]]]
  <2>1. \A o \in Objects' : \A f \in Fields(o) :
           Referent(mem[f])' = IF Referent(mem[f]) \in S THEN Null ELSE Referent(mem[f])
    <3>1. \A o \in Objects' : \A f \in Fields(o) : mem[f] \in Values
      BY <1>2, FieldsScanned
    <3> QED
      BY <1>3, <3>1 DEF Referent
  <2> HIDE DEF S
  <2>2. \A o \in Objects' : DOMAIN Graph[o] = Fields(o) /\ \A f \in Fields(o) : Graph[o][f] = Referent(mem[f])
    BY <1>2, Views
  <2>3. Graph' = [o \in Objects' |-> [f \in Fields(o) |-> Referent(mem[f])']]
    BY <1>2, Views
  <2> QED
    BY <1>2, <2>1, <2>2, <2>3
<1>8. \A o \in S : o \notin Store_!Reachable
  <2>1. Survivors \subseteq Store_!Alive
    BY Views DEF Store_!Alive, Survivors
  <2>2. Store_!Holds \subseteq Survivors
    BY <1>5, Views DEF Store_!Holds
  <2>3. \A x \in Survivors : Store_!Refs(x) \subseteq Survivors
    BY <1>4, Views DEF Store_!Refs, Survivors
  <2>4. \A o \in S : o \notin Survivors
    BY <1>2
  <2> QED
    BY <2>1, <2>2, <2>3, <2>4 DEF Store_!Reachable
<1>9. Store_!Alive = Objects
  BY Views DEF Store_!Alive
<1> HIDE DEF S
<1>10. Store_!Reclaim(S)
  BY <1>6, <1>7, <1>8, <1>9 DEF Store_!Reclaim
<1> QED
  BY <1>2, <1>9, <1>10 DEF Store_!Next

-----------------------------------------------------------------------------
(* Allocation *)

\* What referred to an object still refers to it, and an empty field is empty.
LEMMA ReferentKept ==
  ASSUME StructInv, StructInv', OldKept, Objects \subseteq Objects',
         NEW p \in Values, ~Dangling(p)
  PROVE  Referent(p)' = Referent(p)
<1>1. /\ Referent(p)' \in Objects' \cup {Null}
      /\ \A o \in Objects' : Referent(p)' = o <=> p \in WordsOf(o)'
  BY ReferentsNext DEF ReferentIsOwner, Values
<1>2. /\ Referent(p) \in Objects \cup {Null}
      /\ \A o \in Objects : Referent(p) = o <=> p \in WordsOf(o)
  BY Referents DEF ReferentIsOwner
<1>3. CASE p = Null
  BY <1>3, ReferentOfNull DEF Referent, TargetOf
<1>4. CASE Referent(p) \in Objects
  BY <1>1, <1>2, <1>4 DEF OldKept
<1> QED
  BY <1>3, <1>4, NotDangling

\* The old objects and the variables other than r are as they were.
LEMMA OldMaps ==
  ASSUME HeapInv, HeapInv', OldKept, Objects \subseteq Objects', pc # "sweep"
  PROVE  /\ \A x \in Objects : Fields(x)' = Fields(x)
         /\ \A x \in Objects : \A f \in Fields(x) : Referent(mem[f])' = Referent(mem[f])
         /\ \A r \in PtrVars : stack'[r] = stack[r] => Referent(stack[r])' = Referent(stack[r])
<1>1. StructInv /\ StructInv' /\ HeapKept
  <2>1. (HeapInv => StructInv)'
    BY HeapInvParts, PTL
  <2> QED
    BY <2>1, HeapInvParts, ClosedOutsideSweep DEF Memory
<1>2. ASSUME NEW x \in Objects PROVE Fields(x)' = Fields(x)
  <2>1. WordsOf(x)' = WordsOf(x) /\ \A w \in WordsOf(x) : w \in ptr_bits' <=> w \in ptr_bits
    BY DEF OldKept
  <2> QED
    BY <2>1 DEF Fields
<1>3. ASSUME NEW x \in Objects, NEW f \in Fields(x) PROVE Referent(mem[f])' = Referent(mem[f])
  <2>1. mem[f] \in Values /\ ~Dangling(mem[f]) /\ f \in WordsOf(x)
    BY <1>1, FieldsScanned DEF HeapKept
  <2>2. mem'[f] = mem[f]
    BY <2>1 DEF OldKept
  <2>3. PICK p \in Values : p = mem[f] /\ ~Dangling(p)
    BY <2>1
  <2>4. Referent(p)' = Referent(p)
    BY <1>1, <2>3, ReferentKept
  <2> QED
    BY <2>2, <2>3, <2>4 DEF Referent
<1>4. ASSUME NEW r \in PtrVars, stack'[r] = stack[r] PROVE Referent(stack[r])' = Referent(stack[r])
  <2>1. PICK p \in Values : p = stack[r] /\ ~Dangling(p)
    BY ViewsHeld
  <2>2. Referent(p)' = Referent(p)
    BY <1>1, <2>1, ReferentKept
  <2> QED
    BY <1>4, <2>1, <2>2 DEF Referent
<1> QED
  BY <1>2, <1>3, <1>4

LEMMA PlacedMaps ==
  ASSUME HeapInv, HeapInv', Placed, pc = "alloc"
  PROVE  Store_!Next \/ Quiet
<1>1. NewIsZero /\ OldKept /\ Added
  BY DEF Placed
<1>2. CASE Objects' = Objects /\ stack' = stack
  <2>1. /\ \A x \in Objects : Fields(x)' = Fields(x)
        /\ \A x \in Objects : \A f \in Fields(x) : Referent(mem[f])' = Referent(mem[f])
        /\ \A r \in PtrVars : Referent(stack[r])' = Referent(stack[r])
    BY <1>1, <1>2, OldMaps
  <2> QED
    BY <1>2, <2>1, Views DEF Quiet
<1>3. CASE \E o \in Objects' : \E w \in WordsOf(o)' :
             /\ o \notin Objects /\ Objects' = Objects \cup {o}
             /\ stack' = [stack EXCEPT ![req[2]] = w]
  <2>1. PICK o \in Objects' : /\ o \notin Objects /\ Objects' = Objects \cup {o}
                              /\ \E w \in WordsOf(o)' : stack' = [stack EXCEPT ![req[2]] = w]
    BY <1>3
  <2>2. PICK w \in WordsOf(o)' : stack' = [stack EXCEPT ![req[2]] = w]
    BY <2>1
  <2>3. PICK r \in PtrVars : r = req[2] /\ stack \in [PtrVars \cup IntVars -> Values]
    BY DEF HeapInv, TypeOK, RequestKept
  <2>4. /\ \A x \in Objects : Fields(x)' = Fields(x)
        /\ \A x \in Objects : \A f \in Fields(x) : Referent(mem[f])' = Referent(mem[f])
        /\ \A q \in PtrVars : stack'[q] = stack[q] => Referent(stack[q])' = Referent(stack[q])
    BY <1>1, <2>1, OldMaps
  <2>5. o \in Words /\ Fields(o)' \subseteq WordsOf(o)' /\ Fields(o)' \subseteq Words
    <3>1. o \in Words
      BY DEF Objects, SmallObjects, LargeObjects, Words
    <3>2. ptr_bits' \subseteq Words
      BY DEF HeapInv, TypeOK, Words
    <3> QED
      BY <3>1, <3>2 DEF Fields
  <2>6. \A f \in Fields(o)' : Referent(mem[f])' = Null
    <3>1. \A f \in Fields(o)' : mem'[f] = Null
      BY <1>1, <2>1, <2>5 DEF NewIsZero
    <3>2. Referent(Null)' = Null
      BY DEF Referent, TargetOf
    <3> QED
      BY <3>1, <3>2 DEF Referent
  <2>7. Referent(w)' = o /\ stack'[r] = w /\ \A q \in PtrVars \ {r} : stack'[q] = stack[q]
    <3>1. StructInv'
      <4>1. (HeapInv => StructInv)'
        BY HeapInvParts, PTL
      <4> QED
        BY <4>1
    <3>2. stack'[r] = w /\ \A q \in PtrVars \ {r} : stack'[q] = stack[q]
      BY <2>2, <2>3
    <3>3. w \in Values
      <4>1. stack' \in [PtrVars \cup IntVars -> Values]
        BY DEF HeapInv, TypeOK, Values, Words
      <4> QED
        BY <2>3, <3>2, <4>1
    <3>4. \A p \in Values : \A x \in Objects' : Referent(p)' = x <=> p \in WordsOf(x)'
      BY <3>1, ReferentsNext DEF ReferentIsOwner, Values
    <3> QED
      BY <3>2, <3>3, <3>4
  <2>8. Variables' = [Variables EXCEPT ![r] = o]
    <3>1. \A q \in PtrVars : Referent(stack[q])' = IF q = r THEN o ELSE Referent(stack[q])
      <4>1. Referent(stack[r])' = o
        <5>1. stack'[r] = w /\ Referent(w)' = o
          BY <2>7
        <5> QED
          BY <5>1 DEF Referent
      <4>2. \A q \in PtrVars \ {r} : Referent(stack[q])' = Referent(stack[q])
        BY <2>4, <2>7
      <4> QED
        BY <4>1, <4>2
    <3> QED
      BY <3>1, Views
  <2>9. Graph' = [x \in Objects \cup {o} |-> IF x = o THEN [f \in Fields(o)' |-> Null] ELSE Graph[x]]
    <3>1. Graph' = [x \in Objects \cup {o} |-> [f \in Fields(x)' |-> Referent(mem[f])']]
      BY <2>1, Views
    <3>2. Graph'[o] = [f \in Fields(o)' |-> Null]
      BY <2>6, <3>1
    <3>3. \A x \in Objects : Graph'[x] = Graph[x]
      BY <2>1, <2>4, <3>1, Views
    <3> QED
      BY <2>1, <3>1, <3>2, <3>3
  <2>10. Store_!Alive = Objects
    BY Views DEF Store_!Alive
  <2>11. Store_!New(r, o, Fields(o)')
    BY <2>1, <2>8, <2>9, <2>10 DEF Store_!New
  <2> QED
    BY <2>3, <2>5, <2>11 DEF Store_!Next
<1> QED
  BY <1>1, <1>2, <1>3 DEF Added

-----------------------------------------------------------------------------
(* The refinement *)

LEMMA InitMaps == Init => Store_!Init
<1> SUFFICES ASSUME Init PROVE Store_!Init
  OBVIOUS
<1>1. Objects = {}
  BY DEF Init, Objects, SmallObjects, LargeObjects, Words
<1>2. Graph = << >>
  BY <1>1 DEF Graph
<1>3. \A r \in PtrVars : Referent(stack[r]) = Null
  BY ReferentOfNull DEF Init
<1> QED
  BY <1>2, <1>3, Views DEF Store_!Init

LEMMA StepMaps ==
  ASSUME HeapInv, HeapInv', Next
  PROVE  Store_!Next \/ Quiet
<1>1. StructInv'
  BY HeapInvParts, StructNext
<1>2. ASSUME UNCHANGED <<tableVars, next_fresh, mem, ptr_bits, stack>> PROVE Quiet
  BY <1>2, QuietMaps DEF Quiet
<1>3. CASE Program
  <2>1. ASSUME NEW r \in PtrVars, Drop(r) \/ PointInto(r) \/ Load(r) \/ Store(stack[r])
        PROVE  Store_!Next
    BY <2>1, ProgramDataMaps
  <2>2. CASE Store(Null)
    <3>1. PICK o \in Held : TRUE
      BY <2>2 DEF Store, HeldPtrWords
    <3>2. PICK r \in PtrVars : TRUE
      BY <3>1 DEF Held, Targets
    <3> QED
      BY <2>2, <3>2, ProgramDataMaps
  <2>3. ASSUME NEW n \in IntVals, StoreInt(n) \/ \E r \in IntVars : SetInt(r, n)
        PROVE  Quiet
    BY <2>3, StoreIntMaps, SetIntMaps
  <2>4. CASE \/ \E q \in Requests : RequestTooLarge(q) \/ \E r \in PtrVars : Request(q, r)
             \/ Collect
             \/ \E m \in MinTriggers : SetMinTrigger(m)
             \/ \E n \in StressLevels : SetStress(n)
    <3>1. UNCHANGED <<tableVars, next_fresh, mem, ptr_bits, stack>>
      BY <2>4 DEF RequestTooLarge, Request, Collect, BeginMark, SetMinTrigger, SetStress,
                  heapUnchanged, allocVars
    <3> QED
      BY <1>2, <3>1
  <2> QED
    BY <1>3, <2>1, <2>2, <2>3, <2>4 DEF Program
<1>4. CASE Mark \/ Aborted \/ FinishSweep \/ Exhausted
  <2>1. UNCHANGED <<tableVars, next_fresh, mem, ptr_bits, stack>>
    BY <1>4 DEF Mark, BeginSweep, StartSweep, ScanObject, Aborted, vars, FinishSweep, Exhausted,
                heapUnchanged, allocVars
  <2> QED
    BY <1>2, <2>1
<1>5. CASE Sweep
  BY <1>1, <1>4, <1>5, SweepSteps, SweepMaps
<1>6. CASE Place
  <2>1. CASE ~Exhausted
    <3>1. pc = "alloc"
      BY <1>6, <2>1 DEF Place, TakeSlot, TakePartial, TakeFreeSpan, TakeFreshSpan, NewSpan,
                        SmallRequest, TakeFreeRun, TakeFreshRun, LargeRequest
    <3>2. Placed
      BY <1>1, <1>6, <2>1, SafeTakeSlot, SafeTakePartial, SafeTakeSpan, SafeTakeRun DEF Place
    <3> QED
      BY <3>1, <3>2, PlacedMaps
  <2> QED
    BY <1>4, <2>1
<1> QED
  BY <1>3, <1>4, <1>5, <1>6 DEF Next

\* To the program the heap is a graph of objects that keep their contents as
\* long as a variable leads to them: neither marking nor sweeping nor the reuse
\* of slots and spans shows, but that unreachable objects go (ubel_gc_collect,
\* gc_slot, gc_alloc_large).
THEOREM CollectorIsAnObjectStore == Spec => ImplementsObjectStore
<1>1. ASSUME HeapInv, HeapInv', [Next]_vars PROVE [Store_!Next]_<<Graph, Variables>>
  <2>1. CASE UNCHANGED vars
    <3>1. UNCHANGED <<tableVars, next_fresh, mem, ptr_bits, stack>>
      BY <2>1 DEF vars, allocVars
    <3> QED
      BY <3>1, QuietMaps
  <2> QED
    BY <1>1, <2>1, StepMaps DEF Quiet
<1> QED
  BY <1>1, InitMaps, HeapInvariant, PTL DEF Spec, ImplementsObjectStore, Store_!Spec, Store_!svars

=============================================================================
