----------------------------- MODULE GcHeapProofs -----------------------------
(***************************************************************************)
(* Types, structure and accounting of GcHeap, for every size of heap,      *)
(* every table of size classes and every program: runs of large objects    *)
(* and the lists small slots are taken from stay in order and miss         *)
(* nothing, whatever the program allocates and whenever the collector runs.*)
(***************************************************************************)
EXTENDS GcHeap, FiniteSetTheorems, TLAPS

-----------------------------------------------------------------------------
(* Arithmetic of slots *)

LEMMA DivBound ==
  ASSUME NEW j \in Nat, NEW e \in Nat \ {0}
  PROVE  /\ j \div e \in Nat /\ j \div e <= j
         /\ (j \div e) * e <= j
OBVIOUS

LEMMA SlotStart ==
  ASSUME NEW k \in Nat, NEW n \in Nat, NEW e \in Nat \ {0}, k < n \div e
  PROVE  /\ k * e \in 0 .. n - 1
         /\ (k * e) \div e = k
<1>1. (n \div e) * e <= n
  BY DivBound
<1>2. k * e + e <= (n \div e) * e
  OBVIOUS
<1> QED
  BY <1>1, <1>2

LEMMA ElemType == \A c \in Classes : Elem[c] \in 1 .. SpanWords
BY HeapAssumption DEF Classes

LEMMA SpanType ==
  /\ NSpans \in Nat /\ SpanWords \in Nat /\ NSpans > 0 /\ SpanWords > 0
  /\ HeapWords \in Nat /\ 0 \in Offsets
BY HeapAssumption DEF HeapWords, Offsets

LEMMA NElemsType ==
  ASSUME NEW c \in Classes
  PROVE  /\ Elem[c] \in 1 .. SpanWords /\ SpanWords \div Elem[c] \in 0 .. SpanWords
         /\ \A j \in Offsets : j \div Elem[c] \in Offsets
<1>1. Elem[c] \in 1 .. SpanWords
  BY ElemType
<1> QED
  BY <1>1, DivBound, SpanType DEF Offsets

-----------------------------------------------------------------------------
(* Addresses and objects *)

\* What a span lookup finds is an object's name.
LEMMA TargetIsWord ==
  ASSUME TypeOK, NEW p \in Values
  PROVE  TargetOf(p) \subseteq Words
<1>1. CASE p = Null
  BY <1>1 DEF TargetOf
<1>2. CASE p # Null
  <2>1. p[1] \in Spans
    BY <1>2 DEF Values, Words
  <2>2. alloc_bits[p[1]] \subseteq Offsets /\ HeadOf(p[1]) \in Spans
    BY <2>1 DEF TypeOK, HeadOf
  <2>3. SmallTarget(p[1], p[2]) \subseteq Words
    BY <2>1, <2>2 DEF SmallTarget, Words
  <2>4. LargeTarget(p[1], p[2]) \subseteq Words
    BY <2>2, SpanType DEF LargeTarget, Words
  <2> QED
    BY <2>3, <2>4 DEF TargetOf
<1> QED
  BY <1>1, <1>2

LEMMA WordsOfAreWords ==
  ASSUME NEW o \in Words
  PROVE  WordsOf(o) \subseteq Words
BY DEF WordsOf, SlotWords, RunWords, Words

LEMMA TargetsAreWords ==
  ASSUME TypeOK, NEW V \in SUBSET Values
  PROVE  Targets(V) \subseteq Words
BY TargetIsWord DEF Targets

-----------------------------------------------------------------------------
(* The program *)

TypeInv == TypeOK /\ RequestKept

LEMMA TypeInit == Init => TypeInv
<1> SUFFICES ASSUME Init PROVE TypeOK /\ RequestKept
  BY DEF TypeInv
<1>1. 1 \in Classes
  BY HeapAssumption DEF Classes
<1>2. MinTriggers \subseteq Nat /\ StressLevels \subseteq Nat
  BY ProgramAssumption
<1> QED
  BY <1>1, <1>2, SpanType DEF Init, TypeOK, RequestKept, Spans, Values, NoReq, NoSpan

\* The values a program can put in a variable or in the heap are words.
LEMMA TypeProgramData ==
  ASSUME TypeInv,
         \/ \E r \in PtrVars : Drop(r) \/ PointInto(r) \/ Load(r) \/ Store(stack[r])
         \/ Store(Null)
         \/ \E n \in IntVals : StoreInt(n) \/ \E r \in IntVars : SetInt(r, n)
  PROVE  TypeInv'
<1>1. RequestKept'
  BY DEF TypeInv, RequestKept, Drop, PointInto, Load, Store, StoreInt, SetInt
<1>2. Null \in Values /\ IntVals \subseteq Values
  BY ProgramAssumption DEF Values
<1>3. Held \subseteq Words /\ HeldPtrWords \subseteq Words
  <2>1. {stack[r] : r \in PtrVars} \subseteq Values
    BY DEF TypeInv, TypeOK
  <2>2. Held \subseteq Words
    BY <2>1, TargetsAreWords DEF Held, TypeInv
  <2> QED
    BY <2>2, WordsOfAreWords DEF HeldPtrWords
<1>4. stack' \in [PtrVars \cup IntVars -> Values] /\ mem' \in [Words -> Values]
  <2> USE DEF TypeInv, TypeOK, heapUnchanged
  <2>1. CASE \E r \in PtrVars : Drop(r)
    BY <2>1, <1>2 DEF Drop
  <2>2. CASE \E r \in PtrVars : PointInto(r)
    BY <2>2, <1>3, WordsOfAreWords DEF PointInto, Values
  <2>3. CASE \E r \in PtrVars : Load(r)
    BY <2>3, <1>3 DEF Load
  <2>4. CASE (\E r \in PtrVars : Store(stack[r])) \/ Store(Null)
    BY <2>4, <1>2 DEF Store
  <2>5. CASE \E n \in IntVals : StoreInt(n) \/ \E r \in IntVars : SetInt(r, n)
    BY <2>5, <1>2 DEF StoreInt, SetInt
  <2> QED
    BY <2>1, <2>2, <2>3, <2>4, <2>5
<1>5. /\ UNCHANGED <<tableVars, allocVars, paceVars, knobVars, stress_skip, gcVars>>
      /\ UNCHANGED <<ptr_bits, pc, req>>
  BY DEF Drop, PointInto, Load, Store, StoreInt, SetInt, heapUnchanged
<1> QED
  BY <1>1, <1>4, <1>5 DEF TypeInv, TypeOK, tableVars, allocVars, paceVars, knobVars, gcVars

LEMMA TypeKnobs ==
  ASSUME TypeInv,
         \/ \E m \in MinTriggers : SetMinTrigger(m)
         \/ \E n \in StressLevels : SetStress(n)
         \/ \E q \in Requests : RequestTooLarge(q)
         \/ Exhausted \/ Aborted
  PROVE  TypeInv'
<1>1. MinTriggers \subseteq Nat /\ StressLevels \subseteq Nat
  BY ProgramAssumption
<1>2. RequestKept'
  BY DEF TypeInv, RequestKept, SetMinTrigger, SetStress, RequestTooLarge, Exhausted, Aborted, vars
<1>3. UNCHANGED <<tableVars, allocVars, mem, ptr_bits, stack, since_gc, last_live, req, gcVars>>
  BY DEF SetMinTrigger, SetStress, RequestTooLarge, Exhausted, Aborted, vars, heapUnchanged, paceVars
<1>4. /\ trigger_delta' \in Nat /\ min_trigger' \in Nat /\ stress_every' \in Nat
      /\ stress_skip' \in Nat /\ pc' \in {"run", "alloc", "mark", "sweep", "aborted"}
  <2>1. /\ trigger_delta \in Nat /\ min_trigger \in Nat /\ stress_every \in Nat /\ stress_skip \in Nat
        /\ last_live \in Nat /\ pc \in {"run", "alloc", "mark", "sweep", "aborted"}
    BY DEF TypeInv, TypeOK
  <2>2. ASSUME NEW m \in MinTriggers, SetMinTrigger(m)
        PROVE  /\ trigger_delta' \in Nat /\ min_trigger' \in Nat /\ stress_every' \in Nat
               /\ stress_skip' \in Nat /\ pc' \in {"run", "alloc", "mark", "sweep", "aborted"}
    BY <1>1, <2>1, <2>2 DEF SetMinTrigger, TriggerFor
  <2>3. ASSUME NEW n \in StressLevels, SetStress(n)
        PROVE  /\ trigger_delta' \in Nat /\ min_trigger' \in Nat /\ stress_every' \in Nat
               /\ stress_skip' \in Nat /\ pc' \in {"run", "alloc", "mark", "sweep", "aborted"}
    BY <1>1, <2>1, <2>3 DEF SetStress, TriggerFor
  <2>4. ASSUME \/ \E q \in Requests : RequestTooLarge(q)
               \/ Exhausted \/ Aborted
        PROVE  /\ UNCHANGED <<trigger_delta, min_trigger, stress_every, stress_skip>>
               /\ pc' = "aborted"
    BY <2>4 DEF RequestTooLarge, Exhausted, Aborted, vars, heapUnchanged, paceVars, knobVars
  <2> QED
    BY <2>1, <2>2, <2>3, <2>4
<1> QED
  BY <1>2, <1>3, <1>4 DEF TypeInv, TypeOK, tableVars, allocVars, gcVars

-----------------------------------------------------------------------------
(* The collector *)

LEMMA TypeGreyFrom ==
  ASSUME TypeInv, NEW V \in SUBSET Values, NEW g \in SUBSET Words, GreyFrom(V, g)
  PROVE  mark_bits' \in [Spans -> SUBSET Offsets] /\ grey' \subseteq Words
BY TargetsAreWords DEF GreyFrom, TypeInv, TypeOK

LEMMA TypeBeginMark ==
  ASSUME TypeInv, BeginMark, stress_skip' \in Nat, req' \in {NoReq} \cup (Requests \X PtrVars),
         req' # NoReq => req'[1].words <= HeapWords
  PROVE  TypeInv'
<1>1. StackVals \subseteq Values /\ grey \subseteq Words
  BY DEF StackVals, TypeInv, TypeOK
<1>2. mark_bits' \in [Spans -> SUBSET Offsets] /\ grey' \subseteq Words
  BY <1>1, TypeGreyFrom DEF BeginMark
<1> QED
  BY <1>2 DEF BeginMark, TypeInv, TypeOK, RequestKept, tableVars, allocVars, paceVars, knobVars

LEMMA TypeMark ==
  ASSUME TypeInv, Mark
  PROVE  TypeInv'
<1>1. CASE BeginSweep
  BY <1>1, SpanType DEF BeginSweep, StartSweep, ResetLists, TypeInv, TypeOK, RequestKept, tableVars, paceVars, knobVars, NoSpan
<1>2. CASE \E o \in Words : ScanObject(o)
  <2>1. PICK o \in Words : ScanObject(o)
    BY <1>2
  <2>2. {mem[w] : w \in PtrWords(o)} \subseteq Values /\ grey \ {o} \subseteq Words
    BY WordsOfAreWords DEF PtrWords, TypeInv, TypeOK
  <2>3. mark_bits' \in [Spans -> SUBSET Offsets] /\ grey' \subseteq Words
    BY <2>1, <2>2, TypeGreyFrom DEF ScanObject
  <2> QED
    BY <2>1, <2>3 DEF ScanObject, TypeInv, TypeOK, RequestKept, tableVars, allocVars, paceVars,
                      knobVars
<1> QED
  BY <1>1, <1>2 DEF Mark

LEMMA TypeSweeping ==
  ASSUME TypeInv, NEW i \in Spans, Sweeping(i),
         span_state' \in [Spans -> {"free", "small", "large", "cont"}],
         needzero' \subseteq Spans, freeindex' \in [Spans -> 0 .. SpanWords],
         alloc_bits' \in [Spans -> SUBSET Offsets], mark_bits' \in [Spans -> SUBSET Offsets],
         spans_in_use' \in Int, free_spans' \in Seq(Spans),
         partial' \in [Classes -> Seq(Spans)], live' \in Nat
  PROVE  TypeInv'
<1>1. sweep_at' \in 0 .. NSpans
  BY SpanType DEF Sweeping, TypeInv, TypeOK, Spans
<1> QED
  BY <1>1 DEF Sweeping, TypeInv, TypeOK, RequestKept, paceVars, knobVars

LEMMA AppendSpan ==
  ASSUME NEW s \in Seq(Spans), NEW i \in Spans
  PROVE  Append(s, i) \in Seq(Spans)
OBVIOUS

LEMMA TypeSweep ==
  ASSUME TypeInv, Sweep
  PROVE  TypeInv'
<1>1. CASE FinishSweep
  BY <1>1, SpanType DEF FinishSweep, TypeInv, TypeOK, RequestKept, tableVars, allocVars, knobVars,
                        TriggerFor
<1>2. ASSUME NEW i \in Spans, SweepCont(i) PROVE TypeInv'
  BY <1>2, TypeSweeping DEF SweepCont, TypeInv, TypeOK
<1>3. ASSUME NEW i \in Spans, SweepFree(i) PROVE TypeInv'
  <2>1. free_spans' \in Seq(Spans)
    BY <1>3 DEF SweepFree, TypeInv, TypeOK
  <2> QED
    BY <1>3, <2>1, TypeSweeping DEF SweepFree, TypeInv, TypeOK
<1>4. ASSUME NEW i \in Spans, SweepLarge(i) PROVE TypeInv'
  <2>1. /\ span_state' \in [Spans -> {"free", "small", "large", "cont"}]
        /\ mark_bits' \in [Spans -> SUBSET Offsets]
    BY <1>4 DEF SweepLarge, KeepRun, FreeRun, TypeInv, TypeOK
  <2>2. run_len[i] \in Nat
    BY SpanType DEF TypeInv, TypeOK
  <2>3. run_len[i] * SpanWords \in Nat
    BY <2>2, SpanType
  <2>4. spans_in_use' \in Int /\ live' \in Nat
    <3>1. KeepRun(i) \/ FreeRun(i)
      BY <1>4 DEF SweepLarge
    <3>2. spans_in_use \in Int /\ live \in Nat
      BY DEF TypeInv, TypeOK
    <3>3. CASE KeepRun(i)
      <4>1. spans_in_use' = spans_in_use /\ live' = live + run_len[i] * SpanWords
        BY <3>3 DEF KeepRun
      <4> QED
        BY <2>3, <3>2, <4>1
    <3>4. CASE FreeRun(i)
      <4>1. spans_in_use' = spans_in_use - run_len[i] /\ live' = live
        BY <3>4 DEF FreeRun
      <4> QED
        BY <2>2, <3>2, <4>1
    <3> QED
      BY <3>1, <3>3, <3>4
  <2>5. free_spans' \in Seq(Spans)
    <3>1. free_spans' = free_spans \/ free_spans' = Append(free_spans, i)
      BY <1>4 DEF SweepLarge, KeepRun, FreeRun
    <3>2. free_spans \in Seq(Spans)
      BY DEF TypeInv, TypeOK
    <3> QED
      BY <3>1, <3>2, AppendSpan
  <2> QED
    BY <1>4, <2>1, <2>4, <2>5, TypeSweeping DEF SweepLarge, KeepRun, FreeRun, TypeInv, TypeOK
<1>5. ASSUME NEW i \in Spans, SweepSmall(i) PROVE TypeInv'
  <2>1. /\ span_state' \in [Spans -> {"free", "small", "large", "cont"}]
        /\ mark_bits' \in [Spans -> SUBSET Offsets] /\ alloc_bits' \in [Spans -> SUBSET Offsets]
    BY <1>5 DEF SweepSmall, TypeInv, TypeOK
  <2>2. Cardinality(mark_bits[i]) * Elem[cls[i]] \in Nat
    <3>1. IsFiniteSet(Offsets)
      BY SpanType, FS_Interval DEF Offsets
    <3>2. mark_bits[i] \subseteq Offsets /\ cls[i] \in Classes
      BY DEF TypeInv, TypeOK
    <3>3. Cardinality(mark_bits[i]) \in Nat
      BY <3>1, <3>2, FS_Subset, FS_CardinalityType
    <3>4. Elem[cls[i]] \in Nat
      BY <3>2, ElemType
    <3> QED
      BY <3>3, <3>4
  <2>3. spans_in_use' \in Int /\ live' \in Nat
    <3> DEFINE marked == Cardinality(mark_bits[i]) * Elem[cls[i]]
    <3>1. marked \in Nat
      BY <2>2
    <3>2. \/ spans_in_use' = spans_in_use /\ live' = live + marked
          \/ spans_in_use' = spans_in_use - 1 /\ live' = live
      BY <1>5 DEF SweepSmall
    <3>3. spans_in_use \in Int /\ live \in Nat
      BY DEF TypeInv, TypeOK
    <3> HIDE DEF marked
    <3> QED
      BY <3>1, <3>2, <3>3
  <2>6. free_spans' \in Seq(Spans)
    <3>1. free_spans' = free_spans \/ free_spans' = Append(free_spans, i)
      BY <1>5 DEF SweepSmall
    <3>2. free_spans \in Seq(Spans)
      BY DEF TypeInv, TypeOK
    <3> QED
      BY <3>1, <3>2, AppendSpan
  <2>4. needzero' \subseteq Spans /\ freeindex' \in [Spans -> 0 .. SpanWords]
    <3>1. /\ needzero' = needzero \/ needzero' = needzero \cup {i}
          /\ freeindex' = freeindex \/ freeindex' = [freeindex EXCEPT ![i] = 0]
      BY <1>5 DEF SweepSmall
    <3>2. needzero \subseteq Spans /\ freeindex \in [Spans -> 0 .. SpanWords]
      BY DEF TypeInv, TypeOK
    <3>3. 0 \in 0 .. SpanWords
      BY SpanType
    <3> QED
      BY <3>1, <3>2, <3>3
  <2>5. partial' \in [Classes -> Seq(Spans)]
    <3> DEFINE c == cls[i]
               l == <<i>> \o partial[c]
    <3>1. partial \in [Classes -> Seq(Spans)] /\ c \in Classes
      BY DEF TypeInv, TypeOK
    <3>2. l \in Seq(Spans)
      BY <3>1
    <3>3. partial' = partial \/ partial' = [partial EXCEPT ![c] = l]
      BY <1>5 DEF SweepSmall
    <3> HIDE DEF c, l
    <3> QED
      BY <3>1, <3>2, <3>3
  <2> QED
    BY <1>5, <2>1, <2>3, <2>4, <2>5, <2>6, TypeSweeping DEF SweepSmall
<1> QED
  BY <1>1, <1>2, <1>3, <1>4, <1>5 DEF Sweep

-----------------------------------------------------------------------------
(* Allocation *)

\* What the allocation in progress asks for.
LEMMA RequestType ==
  ASSUME TypeInv, req # NoReq
  PROVE  /\ req[1] \in Requests /\ req[2] \in PtrVars
         /\ req[1].words \in 0 .. HeapWords
<1>1. req[1] \in Requests /\ req[2] \in PtrVars
  BY DEF TypeInv, TypeOK
<1>2. req[1].words \in Nat
  BY <1>1, ProgramAssumption
<1> QED
  BY <1>1, <1>2, SpanType DEF TypeInv, RequestKept

LEMMA TypeRequest ==
  ASSUME TypeInv, \/ \E q \in Requests, r \in PtrVars : Request(q, r)
                  \/ Collect
  PROVE  TypeInv'
<1>1. CASE Collect
  BY <1>1, TypeBeginMark DEF Collect, TypeInv, TypeOK, RequestKept
<1>2. ASSUME NEW q \in Requests, NEW r \in PtrVars, Request(q, r) PROVE TypeInv'
  <2>1. req' = <<q, r>> /\ q.words <= HeapWords
    BY <1>2 DEF Request
  <2>2. req' # NoReq /\ req' \in Requests \X PtrVars /\ req'[1].words <= HeapWords
    BY <2>1 DEF NoReq
  <2>3. stress_skip' \in Nat
    <3>1. stress_skip \in Nat
      BY DEF TypeInv, TypeOK
    <3> QED
      BY <1>2, <3>1 DEF Request, heapUnchanged
  <2>4. CASE BeginMark
    BY <2>2, <2>3, <2>4, TypeBeginMark
  <2>5. CASE /\ pc' = "alloc"
             /\ UNCHANGED <<tableVars, allocVars, paceVars, knobVars, gcVars, mem, ptr_bits, stack>>
    BY <2>2, <2>3, <2>5 DEF TypeInv, TypeOK, RequestKept, tableVars, allocVars, paceVars, knobVars,
                            gcVars
  <2> QED
    BY <1>2, <2>4, <2>5 DEF Request, heapUnchanged
<1> QED
  BY <1>1, <1>2

\* The start of a free slot of the current span, and the words of the slot.
LEMMA FreeSlotType ==
  ASSUME TypeInv, ClassListsSound, NEW c \in Classes, cur_span[c] \in Spans,
         NEW k \in FreeSlots(cur_span[c])
  PROVE  /\ k \in Offsets /\ k + 1 \in 0 .. SpanWords
         /\ <<cur_span[c], k * Elem[c]>> \in Words
         /\ SlotWords(cur_span[c], k) \subseteq Words
<1> DEFINE i == cur_span[c]
<1>1. cls[i] = c
  BY SpanType DEF ClassListsSound, NoSpan, Spans
<1>2. k \in freeindex[i] .. NElems(i) - 1 /\ freeindex[i] \in Nat
  BY SpanType DEF FreeSlots, TypeInv, TypeOK
<1>3. Elem[c] \in 1 .. SpanWords /\ NElems(i) \in 0 .. SpanWords
  BY <1>1, NElemsType DEF NElems
<1>4. k \in Nat /\ k < SpanWords \div Elem[c] /\ k < NElems(i)
  BY <1>1, <1>2, <1>3 DEF NElems
<1>5. k \in Offsets /\ k + 1 \in 0 .. SpanWords
  BY <1>3, <1>4, SpanType DEF Offsets
<1>6. k * Elem[c] \in Offsets
  BY <1>3, <1>4, SlotStart, SpanType DEF Offsets
<1>7. <<cur_span[c], k * Elem[c]>> \in Words
  BY <1>6 DEF Words
<1>8. SlotWords(cur_span[c], k) \subseteq Words
  <2> SUFFICES ASSUME NEW w \in SlotWords(cur_span[c], k) PROVE w \in Words
    OBVIOUS
  <2>1. PICK j \in Offsets : w = <<cur_span[c], j>>
    BY DEF SlotWords
  <2> QED
    BY <2>1 DEF Words
<1> QED
  BY <1>5, <1>7, <1>8

LEMMA TypeTakeSlot ==
  ASSUME TypeInv, ClassListsSound, NEW c \in Classes, TakeSlot(c)
  PROVE  TypeInv'
<1> DEFINE i == cur_span[c]
           e == Elem[c]
<1>1. i \in Spans /\ e \in Nat /\ req # NoReq
  <2>1. pc = "alloc" /\ i # NoSpan
    BY DEF TakeSlot, NoSlotIn, SmallRequest
  <2>2. i \in Spans \cup {NoSpan}
    BY DEF TypeInv, TypeOK
  <2>3. req # NoReq
    BY <2>1 DEF TypeInv, RequestKept
  <2> QED
    BY <2>1, <2>2, <2>3, ElemType
<1>2. PICK k \in Lowest(FreeSlots(i)) :
        /\ alloc_bits' = [alloc_bits EXCEPT ![i] = @ \cup {k}]
        /\ freeindex' = [freeindex EXCEPT ![i] = k + 1]
        /\ mem' = [w \in Words |-> IF i \in needzero /\ w \in SlotWords(i, k)
                                   THEN Null ELSE mem[w]]
        /\ ptr_bits' = (ptr_bits \ SlotWords(i, k)) \cup
                       {w \in SlotWords(i, k) : w[2] - k * e \in req[1].ptrs}
        /\ since_gc' = since_gc + e
        /\ Return(<<i, k * e>>)
  BY DEF TakeSlot
<1>3. /\ k \in Offsets /\ k + 1 \in 0 .. SpanWords
      /\ <<i, k * e>> \in Words /\ SlotWords(i, k) \subseteq Words
  BY <1>1, FreeSlotType DEF Lowest
<1>4. /\ alloc_bits' \in [Spans -> SUBSET Offsets] /\ freeindex' \in [Spans -> 0 .. SpanWords]
      /\ since_gc' \in Nat
  <2>1. /\ alloc_bits \in [Spans -> SUBSET Offsets] /\ freeindex \in [Spans -> 0 .. SpanWords]
        /\ since_gc \in Nat
    BY DEF TypeInv, TypeOK
  <2> HIDE DEF i, e
  <2> QED
    BY <1>1, <1>2, <1>3, <2>1
<1>6. mem' \in [Words -> Values] /\ ptr_bits' \subseteq Words
  BY <1>1, <1>2, <1>3 DEF TypeInv, TypeOK, Values
<1>5. stack' \in [PtrVars \cup IntVars -> Values] /\ pc' = "run" /\ req' = NoReq
  BY <1>2, <1>3 DEF Return, TypeInv, TypeOK, Values
<1> QED
  BY <1>4, <1>5, <1>6 DEF TakeSlot, TypeInv, TypeOK, RequestKept, allocVars, knobVars, gcVars, NoReq

LEMMA TypeTakePartial ==
  ASSUME TypeInv, NEW c \in Classes, TakePartial(c)
  PROVE  TypeInv'
<1>1. /\ partial[c] \in Seq(Spans) /\ partial[c] # <<>>
      /\ partial \in [Classes -> Seq(Spans)] /\ cur_span \in [Classes -> Spans \cup {NoSpan}]
  BY DEF TakePartial, TypeInv, TypeOK
<1>2. Head(partial[c]) \in Spans /\ Tail(partial[c]) \in Seq(Spans)
  BY <1>1
<1>3. /\ partial' \in [Classes -> Seq(Spans)] /\ cur_span' \in [Classes -> Spans \cup {NoSpan}]
  BY <1>1, <1>2 DEF TakePartial
<1>4. freeindex' \in [Spans -> 0 .. SpanWords]
  <2>1. \A i \in Spans : NElems(i) \in 0 .. SpanWords
    BY NElemsType DEF NElems, TypeInv, TypeOK
  <2> QED
    BY <2>1 DEF TakePartial, TypeInv, TypeOK
<1> QED
  BY <1>3, <1>4 DEF TakePartial, TypeInv, TypeOK, RequestKept, paceVars, knobVars, gcVars

LEMMA TypeNewSpan ==
  ASSUME TypeInv, NEW c \in Classes, NEW i \in Spans, NewSpan(c, i),
         needzero' \subseteq Spans, free_spans' \in Seq(Spans), next_fresh' \in 0 .. NSpans
  PROVE  TypeInv'
<1>1. freeindex' \in [Spans -> 0 .. SpanWords]
  <2>1. \A s \in Spans : NElems(s) \in 0 .. SpanWords
    BY NElemsType DEF NElems, TypeInv, TypeOK
  <2> QED
    BY <2>1, SpanType DEF NewSpan, TypeInv, TypeOK
<1>2. /\ span_state' \in [Spans -> {"free", "small", "large", "cont"}]
      /\ cls' \in [Spans -> Classes] /\ alloc_bits' \in [Spans -> SUBSET Offsets]
      /\ mark_bits' \in [Spans -> SUBSET Offsets] /\ spans_in_use' \in Int
      /\ cur_span' \in [Classes -> Spans \cup {NoSpan}]
  BY DEF NewSpan, TypeInv, TypeOK
<1> QED
  BY <1>1, <1>2 DEF NewSpan, TypeInv, TypeOK, RequestKept, paceVars, knobVars

LEMMA TypeTakeSpan ==
  ASSUME TypeInv, NEW c \in Classes, TakeFreeSpan(c) \/ TakeFreshSpan(c)
  PROVE  TypeInv'
<1>1. CASE TakeFreeSpan(c)
  <2>1. PICK j \in DOMAIN free_spans :
          /\ NewSpan(c, free_spans[j])
          /\ free_spans' = SubSeq(free_spans, 1, j - 1)
          /\ needzero' = needzero \cup {free_spans[j]}
          /\ next_fresh' = next_fresh
    BY <1>1 DEF TakeFreeSpan, Highest, FreeEntries
  <2>2. free_spans \in Seq(Spans) /\ needzero \subseteq Spans /\ next_fresh \in 0 .. NSpans
    BY DEF TypeInv, TypeOK
  <2>3. j \in 1 .. Len(free_spans) /\ free_spans[j] \in Spans
    BY <2>2
  <2>4. SubSeq(free_spans, 1, j - 1) \in Seq(Spans)
    BY <2>2, <2>3
  <2> QED
    BY <2>1, <2>2, <2>3, <2>4, TypeNewSpan
<1>2. CASE TakeFreshSpan(c)
  <2>1. next_fresh \in Spans /\ next_fresh + 1 \in 0 .. NSpans
    BY <1>2, SpanType DEF TakeFreshSpan, TypeInv, TypeOK, Spans
  <2>2. /\ needzero' \subseteq Spans /\ free_spans' \in Seq(Spans) /\ next_fresh' \in 0 .. NSpans
        /\ NewSpan(c, next_fresh)
    BY <1>2, <2>1 DEF TakeFreshSpan, TypeInv, TypeOK
  <2> QED
    BY <2>1, <2>2, TypeNewSpan
<1> QED
  BY <1>1, <1>2

LEMMA TypeNewRun ==
  ASSUME TypeInv, NEW n \in 1 .. NSpans, LargeRequest(n),
         NEW h \in Spans, h + n <= NSpans, NEW zero \in BOOLEAN, NewRun(h, n, zero),
         next_fresh' \in 0 .. NSpans
  PROVE  TypeInv'
<1> DEFINE q    == req[1]
           used == {w \in Words : /\ w[1] \in h .. h + n - 1
                                  /\ (w[1] - h) * SpanWords + w[2] < q.words}
<1>1. req # NoReq
  BY DEF LargeRequest, TypeInv, RequestKept
<1>2. q.words \in 0 .. HeapWords /\ n \in Nat /\ n * SpanWords \in Nat
  BY <1>1, RequestType, SpanType
<1>3. /\ span_state' \in [Spans -> {"free", "small", "large", "cont"}]
      /\ head_idx' \in [Spans -> Spans]
  BY DEF NewRun, TypeInv, TypeOK
<1>4. needzero' \subseteq Spans /\ noscan' \subseteq Spans
  BY DEF NewRun, TypeInv, TypeOK
<1>5. run_len' \in [Spans -> 0 .. NSpans] /\ obj_words' \in [Spans -> 0 .. HeapWords]
  BY <1>2, SpanType DEF NewRun, TypeInv, TypeOK
<1>6. mark_bits' \in [Spans -> SUBSET Offsets] /\ spans_in_use' \in Int /\ since_gc' \in Nat
  <2>1. mark_bits \in [Spans -> SUBSET Offsets] /\ spans_in_use \in Int /\ since_gc \in Nat
    BY DEF TypeInv, TypeOK
  <2>2. /\ mark_bits' = [mark_bits EXCEPT ![h] = {}]
        /\ spans_in_use' = spans_in_use + n /\ since_gc' = since_gc + n * SpanWords
    BY DEF NewRun
  <2>3. mark_bits' \in [Spans -> SUBSET Offsets]
    BY <2>1, <2>2
  <2> QED
    BY <1>2, <2>1, <2>2, <2>3
<1>7. mem' \in [Words -> Values]
  <2>1. mem' = [w \in Words |-> IF zero /\ w \in used THEN Null ELSE mem[w]]
    BY DEF NewRun
  <2>2. mem \in [Words -> Values] /\ Null \in Values
    BY DEF TypeInv, TypeOK, Values
  <2> HIDE DEF used
  <2> QED
    BY <2>1, <2>2
<1>8. ptr_bits' \subseteq Words
  <2>1. ptr_bits' \subseteq ptr_bits \cup used
    BY DEF NewRun
  <2> QED
    BY <2>1 DEF TypeInv, TypeOK
<1>9. stack' \in [PtrVars \cup IntVars -> Values] /\ pc' = "run" /\ req' = NoReq
  BY SpanType DEF NewRun, Return, TypeInv, TypeOK, Values, Words
<1> QED
  BY <1>3, <1>4, <1>5, <1>6, <1>7, <1>8, <1>9
     DEF NewRun, TypeInv, TypeOK, RequestKept, knobVars, NoReq

\* A run of free spans lies in the heap.
LEMMA FreeRunType ==
  ASSUME TypeInv, NEW n \in 1 .. NSpans, NEW h \in FreeRuns(n)
  PROVE  /\ h \in Spans /\ h + n <= next_fresh /\ h + n <= NSpans
         /\ \A j \in h .. h + n - 1 : span_state[j] = "free"
<1>1. /\ h \in 0 .. next_fresh - n
      /\ \A j \in h .. h + n - 1 : span_state[j] = "free"
  BY DEF FreeRuns
<1>2. next_fresh \in 0 .. NSpans /\ NSpans \in Nat
  BY SpanType DEF TypeInv, TypeOK
<1> QED
  BY <1>1, <1>2 DEF Spans

LEMMA TypeTakeRun ==
  ASSUME TypeInv, NEW n \in 1 .. NSpans, TakeFreeRun(n) \/ TakeFreshRun(n)
  PROVE  TypeInv'
<1>1. next_fresh \in 0 .. NSpans
  BY DEF TypeInv, TypeOK
<1>2. CASE TakeFreeRun(n)
  <2>1. PICK h \in FreeRuns(n) : NewRun(h, n, TRUE)
    BY <1>2 DEF TakeFreeRun, Lowest
  <2>2. LargeRequest(n) /\ next_fresh' = next_fresh
    BY <1>2 DEF TakeFreeRun
  <2> QED
    BY <1>1, <2>1, <2>2, FreeRunType, TypeNewRun
<1>3. CASE TakeFreshRun(n)
  <2>1. /\ LargeRequest(n) /\ NewRun(next_fresh, n, FALSE)
        /\ next_fresh' = next_fresh + n /\ next_fresh + n <= NSpans
    BY <1>3 DEF TakeFreshRun
  <2>2. next_fresh \in Spans /\ next_fresh' \in 0 .. NSpans
    BY <1>1, <2>1, SpanType DEF Spans
  <2> QED
    BY <2>1, <2>2, TypeNewRun
<1> QED
  BY <1>2, <1>3

\* Every step keeps the types, as long as the class lists are sound.
LEMMA TypeNext ==
  ASSUME TypeInv, ClassListsSound, Next
  PROVE  TypeInv'
<1>1. CASE Program
  BY <1>1, TypeProgramData, TypeKnobs, TypeRequest DEF Program
<1>2. CASE Place
  BY <1>2, TypeTakeSlot, TypeTakePartial, TypeTakeSpan, TypeTakeRun, TypeKnobs DEF Place
<1> QED
  BY <1>1, <1>2, TypeMark, TypeSweep, TypeKnobs DEF Next

LEMMA TypeStutter ==
  ASSUME TypeInv, UNCHANGED vars
  PROVE  TypeInv'
BY DEF TypeInv, TypeOK, RequestKept, vars, tableVars, allocVars, paceVars, knobVars, gcVars

-----------------------------------------------------------------------------
(* Structure *)

StructInv == TypeInv /\ Structure

-----------------------------------------------------------------------------
(* Steps that leave the span table and its lists alone *)

LEMMA StructInit == Init => Structure
BY SpanType DEF Init, Structure, RunsWellFormed, ClassListsSound, TableInRange, SweepBehind, NoSpan

LEMMA StructFrame ==
  ASSUME Structure, UNCHANGED <<tableVars, next_fresh, free_spans, cur_span, partial, sweep_at>>,
         pc' = "sweep" => pc = "sweep",
         \A i \in Spans : span_state[i] = "small" => mark_bits'[i] \subseteq alloc_bits[i]
  PROVE  Structure'
BY DEF Structure, RunsWellFormed, ClassListsSound, TableInRange, SweepBehind, tableVars, NElems

LEMMA StructQuiet ==
  ASSUME StructInv, pc' # "sweep" \/ pc' = pc,
         UNCHANGED <<tableVars, next_fresh, free_spans, cur_span, partial, sweep_at, mark_bits>>
  PROVE  Structure'
<1>1. \A i \in Spans : span_state[i] = "small" => mark_bits'[i] \subseteq alloc_bits[i]
  BY DEF StructInv, Structure, TableInRange
<1> QED
  BY <1>1, StructFrame DEF StructInv

\* What is marked is allocated: mark_ptr tests the allocation bit first.
LEMMA StructGreyFrom ==
  ASSUME StructInv, NEW V \in SUBSET Values, NEW g, GreyFrom(V, g),
         NEW i \in Spans, span_state[i] = "small"
  PROVE  mark_bits'[i] \subseteq alloc_bits[i]
<1>1. ASSUME NEW k, <<i, k>> \in Targets(V) PROVE k \in alloc_bits[i]
  <2>1. PICK p \in V : <<i, k>> \in TargetOf(p)
    BY <1>1 DEF Targets
  <2>2. p # Null /\ span_state[p[1]] # "free"
    BY <2>1 DEF TargetOf
  <2>3. p[1] \in Spans
    BY <2>2 DEF Values, Words
  <2>4. CASE span_state[p[1]] = "small"
    BY <2>1, <2>2, <2>4 DEF TargetOf, SmallTarget
  <2>5. CASE span_state[p[1]] # "small"
    <3>1. HeadOf(p[1]) = i
      BY <2>1, <2>2, <2>5 DEF TargetOf, LargeTarget
    <3>2. span_state[i] = "large"
      BY <2>2, <2>3, <2>5, <3>1 DEF HeadOf, StructInv, TypeInv, TypeOK, Structure, RunsWellFormed
    <3> QED
      BY <3>2
  <2> QED
    BY <2>4, <2>5
<1>2. mark_bits[i] \subseteq alloc_bits[i]
  BY DEF StructInv, Structure, TableInRange
<1> QED
  BY <1>1, <1>2 DEF GreyFrom

LEMMA StructBeginMark ==
  ASSUME StructInv, BeginMark
  PROVE  Structure'
<1>1. StackVals \subseteq Values
  BY DEF StackVals, StructInv, TypeInv, TypeOK
<1>2. \A i \in Spans : span_state[i] = "small" => mark_bits'[i] \subseteq alloc_bits[i]
  BY <1>1, StructGreyFrom DEF BeginMark
<1> QED
  BY <1>2, StructFrame DEF BeginMark, StructInv, allocVars

LEMMA StructProgram ==
  ASSUME StructInv, Program
  PROVE  Structure'
<1>1. CASE BeginMark
  BY <1>1, StructBeginMark
<1>2. CASE /\ UNCHANGED <<tableVars, next_fresh, free_spans, cur_span, partial, sweep_at, mark_bits>>
           /\ pc' # "sweep" \/ pc' = pc
  BY <1>2, StructQuiet
<1> QED
  BY <1>1, <1>2 DEF Program, Drop, PointInto, Load, Store, StoreInt, SetInt, Request, RequestTooLarge,
         Collect, SetMinTrigger, SetStress, heapUnchanged, allocVars, gcVars

LEMMA StructMark ==
  ASSUME StructInv, Mark
  PROVE  Structure'
<1>1. CASE BeginSweep
  <2>1. UNCHANGED <<tableVars, next_fresh, mark_bits>> /\ sweep_at' = 0 /\ free_spans' = <<>>
    BY <1>1 DEF BeginSweep, StartSweep, ResetLists
  <2>2. \A c \in Classes : cur_span'[c] = NoSpan /\ partial'[c] = <<>>
    BY <1>1 DEF BeginSweep, StartSweep, ResetLists
  <2>3. next_fresh \in Nat
    BY SpanType DEF StructInv, TypeInv, TypeOK
  <2> QED
    BY <2>1, <2>2, <2>3 DEF StructInv, Structure, RunsWellFormed, ClassListsSound, TableInRange,
       SweepBehind, tableVars, NElems
<1>2. CASE \E o \in Words : ScanObject(o)
  <2>1. PICK o \in Words : ScanObject(o)
    BY <1>2
  <2>2. {mem[w] : w \in PtrWords(o)} \subseteq Values
    BY WordsOfAreWords DEF PtrWords, StructInv, TypeInv, TypeOK
  <2>3. \A i \in Spans : span_state[i] = "small" => mark_bits'[i] \subseteq alloc_bits[i]
    BY <2>1, <2>2, StructGreyFrom DEF ScanObject
  <2> QED
    BY <2>1, <2>3, StructFrame DEF ScanObject, StructInv, allocVars
<1> QED
  BY <1>1, <1>2 DEF Mark

-----------------------------------------------------------------------------
(* The sweep *)

LEMMA PartialType ==
  ASSUME TypeOK, NEW c \in Classes
  PROVE  /\ partial[c] \in Seq(Spans)
         /\ \A j \in DOMAIN partial[c] : partial[c][j] \in Spans
BY DEF TypeOK


LEMMA RunInHeap ==
  ASSUME TypeOK, RunsWellFormed, NEW h \in Spans, span_state[h] = "large"
  PROVE  /\ run_len[h] \in Nat \ {0} /\ h + run_len[h] <= next_fresh
         /\ \A j \in h .. h + run_len[h] - 1 :
              /\ j \in Spans /\ j < next_fresh
              /\ j = h \/ (span_state[j] = "cont" /\ head_idx[j] = h)
<1>1. h \in Nat /\ run_len[h] \in Nat /\ next_fresh \in 0 .. NSpans
  BY SpanType DEF TypeOK, Spans
<1>2. /\ run_len[h] > 0 /\ h + run_len[h] <= next_fresh
      /\ \A j \in h + 1 .. h + run_len[h] - 1 : span_state[j] = "cont" /\ head_idx[j] = h
  BY DEF RunsWellFormed
<1>3. ASSUME NEW j \in h .. h + run_len[h] - 1
      PROVE  j \in Spans /\ j < next_fresh /\ (j = h \/ j \in h + 1 .. h + run_len[h] - 1)
  BY <1>1, <1>2, SpanType DEF Spans
<1> QED
  BY <1>1, <1>2, <1>3

\* No span belongs to two runs.
LEMMA RunsDisjoint ==
  ASSUME TypeOK, RunsWellFormed, NEW g \in Spans, NEW h \in Spans,
         span_state[g] = "large", span_state[h] = "large",
         NEW j \in g .. g + run_len[g] - 1, j \in h .. h + run_len[h] - 1
  PROVE  g = h
BY RunInHeap

\* When run i goes free every other run stays whole.
LEMMA RunsWithout ==
  ASSUME TypeOK, RunsWellFormed, NEW i \in Spans, span_state[i] = "large",
         UNCHANGED <<run_len, head_idx, next_fresh>>,
         span_state' = [j \in Spans |-> IF j \in i .. i + run_len[i] - 1
                                       THEN "free" ELSE span_state[j]]
  PROVE  RunsWellFormed'
<1>1. ASSUME NEW h \in Spans, span_state'[h] = "large"
      PROVE  /\ run_len[h] > 0 /\ h + run_len[h] <= next_fresh
             /\ \A j \in h + 1 .. h + run_len[h] - 1 : span_state'[j] = "cont" /\ head_idx[j] = h
  <2>1. span_state[h] = "large" /\ h \notin i .. i + run_len[i] - 1
    BY <1>1
  <2>2. h # i
    BY <2>1, RunInHeap DEF Spans
  <2>3. ASSUME NEW j \in h + 1 .. h + run_len[h] - 1
        PROVE  span_state'[j] = "cont" /\ head_idx[j] = h
    <3>1. j \in h .. h + run_len[h] - 1
      BY <2>1, RunInHeap DEF Spans
    <3>2. j \in Spans /\ span_state[j] = "cont" /\ head_idx[j] = h
      BY <2>1, <3>1, RunInHeap DEF RunsWellFormed
    <3>3. j \notin i .. i + run_len[i] - 1
      BY <2>1, <2>2, <3>1, RunsDisjoint
    <3> QED
      BY <3>2, <3>3
  <2> QED
    BY <2>1, <2>3, RunInHeap
<1>2. ASSUME NEW j \in Spans, span_state'[j] = "cont"
      PROVE  /\ span_state'[head_idx[j]] = "large"
             /\ j \in head_idx[j] + 1 .. head_idx[j] + run_len[head_idx[j]] - 1
  <2> DEFINE h == head_idx[j]
  <2>1. span_state[j] = "cont" /\ j \notin i .. i + run_len[i] - 1
    BY <1>2
  <2>2. h \in Spans /\ span_state[h] = "large" /\ j \in h + 1 .. h + run_len[h] - 1
    BY <2>1 DEF RunsWellFormed, TypeOK
  <2>3. h \in h .. h + run_len[h] - 1 /\ j \in h .. h + run_len[h] - 1
    BY <2>2, RunInHeap DEF Spans
  <2>4. h \notin i .. i + run_len[i] - 1
    BY <2>1, <2>2, <2>3, RunsDisjoint
  <2> QED
    BY <2>2, <2>4
<1> QED
  BY <1>1, <1>2 DEF RunsWellFormed

\* The lists while the sweep builds them.
LEMMA PartialBehind ==
  ASSUME StructInv, pc = "sweep", NEW c \in Classes
  PROVE  /\ cur_span[c] = NoSpan
         /\ \A j \in DOMAIN partial[c] : partial[c][j] \in Spans /\ partial[c][j] < sweep_at
BY PartialType DEF StructInv, TypeInv, Structure, SweepBehind

LEMMA SweepStep ==
  ASSUME StructInv, NEW i \in Spans, Sweeping(i)
  PROVE  /\ sweep_at' <= next_fresh'
         /\ \A s \in Spans : s < sweep_at => s < sweep_at'
BY SpanType DEF Sweeping, StructInv, TypeInv, TypeOK, Spans

LEMMA FreeSpansBelow ==
  ASSUME StructInv, NEW i \in Spans, i < next_fresh,
         NEW s, s = free_spans \/ s = Append(free_spans, i)
  PROVE  \A j \in DOMAIN s : s[j] < next_fresh
<1>1. free_spans \in Seq(Spans)
  BY DEF StructInv, TypeInv, TypeOK
<1> QED
  BY <1>1 DEF StructInv, Structure, SweepBehind

LEMMA StructSweepLarge ==
  ASSUME StructInv, NEW i \in Spans, SweepLarge(i)
  PROVE  Structure'
<1> DEFINE run == i .. i + run_len[i] - 1
<1>1. /\ span_state[i] = "large" /\ pc = "sweep" /\ pc' = "sweep"
      /\ sweep_at = i /\ sweep_at' = i + 1 /\ i < next_fresh
      /\ UNCHANGED <<cls, run_len, head_idx, alloc_bits, next_fresh, cur_span, partial>>
      /\ \A j \in Spans : mark_bits'[j] \subseteq mark_bits[j]
  BY DEF SweepLarge, KeepRun, FreeRun, Sweeping, StructInv, TypeInv, TypeOK
<1>2. \/ span_state' = span_state /\ free_spans' = free_spans
      \/ /\ span_state' = [j \in Spans |-> IF j \in run THEN "free" ELSE span_state[j]]
         /\ free_spans' = Append(free_spans, i)
  BY DEF SweepLarge, KeepRun, FreeRun
<1>3. \A j \in Spans : span_state'[j] = "small" <=> span_state[j] = "small"
  <2>1. \A j \in run : j \in Spans /\ span_state[j] \in {"large", "cont"}
    BY <1>1, RunInHeap DEF StructInv, TypeInv, Structure
  <2> QED
    BY <1>2, <2>1
<1>4. RunsWellFormed'
  BY <1>1, <1>2, RunsWithout DEF StructInv, TypeInv, Structure, RunsWellFormed
<1>5. ClassListsSound'
  <2>1. \A c \in Classes : /\ cur_span[c] = NoSpan
                           /\ \A j \in DOMAIN partial[c] : partial[c][j] \in Spans
    BY <1>1, PartialType DEF StructInv, TypeInv, Structure, SweepBehind
  <2> QED
    BY <1>1, <1>3, <2>1 DEF StructInv, Structure, ClassListsSound
<1>6. TableInRange'
  BY <1>1, <1>2, <1>3 DEF StructInv, Structure, TableInRange, NElems
<1>7. SweepBehind'
  <2>1. \A j \in DOMAIN free_spans' : free_spans'[j] < next_fresh
    BY <1>1, <1>2, FreeSpansBelow
  <2> QED
    BY <1>1, <2>1, PartialBehind, SweepStep DEF SweepBehind, SweepLarge
<1> QED
  BY <1>4, <1>5, <1>6, <1>7 DEF Structure

LEMMA StructSweepSmall ==
  ASSUME StructInv, NEW i \in Spans, SweepSmall(i)
  PROVE  Structure'
<1>1. /\ span_state[i] = "small" /\ pc = "sweep" /\ pc' = "sweep"
      /\ sweep_at = i /\ sweep_at' = i + 1 /\ i < next_fresh
      /\ UNCHANGED <<cls, run_len, head_idx, next_fresh, cur_span>>
      /\ alloc_bits' = [alloc_bits EXCEPT ![i] = mark_bits[i]]
      /\ mark_bits' = [mark_bits EXCEPT ![i] = {}]
      /\ cls[i] \in Classes
  BY DEF SweepSmall, Sweeping, StructInv, TypeInv, TypeOK
<1>2. \/ span_state' = [span_state EXCEPT ![i] = "free"] /\ partial' = partial
      \/ /\ span_state' = span_state
         /\ partial' = partial \/ partial' = [partial EXCEPT ![cls[i]] = <<i>> \o @]
  BY DEF SweepSmall
<1>3. \A j \in Spans \ {i} : span_state'[j] = span_state[j]
  BY <1>2 DEF StructInv, TypeInv, TypeOK
<1>4. RunsWellFormed'
  <2>1. \A j \in Spans : /\ span_state'[j] = "large" <=> span_state[j] = "large"
                         /\ span_state'[j] = "cont" <=> span_state[j] = "cont"
    BY <1>1, <1>2 DEF StructInv, TypeInv, TypeOK
  <2> QED
    <3>1. ASSUME NEW h \in Spans, span_state[h] = "large"
          PROVE  \A j \in h + 1 .. h + run_len[h] - 1 : j \in Spans /\ span_state'[j] = "cont"
      <4>1. \A j \in h + 1 .. h + run_len[h] - 1 : j \in Spans /\ j # h
        BY <3>1, RunInHeap DEF StructInv, TypeInv, Structure, Spans
      <4> QED
        BY <2>1, <3>1, <4>1 DEF StructInv, Structure, RunsWellFormed
    <3>2. \A j \in Spans : head_idx[j] \in Spans
      BY DEF StructInv, TypeInv, TypeOK
    <3> QED
      BY <1>1, <2>1, <3>1, <3>2 DEF StructInv, Structure, RunsWellFormed
<1>8. \A c \in Classes : \/ partial'[c] = partial[c]
                         \/ /\ span_state' = span_state /\ c = cls[i]
                            /\ partial'[c] = <<i>> \o partial[c]
  BY <1>1, <1>2 DEF StructInv, TypeInv, TypeOK
<1>9. ASSUME NEW c \in Classes, NEW j \in DOMAIN partial'[c]
      PROVE  /\ partial'[c][j] \in Spans /\ partial'[c][j] < i + 1
             /\ span_state'[partial'[c][j]] = "small" /\ cls[partial'[c][j]] = c
             /\ \A k \in DOMAIN partial'[c] : partial'[c][j] = partial'[c][k] => j = k
  <2>1. /\ partial[c] \in Seq(Spans)
        /\ \A k \in DOMAIN partial[c] :
             /\ partial[c][k] \in Spans /\ partial[c][k] < i /\ partial[c][k] # i
             /\ span_state'[partial[c][k]] = "small" /\ cls[partial[c][k]] = c
             /\ \A l \in DOMAIN partial[c] : partial[c][k] = partial[c][l] => k = l
    <3>1. ASSUME NEW k \in DOMAIN partial[c]
          PROVE  partial[c][k] \in Spans /\ partial[c][k] < i /\ partial[c][k] # i
      BY <1>1, PartialBehind DEF Spans
    <3>2. partial[c] \in Seq(Spans)
      BY PartialType DEF StructInv, TypeInv
    <3> QED
      BY <1>3, <3>1, <3>2 DEF StructInv, Structure, ClassListsSound
  <2>2. CASE partial'[c] = partial[c]
    BY <2>1, <2>2 DEF Spans
  <2>3. CASE partial'[c] = <<i>> \o partial[c] /\ span_state' = span_state /\ c = cls[i]
    <3>1. \A k \in DOMAIN partial'[c] :
            \/ k = 1 /\ partial'[c][k] = i
            \/ k - 1 \in DOMAIN partial[c] /\ k \in Int /\ partial'[c][k] = partial[c][k - 1]
      BY <2>1, <2>3
    <3>2. i \in Int /\ i \in Spans /\ i < i + 1 /\ span_state'[i] = "small" /\ cls[i] = c
      BY <1>1, <2>3 DEF Spans
    <3>3. /\ partial'[c][j] \in Spans /\ partial'[c][j] < i + 1
          /\ span_state'[partial'[c][j]] = "small" /\ cls[partial'[c][j]] = c
      <4>1. CASE j = 1 /\ partial'[c][j] = i
        BY <3>2, <4>1
      <4>2. CASE j - 1 \in DOMAIN partial[c] /\ partial'[c][j] = partial[c][j - 1]
        BY <2>1, <3>2, <4>2 DEF Spans
      <4> QED
        BY <3>1, <4>1, <4>2
    <3>4. ASSUME NEW k \in DOMAIN partial'[c], partial'[c][j] = partial'[c][k] PROVE j = k
      <4>1. CASE j = 1 \/ k = 1
        BY <2>1, <3>1, <3>4, <4>1
      <4>2. CASE j # 1 /\ k # 1
        <5>1. /\ j - 1 \in DOMAIN partial[c] /\ k - 1 \in DOMAIN partial[c] /\ j \in Int /\ k \in Int
              /\ partial[c][j - 1] = partial[c][k - 1]
          BY <3>1, <3>4, <4>2
        <5>2. j - 1 = k - 1
          BY <2>1, <5>1
        <5> QED
          BY <5>1, <5>2
      <4> QED
        BY <4>1, <4>2
    <3> QED
      BY <3>3, <3>4
  <2> QED
    BY <1>8, <2>2, <2>3
<1>5. ClassListsSound'
  <2>1. \A c \in Classes : cur_span'[c] = NoSpan /\ NoSpan \notin Spans
    BY <1>1, PartialBehind DEF NoSpan, Spans
  <2> QED
    BY <1>1, <1>9, <2>1 DEF ClassListsSound
<1>6. TableInRange'
  <2>1. \A j \in Spans : span_state'[j] = "small" => span_state[j] = "small"
    BY <1>1, <1>2 DEF StructInv, TypeInv, TypeOK
  <2>2. \A j \in Spans : span_state'[j] # "free" => span_state[j] # "free"
    BY <1>1, <1>2 DEF StructInv, TypeInv, TypeOK
  <2> QED
    BY <1>1, <2>1, <2>2 DEF StructInv, TypeInv, TypeOK, Structure, TableInRange, NElems
<1>7. SweepBehind'
  <2>1. \A j \in DOMAIN free_spans' : free_spans'[j] < next_fresh
    BY <1>1, FreeSpansBelow DEF SweepSmall
  <2> QED
    BY <1>1, <1>9, <2>1, PartialBehind, SweepStep DEF SweepBehind, SweepSmall
<1> QED
  BY <1>4, <1>5, <1>6, <1>7 DEF Structure

LEMMA StructSweep ==
  ASSUME StructInv, Sweep
  PROVE  Structure'
<1>1. CASE FinishSweep
  <2>1. next_fresh \in Nat
    BY SpanType DEF StructInv, TypeInv, TypeOK
  <2> QED
    BY <1>1, <2>1 DEF FinishSweep, StructInv, Structure, RunsWellFormed, ClassListsSound, TableInRange,
              SweepBehind, NElems, tableVars, allocVars
<1>2. ASSUME NEW i \in Spans, SweepCont(i) \/ SweepFree(i) PROVE Structure'
  <2>1. /\ UNCHANGED <<span_state, cls, alloc_bits, mark_bits, run_len, head_idx, next_fresh, cur_span,
                       partial, pc>>
        /\ Sweeping(i) /\ i < next_fresh /\ pc = "sweep"
        /\ free_spans' = free_spans \/ free_spans' = Append(free_spans, i)
    BY <1>2 DEF SweepCont, SweepFree, Sweeping
  <2>2. \A j \in DOMAIN free_spans' : free_spans'[j] < next_fresh
    BY <2>1, FreeSpansBelow
  <2>3. SweepBehind'
    BY <2>1, <2>2, PartialBehind, SweepStep DEF SweepBehind
  <2> QED
    BY <2>1, <2>3 DEF StructInv, Structure, RunsWellFormed, ClassListsSound, TableInRange, NElems
<1> QED
  BY <1>1, <1>2, StructSweepLarge, StructSweepSmall DEF Sweep

-----------------------------------------------------------------------------
(* Allocation *)

LEMMA StructTakeSlot ==
  ASSUME StructInv, NEW c \in Classes, TakeSlot(c)
  PROVE  Structure'
<1> DEFINE i == cur_span[c]
<1>1. i \in Spans /\ span_state[i] = "small"
  BY DEF TakeSlot, NoSlotIn, StructInv, TypeInv, TypeOK, NoSpan, Structure, ClassListsSound
<1>2. /\ UNCHANGED <<span_state, cls, run_len, head_idx, next_fresh, free_spans, cur_span, partial,
                     mark_bits, sweep_at>>
      /\ pc' = "run"
      /\ \E k \in FreeSlots(i) : alloc_bits' = [alloc_bits EXCEPT ![i] = @ \cup {k}]
  BY DEF TakeSlot, Lowest, Return, allocVars, gcVars
<1>3. TableInRange'
  <2>1. PICK k \in FreeSlots(i) : alloc_bits' = [alloc_bits EXCEPT ![i] = @ \cup {k}]
    BY <1>2
  <2>2. k \in 0 .. NElems(i) - 1
    BY <1>1, SpanType DEF FreeSlots, StructInv, TypeInv, TypeOK
  <2>3. alloc_bits \in [Spans -> SUBSET Offsets]
    BY DEF StructInv, TypeInv, TypeOK
  <2>4. /\ alloc_bits'[i] = alloc_bits[i] \cup {k}
        /\ \A j \in Spans \ {i} : alloc_bits'[j] = alloc_bits[j]
    BY <1>1, <2>1, <2>3
  <2> HIDE DEF i
  <2>5. ASSUME NEW j \in Spans, span_state[j] = "small"
        PROVE  alloc_bits'[j] \subseteq 0 .. NElems(j) - 1 /\ mark_bits[j] \subseteq alloc_bits'[j]
    BY <2>2, <2>4, <2>5 DEF StructInv, Structure, TableInRange
  <2> QED
    BY <1>2, <2>5 DEF StructInv, Structure, TableInRange, NElems
<1> QED
  BY <1>2, <1>3 DEF StructInv, Structure, RunsWellFormed, ClassListsSound, SweepBehind

LEMMA StructTakePartial ==
  ASSUME StructInv, NEW c \in Classes, TakePartial(c)
  PROVE  Structure'
<1>1. /\ UNCHANGED <<span_state, cls, run_len, head_idx, next_fresh, free_spans, alloc_bits,
                     mark_bits, sweep_at, pc>>
      /\ pc = "alloc" /\ partial[c] # <<>>
      /\ cur_span' = [cur_span EXCEPT ![c] = Head(partial[c])]
      /\ partial' = [partial EXCEPT ![c] = Tail(partial[c])]
  BY DEF TakePartial, gcVars, SmallRequest
<1>2. ASSUME NEW d \in Classes
      PROVE  /\ cur_span'[d] # NoSpan => /\ span_state[cur_span'[d]] = "small"
                                         /\ cls[cur_span'[d]] = d
             /\ \A j \in DOMAIN partial'[d] :
                  /\ span_state[partial'[d][j]] = "small" /\ cls[partial'[d][j]] = d
                  /\ partial'[d][j] # cur_span'[d]
                  /\ \A k \in DOMAIN partial'[d] : partial'[d][j] = partial'[d][k] => j = k
  <2>1. CASE d # c
    <3>1. cur_span'[d] = cur_span[d] /\ partial'[d] = partial[d]
      BY <1>1, <2>1 DEF StructInv, TypeInv, TypeOK
    <3> QED
      BY <3>1 DEF StructInv, Structure, ClassListsSound
  <2>2. CASE d = c
    <3>1. partial[c] \in Seq(Spans)
      BY PartialType DEF StructInv, TypeInv
    <3>2. cur_span'[c] = Head(partial[c]) /\ partial'[c] = Tail(partial[c])
      BY <1>1 DEF StructInv, TypeInv, TypeOK
    <3>3. Head(partial[c]) = partial[c][1] /\ 1 \in DOMAIN partial[c]
      BY <1>1, <3>1
    <3>4. \A j \in DOMAIN Tail(partial[c]) : /\ j \in Nat \ {0} /\ j + 1 \in DOMAIN partial[c]
                                            /\ Tail(partial[c])[j] = partial[c][j + 1]
      BY <1>1, <3>1
    <3>5. \A j \in DOMAIN partial[c] :
            /\ span_state[partial[c][j]] = "small" /\ cls[partial[c][j]] = c
            /\ \A k \in DOMAIN partial[c] : partial[c][j] = partial[c][k] => j = k
      BY DEF StructInv, Structure, ClassListsSound
    <3> QED
      BY <2>2, <3>2, <3>3, <3>4, <3>5
  <2> QED
    BY <2>1, <2>2
<1> QED
  BY <1>1, <1>2 DEF StructInv, Structure, RunsWellFormed, ClassListsSound, TableInRange, SweepBehind,
                    NElems

\* A free span is in no run and on no list of small spans.
LEMMA StructNewSpan ==
  ASSUME StructInv, NEW c \in Classes, NEW i \in Spans, NewSpan(c, i), span_state[i] = "free",
         next_fresh' \in Nat, next_fresh <= next_fresh', i < next_fresh',
         \A j \in DOMAIN free_spans' : free_spans'[j] < next_fresh'
  PROVE  Structure'
<1>1. /\ UNCHANGED <<run_len, head_idx, partial, sweep_at, pc>>
      /\ pc = "alloc" /\ partial[c] = <<>>
      /\ span_state' = [span_state EXCEPT ![i] = "small"]
      /\ cls' = [cls EXCEPT ![i] = c]
      /\ alloc_bits' = [alloc_bits EXCEPT ![i] = {}]
      /\ mark_bits' = [mark_bits EXCEPT ![i] = {}]
      /\ cur_span' = [cur_span EXCEPT ![c] = i]
  BY DEF NewSpan, SmallRequest
<1>2. next_fresh \in Nat /\ \A s \in Spans : s \in Nat
  BY SpanType DEF StructInv, TypeInv, TypeOK, Spans
<1>3. RunsWellFormed'
  <2>1. \A j \in Spans : /\ span_state'[j] = "large" <=> span_state[j] = "large"
                         /\ span_state'[j] = "cont" <=> span_state[j] = "cont"
    BY <1>1 DEF StructInv, TypeInv, TypeOK
  <2>2. ASSUME NEW h \in Spans, span_state[h] = "large"
        PROVE  \A j \in h + 1 .. h + run_len[h] - 1 : j \in Spans /\ span_state'[j] = "cont"
    <3>1. \A j \in h + 1 .. h + run_len[h] - 1 : j \in Spans
      BY <2>2, RunInHeap DEF StructInv, TypeInv, Structure, Spans
    <3> QED
      BY <2>1, <2>2, <3>1 DEF StructInv, Structure, RunsWellFormed
  <2>3. \A j \in Spans : head_idx[j] \in Spans
    BY DEF StructInv, TypeInv, TypeOK
  <2>4. \A h \in Spans : span_state[h] = "large" => h + run_len[h] <= next_fresh'
    BY <1>2, RunInHeap DEF StructInv, TypeInv, Structure
  <2> QED
    BY <1>1, <2>1, <2>2, <2>3, <2>4 DEF StructInv, Structure, RunsWellFormed
<1>4. ClassListsSound'
  <2>1. ASSUME NEW d \in Classes
        PROVE  /\ cur_span[d] # NoSpan => cur_span[d] \in Spans \ {i}
               /\ \A j \in DOMAIN partial[d] : partial[d][j] \in Spans \ {i}
    <3>1. cur_span[d] \in Spans \cup {NoSpan} /\ \A j \in DOMAIN partial[d] : partial[d][j] \in Spans
      BY PartialType DEF StructInv, TypeInv, TypeOK
    <3> QED
      BY <3>1 DEF StructInv, Structure, ClassListsSound
  <2> QED
    BY <1>1, <2>1 DEF StructInv, TypeInv, TypeOK, Structure, ClassListsSound
<1>5. TableInRange'
  <2>1. \A j \in Spans : span_state[j] # "free" => j < next_fresh'
    BY <1>2 DEF StructInv, Structure, TableInRange
  <2> QED
    BY <1>1, <2>1 DEF StructInv, TypeInv, TypeOK, Structure, TableInRange, NElems
<1>6. SweepBehind'
  BY <1>1, <1>2, SpanType DEF StructInv, TypeInv, TypeOK, Structure, SweepBehind
<1> QED
  BY <1>3, <1>4, <1>5, <1>6 DEF Structure

LEMMA StructTakeSpan ==
  ASSUME StructInv, NEW c \in Classes, TakeFreeSpan(c) \/ TakeFreshSpan(c)
  PROVE  Structure'
<1>1. next_fresh \in 0 .. NSpans /\ NSpans \in Nat /\ free_spans \in Seq(Spans)
  BY SpanType DEF StructInv, TypeInv, TypeOK
<1>2. CASE TakeFreeSpan(c)
  <2>1. PICK j \in FreeEntries :
          /\ NewSpan(c, free_spans[j]) /\ next_fresh' = next_fresh
          /\ free_spans' = SubSeq(free_spans, 1, j - 1)
    BY <1>2 DEF TakeFreeSpan, Highest
  <2>2. j \in 1 .. Len(free_spans) /\ free_spans[j] \in Spans /\ span_state[free_spans[j]] = "free"
    BY <1>1, <2>1 DEF FreeEntries
  <2>3. \A k \in DOMAIN free_spans : free_spans[k] < next_fresh
    BY DEF StructInv, Structure, SweepBehind
  <2>4. \A k \in DOMAIN free_spans' : k \in DOMAIN free_spans /\ free_spans'[k] = free_spans[k]
    BY <1>1, <2>1, <2>2
  <2> QED
    BY <1>1, <2>1, <2>2, <2>3, <2>4, StructNewSpan
<1>3. CASE TakeFreshSpan(c)
  <2>1. /\ NewSpan(c, next_fresh) /\ next_fresh < NSpans
        /\ next_fresh' = next_fresh + 1 /\ free_spans' = <<>>
    BY <1>3 DEF TakeFreshSpan
  <2>2. next_fresh \in Spans /\ span_state[next_fresh] = "free"
    BY <1>1, <2>1 DEF Spans, StructInv, Structure, TableInRange
  <2> QED
    BY <1>1, <2>1, <2>2, StructNewSpan
<1> QED
  BY <1>2, <1>3

\* A run is made of free spans, which belong to no other run and to no list.
LEMMA StructNewRun ==
  ASSUME StructInv, NEW n \in 1 .. NSpans, NEW h \in Spans, NEW zero, NewRun(h, n, zero),
         \A j \in h .. h + n - 1 : j \in Spans /\ span_state[j] = "free",
         next_fresh' \in Nat, next_fresh <= next_fresh', h + n <= next_fresh'
  PROVE  Structure'
<1> DEFINE run  == h .. h + n - 1
           tail == h + 1 .. h + n - 1
<1>1. /\ UNCHANGED <<cls, alloc_bits, free_spans, cur_span, partial, sweep_at>>
      /\ pc' = "run"
      /\ span_state' = [i \in Spans |-> IF i = h THEN "large" ELSE
                                        IF i \in tail THEN "cont" ELSE span_state[i]]
      /\ run_len' = [run_len EXCEPT ![h] = n]
      /\ head_idx' = [i \in Spans |-> IF i \in tail THEN h ELSE head_idx[i]]
      /\ mark_bits' = [mark_bits EXCEPT ![h] = {}]
  BY DEF NewRun, Return
<1>2. next_fresh \in Nat /\ n \in Nat \ {0} /\ \A s \in Spans : s \in Nat
  BY SpanType DEF StructInv, TypeInv, TypeOK, Spans
<1>3. h \in run /\ \A j \in tail : j \in run
  BY <1>2
<1>4. /\ \A j \in Spans \ run : /\ span_state'[j] = span_state[j] /\ head_idx'[j] = head_idx[j]
                                /\ run_len'[j] = run_len[j] /\ mark_bits'[j] = mark_bits[j]
      /\ span_state'[h] = "large" /\ run_len'[h] = n
      /\ \A j \in run \ {h} : j \in Spans /\ span_state'[j] = "cont" /\ head_idx'[j] = h
  <2>1. \A j \in run \ {h} : j \in tail /\ j \in Spans
    BY <1>2
  <2>2. run_len \in [Spans -> 0 .. NSpans] /\ mark_bits \in [Spans -> SUBSET Offsets]
    BY DEF StructInv, TypeInv, TypeOK
  <2> HIDE DEF tail, run
  <2> QED
    BY <1>1, <1>3, <2>1, <2>2
<1>5. RunsWellFormed'
  <2>1. ASSUME NEW g \in Spans, span_state'[g] = "large"
        PROVE  /\ run_len'[g] > 0 /\ g + run_len'[g] <= next_fresh'
               /\ \A j \in g + 1 .. g + run_len'[g] - 1 : span_state'[j] = "cont" /\ head_idx'[j] = g
    <3>1. CASE g = h
      <4>1. \A j \in h + 1 .. h + n - 1 : j \in run \ {h}
        BY <1>2
      <4> QED
        BY <1>2, <1>4, <3>1, <4>1
    <3>2. CASE g # h
      <4>1. g \notin run /\ span_state[g] = "large" /\ run_len'[g] = run_len[g]
        BY <1>4, <2>1, <3>2
      <4>2. /\ run_len[g] \in Nat \ {0} /\ g + run_len[g] <= next_fresh
            /\ \A j \in g + 1 .. g + run_len[g] - 1 :
                 j \in Spans /\ span_state[j] = "cont" /\ head_idx[j] = g
        BY <1>2, <4>1, RunInHeap DEF StructInv, TypeInv, Structure, RunsWellFormed
      <4>3. \A j \in g + 1 .. g + run_len[g] - 1 : j \in Spans \ run
        BY <4>2
      <4> QED
        BY <1>2, <1>4, <4>1, <4>2, <4>3
    <3> QED
      BY <3>1, <3>2
  <2>2. ASSUME NEW j \in Spans, span_state'[j] = "cont"
        PROVE  /\ span_state'[head_idx'[j]] = "large"
               /\ j \in head_idx'[j] + 1 .. head_idx'[j] + run_len'[head_idx'[j]] - 1
    <3>1. CASE j \in run
      <4>1. j \in run \ {h}
        BY <1>4, <2>2, <3>1
      <4>2. j \in h + 1 .. h + n - 1
        BY <1>2, <4>1
      <4> QED
        BY <1>4, <4>1, <4>2
    <3>2. CASE j \notin run
      <4>1. span_state[j] = "cont" /\ head_idx'[j] = head_idx[j]
        BY <1>4, <2>2, <3>2
      <4>2. /\ span_state[head_idx[j]] = "large" /\ head_idx[j] \in Spans
            /\ j \in head_idx[j] + 1 .. head_idx[j] + run_len[head_idx[j]] - 1
        BY <4>1 DEF StructInv, TypeInv, TypeOK, Structure, RunsWellFormed
      <4>3. head_idx[j] \notin run
        BY <4>2
      <4> QED
        BY <1>4, <4>1, <4>2, <4>3
    <3> QED
      BY <3>1, <3>2
  <2> QED
    BY <2>1, <2>2 DEF RunsWellFormed
<1>6. \A j \in Spans : /\ span_state[j] = "small" => span_state'[j] = "small"
                       /\ span_state'[j] = "small" => j \notin run /\ span_state[j] = "small"
                       /\ span_state'[j] # "free" => j \in run \/ span_state[j] # "free"
  BY <1>4
<1>7. ClassListsSound'
  <2>1. ASSUME NEW d \in Classes
        PROVE  /\ cur_span[d] # NoSpan => cur_span[d] \in Spans
               /\ \A j \in DOMAIN partial[d] : partial[d][j] \in Spans
    BY PartialType DEF StructInv, TypeInv, TypeOK
  <2> QED
    BY <1>1, <1>6, <2>1 DEF StructInv, Structure, ClassListsSound
<1>8. TableInRange'
  <2>1. \A j \in Spans : span_state'[j] # "free" => j < next_fresh'
    <3>1. \A j \in run : j < next_fresh'
      BY <1>2
    <3> QED
      BY <1>2, <1>6, <3>1 DEF StructInv, Structure, TableInRange
  <2> QED
    BY <1>1, <1>4, <1>6, <2>1 DEF StructInv, Structure, TableInRange, NElems
<1>9. SweepBehind'
  <2>1. \A j \in DOMAIN free_spans : free_spans[j] \in Nat
    BY <1>2 DEF StructInv, TypeInv, TypeOK
  <2>2. sweep_at \in Nat
    BY SpanType DEF StructInv, TypeInv, TypeOK
  <2> QED
    BY <1>1, <1>2, <2>1, <2>2 DEF StructInv, Structure, SweepBehind
<1> QED
  BY <1>5, <1>7, <1>8, <1>9 DEF Structure

LEMMA StructTakeRun ==
  ASSUME StructInv, NEW n \in 1 .. NSpans, TakeFreeRun(n) \/ TakeFreshRun(n)
  PROVE  Structure'
<1>1. next_fresh \in 0 .. NSpans /\ NSpans \in Nat
  BY SpanType DEF StructInv, TypeInv, TypeOK
<1>2. CASE TakeFreeRun(n)
  <2>1. PICK h \in FreeRuns(n) : NewRun(h, n, TRUE)
    BY <1>2 DEF TakeFreeRun, Lowest
  <2>2. LargeRequest(n) /\ next_fresh' = next_fresh
    BY <1>2 DEF TakeFreeRun
  <2>3. /\ h \in Spans /\ h + n <= next_fresh /\ h + n <= NSpans
        /\ \A j \in h .. h + n - 1 : span_state[j] = "free"
    BY FreeRunType DEF StructInv
  <2>4. \A j \in h .. h + n - 1 : j \in Spans
    BY <1>1, <2>3 DEF Spans
  <2> QED
    <3>1. next_fresh' \in Nat /\ next_fresh <= next_fresh' /\ h + n <= next_fresh'
      BY <1>1, <2>2, <2>3
    <3> QED
      BY <2>1, <2>3, <2>4, <3>1, StructNewRun
<1>3. CASE TakeFreshRun(n)
  <2>1. /\ LargeRequest(n) /\ NewRun(next_fresh, n, FALSE)
        /\ next_fresh' = next_fresh + n /\ next_fresh + n <= NSpans
    BY <1>3 DEF TakeFreshRun
  <2>2. next_fresh \in Spans /\ \A j \in next_fresh .. next_fresh + n - 1 : j \in Spans /\ j >= next_fresh
    BY <1>1, <2>1 DEF Spans
  <2>3. \A j \in next_fresh .. next_fresh + n - 1 : span_state[j] = "free"
    <3>1. \A j \in Spans : j \in Nat
      BY <1>1 DEF Spans
    <3> QED
      BY <1>1, <2>2, <3>1 DEF StructInv, Structure, TableInRange
  <2> QED
    <3>1. next_fresh' \in Nat /\ next_fresh <= next_fresh' /\ next_fresh + n <= next_fresh'
      BY <1>1, <2>1
    <3> QED
      BY <2>1, <2>2, <2>3, <3>1, StructNewRun
<1> QED
  BY <1>2, <1>3

-----------------------------------------------------------------------------
(* The invariant *)

LEMMA StructNext ==
  ASSUME StructInv, Next
  PROVE  StructInv'
<1>1. TypeInv'
  BY TypeNext DEF StructInv, Structure
<1>2. Structure'
  <2>1. CASE Exhausted
    <3>1. pc' # "sweep" /\ heapUnchanged
      BY <2>1 DEF Exhausted
    <3> QED
      BY <3>1, StructQuiet DEF heapUnchanged, allocVars, gcVars
  <2>2. CASE Place
    BY <2>1, <2>2, StructTakeSlot, StructTakePartial, StructTakeSpan, StructTakeRun DEF Place
  <2>3. CASE Aborted
    <3>1. pc' = pc /\ UNCHANGED vars
      BY <2>3 DEF Aborted, vars
    <3> QED
      BY <3>1, StructQuiet DEF vars, allocVars, gcVars
  <2> QED
    BY <2>2, <2>3, StructProgram, StructMark, StructSweep DEF Next
<1> QED
  BY <1>1, <1>2 DEF StructInv

LEMMA StructStutter ==
  ASSUME StructInv, UNCHANGED vars
  PROVE  StructInv'
<1>1. TypeInv'
  BY TypeStutter DEF StructInv
<1>2. Structure'
  BY StructQuiet DEF vars, allocVars, gcVars
<1> QED
  BY <1>1, <1>2 DEF StructInv

LEMMA StructInvariant == Spec => []StructInv
<1>1. Init => StructInv
  BY TypeInit, StructInit DEF StructInv
<1>2. StructInv /\ [Next]_vars => StructInv'
  BY StructNext, StructStutter
<1> QED
  BY <1>1, <1>2, PTL DEF Spec

\* Every field of the span table, the lists and the memory always holds a value
\* of its type, in heaps of any size and for any program.
THEOREM TypeCorrect == Spec => []TypeOK
<1>1. StructInv => TypeOK
  BY DEF StructInv, TypeInv
<1> QED
  BY <1>1, StructInvariant, PTL

\* The runs of large objects stay whole: gc_alloc_large and sweep never leave a
\* continuation span without its head, nor let two runs overlap.
THEOREM RunsStayWhole == Spec => []RunsWellFormed
<1>1. StructInv => RunsWellFormed
  BY DEF StructInv, Structure
<1> QED
  BY <1>1, StructInvariant, PTL

\* The lists gc_slot takes spans from stay sound: small spans of the right
\* class, none of them listed twice.
THEOREM ListsStaySound == Spec => []ClassListsSound
<1>1. StructInv => ClassListsSound
  BY DEF StructInv, Structure
<1> QED
  BY <1>1, StructInvariant, PTL

-----------------------------------------------------------------------------
(* The lists and the counters miss nothing, in heaps of any size: between  *)
(* collections every free span is on the stack of free spans, every unused *)
(* slot of a small span can still be found, and pacing counts the space of *)
(* every object.                                                           *)

ListInv == StructInv /\ FreeStackKept /\ SlotsKept

LEMMA ListInit == Init => FreeStackKept /\ SlotsKept
BY SpanType DEF Init, FreeStackKept, SlotsKept, Accounted, Spans

LEMMA ListFrame ==
  ASSUME FreeStackKept, SlotsKept, pc' = "sweep" <=> pc = "sweep",
         UNCHANGED <<span_state, cls, freeindex, alloc_bits, next_fresh, free_spans, cur_span,
                     partial, sweep_at>>
  PROVE  FreeStackKept' /\ SlotsKept'
BY DEF FreeStackKept, SlotsKept, Accounted, InReach, NElems

-----------------------------------------------------------------------------
(* The program and marking *)

LEMMA ListProgram ==
  ASSUME ListInv, Program
  PROVE  FreeStackKept' /\ SlotsKept'
<1>1. /\ UNCHANGED <<span_state, cls, freeindex, alloc_bits, next_fresh, free_spans, cur_span,
                     partial, sweep_at>>
      /\ pc = "run" /\ pc' # "sweep"
  BY DEF Program, Drop, PointInto, Load, Store, StoreInt, SetInt, Request, RequestTooLarge, Collect,
         BeginMark, SetMinTrigger, SetStress, heapUnchanged, tableVars, allocVars, gcVars
<1> QED
  BY <1>1, ListFrame DEF ListInv

LEMMA ListMark ==
  ASSUME ListInv, Mark
  PROVE  FreeStackKept' /\ SlotsKept'
<1>1. CASE BeginSweep
  <2>1. pc' = "sweep" /\ sweep_at' = 0 /\ free_spans' = <<>>
    BY <1>1 DEF BeginSweep, StartSweep, ResetLists
  <2>2. \A i \in Spans : ~(i < 0)
    BY DEF Spans
  <2> QED
    BY <2>1, <2>2 DEF FreeStackKept, SlotsKept, Accounted
<1>2. CASE \E o \in Words : ScanObject(o)
  BY <1>2, ListFrame DEF ListInv, ScanObject, tableVars, allocVars
<1> QED
  BY <1>1, <1>2 DEF Mark

-----------------------------------------------------------------------------
(* The sweep *)

\* What the sweep does to the stack when it looks at span i: nothing, or push it.
LEMMA StackSweep ==
  ASSUME ListInv, NEW i \in Spans, Sweeping(i),
         \A j \in Spans : j < i /\ span_state'[j] = "free" => span_state[j] = "free",
         \/ free_spans' = free_spans /\ span_state'[i] # "free"
         \/ free_spans' = Append(free_spans, i)
  PROVE  FreeStackKept'
<1>1. /\ pc = "sweep" /\ pc' = "sweep" /\ sweep_at = i /\ sweep_at' = i + 1
      /\ i < next_fresh /\ next_fresh' = next_fresh
  BY DEF Sweeping
<1>2. free_spans \in Seq(Spans) /\ \A j \in Spans : j \in Nat
  BY SpanType DEF ListInv, StructInv, TypeInv, TypeOK, Spans
<1>3. \A j \in DOMAIN free_spans : free_spans[j] \in Spans /\ free_spans[j] < i
  BY <1>1, <1>2 DEF ListInv, FreeStackKept, Accounted
<1>4. CASE free_spans' = free_spans /\ span_state'[i] # "free"
  <2>1. \A j \in Spans : j < i + 1 /\ j # i => j < i
    BY <1>2
  <2> QED
    BY <1>1, <1>2, <1>3, <1>4, <2>1 DEF ListInv, FreeStackKept, Accounted
<1>5. CASE free_spans' = Append(free_spans, i)
  <2> DEFINE n == Len(free_spans) + 1
  <2>1. /\ DOMAIN free_spans' = 1 .. n /\ n \in DOMAIN free_spans' /\ free_spans'[n] = i
        /\ \A j \in DOMAIN free_spans' : j = n \/ (j \in DOMAIN free_spans /\ free_spans'[j] = free_spans[j])
        /\ \A j \in DOMAIN free_spans : j \in DOMAIN free_spans' /\ free_spans'[j] = free_spans[j]
    BY <1>2, <1>5
  <2> HIDE DEF n
  <2>2. ASSUME NEW j \in Spans, j < i + 1, span_state'[j] = "free"
        PROVE  \E k \in DOMAIN free_spans' : free_spans'[k] = j
    <3>1. CASE j = i
      BY <2>1, <3>1
    <3>2. CASE j # i
      <4>1. j < i /\ j < next_fresh /\ span_state[j] = "free"
        BY <1>1, <1>2, <2>2, <3>2, SpanType DEF ListInv, StructInv, TypeInv, TypeOK
      <4>2. \E k \in DOMAIN free_spans : free_spans[k] = j
        BY <1>1, <4>1 DEF ListInv, FreeStackKept, Accounted
      <4> QED
        BY <2>1, <4>2
    <3> QED
      BY <3>1, <3>2
  <2>3. \A j, k \in DOMAIN free_spans' : free_spans'[j] = free_spans'[k] => j = k
    BY <1>2, <1>3, <2>1 DEF ListInv, FreeStackKept
  <2>4. \A j \in DOMAIN free_spans' : free_spans'[j] < i + 1
    BY <1>2, <1>3, <2>1
  <2> QED
    BY <1>1, <2>2, <2>3, <2>4 DEF FreeStackKept, Accounted
<1> QED
  BY <1>4, <1>5

\* The spans behind the sweep keep their slots and their places.
LEMMA SlotsSweep ==
  ASSUME ListInv, NEW i \in Spans, Sweeping(i),
         \A j \in Spans : j < i => /\ span_state'[j] = "small" => span_state[j] = "small"
                                   /\ alloc_bits'[j] = alloc_bits[j] /\ freeindex'[j] = freeindex[j]
                                   /\ InReach(j) => InReach(j)',
         span_state'[i] = "small" => \A k \in (0 .. NElems(i) - 1) \ alloc_bits'[i] : k >= freeindex'[i] /\ InReach(i)'
  PROVE  SlotsKept'
<1>1. /\ pc = "sweep" /\ pc' = "sweep" /\ sweep_at = i /\ sweep_at' = i + 1 /\ cls' = cls
  BY DEF Sweeping
<1>2. ASSUME NEW j \in Spans, span_state'[j] = "small", j < i + 1
      PROVE  \A k \in (0 .. NElems(j) - 1) \ alloc_bits'[j] : k >= freeindex'[j] /\ InReach(j)'
  <2>1. CASE j = i
    BY <1>2, <2>1
  <2>2. CASE j # i
    <3>1. j < i
      BY <1>2, <2>2 DEF Spans
    <3> QED
      BY <1>1, <1>2, <3>1 DEF ListInv, SlotsKept, Accounted
  <2> QED
    BY <2>1, <2>2
<1>3. \A j \in Spans : NElems(j)' = NElems(j)
  BY <1>1 DEF NElems
<1> QED
  BY <1>1, <1>2, <1>3 DEF SlotsKept, Accounted

LEMMA ListSweepOther ==
  ASSUME ListInv, NEW i \in Spans, SweepCont(i) \/ SweepFree(i)
  PROVE  FreeStackKept' /\ SlotsKept'
<1>1. /\ UNCHANGED <<span_state, cls, freeindex, alloc_bits, cur_span, partial>> /\ Sweeping(i)
      /\ span_state[i] \in {"cont", "free"}
      /\ \/ free_spans' = free_spans /\ span_state[i] # "free"
         \/ free_spans' = Append(free_spans, i)
  BY DEF SweepCont, SweepFree, Sweeping
<1>2. FreeStackKept'
  BY <1>1, StackSweep
<1>3. SlotsKept'
  BY <1>1, SlotsSweep DEF InReach
<1> QED
  BY <1>2, <1>3

LEMMA ListSweepLarge ==
  ASSUME ListInv, NEW i \in Spans, SweepLarge(i)
  PROVE  FreeStackKept' /\ SlotsKept'
<1> DEFINE run == i .. i + run_len[i] - 1
<1>1. /\ Sweeping(i) /\ span_state[i] = "large"
      /\ UNCHANGED <<cls, freeindex, alloc_bits, cur_span, partial>>
      /\ \/ span_state' = span_state /\ free_spans' = free_spans
         \/ /\ span_state' = [j \in Spans |-> IF j \in run THEN "free" ELSE span_state[j]]
            /\ free_spans' = Append(free_spans, i)
  BY DEF SweepLarge, KeepRun, FreeRun, Sweeping
<1>2. i \in Nat /\ \A j \in Spans : j \in Nat
  BY SpanType DEF Spans
<1>3. FreeStackKept'
  <2>1. \A j \in Spans : j < i => j \notin run
    BY <1>2
  <2> QED
    BY <1>1, <2>1, StackSweep
<1>4. SlotsKept'
  <2>1. i \in run
    <3>1. run_len[i] \in Nat \ {0}
      BY <1>1, RunInHeap DEF ListInv, StructInv, TypeInv, Structure
    <3> QED
      BY <1>2, <3>1
  <2>2. span_state'[i] # "small" /\ \A j \in Spans : span_state'[j] = "small" => span_state[j] = "small"
    BY <1>1, <2>1
  <2>3. \A j \in Spans : InReach(j) => InReach(j)'
    BY <1>1 DEF InReach
  <2>4. Sweeping(i) /\ alloc_bits' = alloc_bits /\ freeindex' = freeindex
    BY <1>1
  <2>5. \A j \in Spans : j < i => /\ span_state'[j] = "small" => span_state[j] = "small"
                                  /\ alloc_bits'[j] = alloc_bits[j] /\ freeindex'[j] = freeindex[j]
                                  /\ InReach(j) => InReach(j)'
    BY <2>2, <2>3, <2>4
  <2> QED
    BY <2>2, <2>4, <2>5, SlotsSweep
<1> QED
  BY <1>3, <1>4

\* A span whose slots are all marked has no unused one.
LEMMA AllMarked ==
  ASSUME ListInv, NEW i \in Spans, span_state[i] = "small",
         ~(Cardinality(mark_bits[i]) < NElems(i))
  PROVE  (0 .. NElems(i) - 1) \ mark_bits[i] = {}
<1> DEFINE S == 0 .. NElems(i) - 1
<1>1. NElems(i) \in Nat
  BY NElemsType DEF NElems, ListInv, StructInv, TypeInv, TypeOK
<1>2. IsFiniteSet(S) /\ Cardinality(S) = NElems(i)
  <2> DEFINE n == NElems(i)
  <2>1. n \in Nat
    BY <1>1
  <2> HIDE DEF n
  <2>2. 0 \in Int /\ n - 1 \in Int /\ (IF 0 <= n - 1 THEN n - 1 - 0 + 1 ELSE 0) = n
    BY <2>1
  <2>3. IsFiniteSet(0 .. n - 1) /\ Cardinality(0 .. n - 1) = n
    BY <2>2, FS_Interval
  <2> QED
    BY <2>3 DEF n
<1>3. mark_bits[i] \subseteq S
  BY DEF ListInv, StructInv, Structure, TableInRange
<1> HIDE DEF S
<1>4. Cardinality(mark_bits[i]) \in Nat /\ Cardinality(mark_bits[i]) <= NElems(i)
  BY <1>2, <1>3, FS_Subset, FS_CardinalityType
<1>5. mark_bits[i] = S
  BY <1>1, <1>2, <1>3, <1>4, FS_Subset
<1> QED
  BY <1>5 DEF S

LEMMA ListSweepSmall ==
  ASSUME ListInv, NEW i \in Spans, SweepSmall(i)
  PROVE  FreeStackKept' /\ SlotsKept'
<1>1. /\ Sweeping(i) /\ span_state[i] = "small" /\ cls' = cls /\ cur_span' = cur_span
      /\ alloc_bits' = [alloc_bits EXCEPT ![i] = mark_bits[i]]
      /\ cls[i] \in Classes
  BY DEF SweepSmall, Sweeping, ListInv, StructInv, TypeInv, TypeOK
<1>2. \/ /\ span_state' = [span_state EXCEPT ![i] = "free"] /\ free_spans' = Append(free_spans, i)
         /\ UNCHANGED <<freeindex, partial>>
      \/ /\ span_state' = span_state /\ free_spans' = free_spans
         /\ freeindex' = [freeindex EXCEPT ![i] = 0]
         /\ partial' = IF Cardinality(mark_bits[i]) < NElems(i)
                       THEN [partial EXCEPT ![cls[i]] = <<i>> \o partial[cls[i]]] ELSE partial
  BY DEF SweepSmall
<1>3. /\ \A j \in Spans \ {i} : /\ span_state'[j] = span_state[j] /\ alloc_bits'[j] = alloc_bits[j]
                                /\ freeindex'[j] = freeindex[j]
      /\ alloc_bits'[i] = mark_bits[i]
  BY <1>1, <1>2 DEF ListInv, StructInv, TypeInv, TypeOK
<1>4. \A j \in Spans : j < i => j # i
  BY DEF Spans
<1>5. FreeStackKept'
  <2>1. span_state'[i] # "free" \/ free_spans' = Append(free_spans, i)
    BY <1>1, <1>2
  <2> QED
    BY <1>1, <1>2, <1>3, <1>4, <2>1, StackSweep
<1>6. \A c \in Classes : partial[c] \in Seq(Spans)
  BY PartialType DEF ListInv, StructInv, TypeInv
<1>7. \A c \in Classes : \A j \in DOMAIN partial[c] : \E k \in DOMAIN partial'[c] : partial'[c][k] = partial[c][j]
  <2>1. ASSUME NEW c \in Classes, NEW j \in DOMAIN partial[c]
        PROVE  \E k \in DOMAIN partial'[c] : partial'[c][k] = partial[c][j]
    <3>1. partial'[c] = partial[c] \/ partial'[c] = <<i>> \o partial[c]
      <4>1. partial' = partial \/ partial' = [partial EXCEPT ![cls[i]] = <<i>> \o partial[cls[i]]]
        BY <1>2
      <4>2. DOMAIN partial = Classes
        BY DEF ListInv, StructInv, TypeInv, TypeOK
      <4> QED
        BY <1>1, <4>1, <4>2
    <3>2. CASE partial'[c] = partial[c]
      BY <3>2
    <3>3. CASE partial'[c] = <<i>> \o partial[c]
      <4>1. j + 1 \in DOMAIN partial'[c] /\ partial'[c][j + 1] = partial[c][j]
        BY <1>6, <3>3
      <4> QED
        BY <4>1
    <3> QED
      BY <3>1, <3>2, <3>3
  <2> QED
    BY <2>1
<1>8. \A j \in Spans : InReach(j) => InReach(j)'
  <2>1. \A j \in Spans : cls[j] \in Classes
    BY DEF ListInv, StructInv, TypeInv, TypeOK
  <2> QED
    BY <1>1, <1>7, <2>1 DEF InReach
<1>9. ASSUME span_state'[i] = "small", NEW k \in (0 .. NElems(i) - 1) \ alloc_bits'[i]
      PROVE  k >= freeindex'[i] /\ InReach(i)'
  <2>1. /\ freeindex' = [freeindex EXCEPT ![i] = 0]
        /\ partial' = IF Cardinality(mark_bits[i]) < NElems(i)
                      THEN [partial EXCEPT ![cls[i]] = <<i>> \o partial[cls[i]]] ELSE partial
    BY <1>2, <1>9 DEF ListInv, StructInv, TypeInv, TypeOK
  <2>2. Cardinality(mark_bits[i]) < NElems(i)
    BY <1>1, <1>3, <1>9, AllMarked
  <2>3. partial'[cls[i]] = <<i>> \o partial[cls[i]]
    BY <1>1, <2>1, <2>2 DEF ListInv, StructInv, TypeInv, TypeOK
  <2>4. 1 \in DOMAIN partial'[cls[i]] /\ partial'[cls[i]][1] = i
    BY <1>1, <1>6, <2>3
  <2>5. freeindex'[i] = 0
    BY <2>1 DEF ListInv, StructInv, TypeInv, TypeOK
  <2> QED
    BY <1>1, <2>4, <2>5 DEF InReach
<1>10. SlotsKept'
  BY <1>1, <1>3, <1>4, <1>8, <1>9, SlotsSweep
<1> QED
  BY <1>5, <1>10

LEMMA ListFinishSweep ==
  ASSUME ListInv, FinishSweep
  PROVE  FreeStackKept' /\ SlotsKept'
<1>1. /\ UNCHANGED <<span_state, cls, freeindex, alloc_bits, next_fresh, free_spans, cur_span, partial>>
      /\ sweep_at = next_fresh /\ pc = "sweep" /\ pc' # "sweep"
  BY DEF FinishSweep, tableVars, allocVars
<1>2. \A i \in Spans : span_state[i] = "small" => i < sweep_at
  BY <1>1 DEF ListInv, StructInv, Structure, TableInRange
<1> QED
  BY <1>1, <1>2 DEF ListInv, FreeStackKept, SlotsKept, Accounted, InReach, NElems

LEMMA ListSweep ==
  ASSUME ListInv, Sweep
  PROVE  FreeStackKept' /\ SlotsKept'
BY ListSweepOther, ListSweepLarge, ListSweepSmall, ListFinishSweep DEF Sweep

-----------------------------------------------------------------------------
(* Allocation *)

LEMMA ListTakeSlot ==
  ASSUME ListInv, NEW c \in Classes, TakeSlot(c)
  PROVE  FreeStackKept' /\ SlotsKept'
<1> DEFINE i == cur_span[c]
<1>1. i \in Spans /\ freeindex[i] \in Nat /\ NElems(i) \in Nat
  <2>1. i \in Spans
    BY DEF TakeSlot, NoSlotIn, ListInv, StructInv, TypeInv, TypeOK, NoSpan
  <2> QED
    BY <2>1, NElemsType DEF NElems, ListInv, StructInv, TypeInv, TypeOK
<1>2. PICK k \in FreeSlots(i) :
        /\ \A l \in FreeSlots(i) : k <= l
        /\ alloc_bits' = [alloc_bits EXCEPT ![i] = alloc_bits[i] \cup {k}]
        /\ freeindex' = [freeindex EXCEPT ![i] = k + 1]
  BY DEF TakeSlot, Lowest
<1>3. /\ UNCHANGED <<span_state, cls, next_fresh, free_spans, cur_span, partial, sweep_at>>
      /\ pc = "alloc" /\ pc' = "run"
  BY DEF TakeSlot, SmallRequest, Return, allocVars, gcVars
<1>4. /\ \A j \in Spans \ {i} : alloc_bits'[j] = alloc_bits[j] /\ freeindex'[j] = freeindex[j]
      /\ alloc_bits'[i] = alloc_bits[i] \cup {k} /\ freeindex'[i] = k + 1
  BY <1>1, <1>2 DEF ListInv, StructInv, TypeInv, TypeOK
<1>5. FreeStackKept'
  BY <1>3 DEF ListInv, FreeStackKept, Accounted
<1>6. ASSUME NEW j \in Spans, span_state[j] = "small", NEW l \in (0 .. NElems(j) - 1) \ alloc_bits'[j]
      PROVE  l >= freeindex'[j] /\ InReach(j)
  <2>1. l \notin alloc_bits[j]
    BY <1>4, <1>6
  <2>2. l >= freeindex[j] /\ InReach(j)
    BY <1>3, <1>6, <2>1 DEF ListInv, SlotsKept, Accounted
  <2>3. CASE j = i
    <3>1. l \in FreeSlots(i) /\ l # k
      BY <1>1, <1>4, <1>6, <2>1, <2>2, <2>3 DEF FreeSlots
    <3>2. k \in Int /\ l \in Int /\ k <= l
      BY <1>1, <1>2, <3>1 DEF FreeSlots
    <3>3. l >= k + 1
      BY <3>1, <3>2
    <3> QED
      BY <1>4, <2>2, <2>3, <3>3
  <2>4. CASE j # i
    BY <1>4, <2>2, <2>4
  <2> QED
    BY <2>3, <2>4
<1>7. \A j \in Spans : InReach(j)' = InReach(j) /\ NElems(j)' = NElems(j)
  BY <1>3 DEF InReach, NElems
<1> QED
  BY <1>3, <1>5, <1>6, <1>7 DEF SlotsKept

\* No slot is left in a span that was the current one and is used up.
LEMMA UsedUp ==
  ASSUME ListInv, pc = "alloc", NEW c \in Classes, NoSlotIn(c), NEW j \in Spans, j = cur_span[c],
         span_state[j] = "small"
  PROVE  (0 .. NElems(j) - 1) \ alloc_bits[j] = {}
<1>1. FreeSlots(j) = {}
  BY DEF NoSlotIn, NoSpan, Spans
<1>2. NElems(j) \in Nat /\ freeindex[j] \in Nat
  BY NElemsType DEF NElems, ListInv, StructInv, TypeInv, TypeOK
<1>3. ASSUME NEW k \in (0 .. NElems(j) - 1) \ alloc_bits[j] PROVE FALSE
  <2>1. k >= freeindex[j]
    BY <1>3 DEF ListInv, SlotsKept, Accounted
  <2> QED
    BY <1>1, <1>2, <1>3, <2>1 DEF FreeSlots
<1> QED
  BY <1>3

LEMMA ListTakePartial ==
  ASSUME ListInv, NEW c \in Classes, TakePartial(c)
  PROVE  FreeStackKept' /\ SlotsKept'
<1>1. /\ UNCHANGED <<span_state, cls, next_fresh, free_spans, alloc_bits, sweep_at, pc>>
      /\ pc = "alloc" /\ NoSlotIn(c) /\ partial[c] # <<>>
      /\ freeindex' = [i \in Spans |-> IF i = cur_span[c] THEN NElems(i) ELSE freeindex[i]]
      /\ cur_span' = [cur_span EXCEPT ![c] = Head(partial[c])]
      /\ partial' = [partial EXCEPT ![c] = Tail(partial[c])]
  BY DEF TakePartial, SmallRequest, gcVars
<1>2. FreeStackKept'
  BY <1>1 DEF ListInv, FreeStackKept, Accounted
<1>3. /\ partial[c] \in Seq(Spans)
      /\ cur_span'[c] = Head(partial[c]) /\ partial'[c] = Tail(partial[c])
      /\ \A d \in Classes \ {c} : cur_span'[d] = cur_span[d] /\ partial'[d] = partial[d]
  BY <1>1, PartialType DEF ListInv, StructInv, TypeInv, TypeOK
<1>4. ASSUME NEW j \in Spans, j # cur_span[c], InReach(j)
      PROVE  InReach(j)'
  <2>1. cls[j] \in Classes /\ cls' = cls
    BY <1>1 DEF ListInv, StructInv, TypeInv, TypeOK
  <2>2. CASE cls[j] # c
    BY <1>3, <1>4, <2>1, <2>2 DEF InReach
  <2>3. CASE cls[j] = c
    <3>1. PICK k \in DOMAIN partial[c] : partial[c][k] = j
      BY <1>4, <2>3 DEF InReach
    <3>2. CASE k = 1
      BY <1>1, <1>3, <2>1, <2>3, <3>1, <3>2 DEF InReach
    <3>3. CASE k # 1
      <4> DEFINE s == partial[c]
      <4>2. s \in Seq(Spans) /\ k \in 2 .. Len(s) /\ s[k] = j
        BY <1>3, <3>1, <3>3
      <4> HIDE DEF s
      <4>3. k - 1 \in DOMAIN Tail(s) /\ Tail(s)[k - 1] = j
        BY <4>2
      <4>1. k - 1 \in DOMAIN partial'[c] /\ partial'[c][k - 1] = j
        BY <1>3, <4>3 DEF s
      <4> QED
        BY <2>1, <2>3, <4>1 DEF InReach
    <3> QED
      BY <3>2, <3>3
  <2> QED
    BY <2>2, <2>3
<1>5. ASSUME NEW j \in Spans, span_state[j] = "small", NEW k \in (0 .. NElems(j) - 1) \ alloc_bits[j]
      PROVE  k >= freeindex'[j] /\ InReach(j)'
  <2>1. k >= freeindex[j] /\ InReach(j)
    BY <1>1, <1>5 DEF ListInv, SlotsKept, Accounted
  <2>2. j # cur_span[c]
    BY <1>1, <1>5, UsedUp
  <2> QED
    BY <1>1, <1>4, <2>1, <2>2
<1>6. \A j \in Spans : NElems(j)' = NElems(j)
  BY <1>1 DEF NElems
<1> QED
  BY <1>1, <1>2, <1>5, <1>6 DEF SlotsKept

LEMMA SlotsNewSpan ==
  ASSUME ListInv, NEW c \in Classes, NEW i \in Spans, NewSpan(c, i), span_state[i] = "free"
  PROVE  SlotsKept'
<1>1. /\ UNCHANGED <<partial, sweep_at, pc>>
      /\ pc = "alloc" /\ NoSlotIn(c) /\ partial[c] = <<>>
      /\ span_state' = [span_state EXCEPT ![i] = "small"]
      /\ cls' = [cls EXCEPT ![i] = c]
      /\ alloc_bits' = [alloc_bits EXCEPT ![i] = {}]
      /\ freeindex' = [s \in Spans |-> IF s = i THEN 0 ELSE
                                       IF s = cur_span[c] THEN NElems(s) ELSE freeindex[s]]
      /\ cur_span' = [cur_span EXCEPT ![c] = i]
  BY DEF NewSpan, SmallRequest
<1>2. /\ \A j \in Spans \ {i} : /\ span_state'[j] = span_state[j] /\ cls'[j] = cls[j]
                                /\ alloc_bits'[j] = alloc_bits[j]
      /\ cls'[i] = c /\ cur_span'[c] = i
      /\ \A d \in Classes \ {c} : cur_span'[d] = cur_span[d]
  BY <1>1 DEF ListInv, StructInv, TypeInv, TypeOK
<1>3. ASSUME NEW j \in Spans \ {i}, span_state[j] = "small",
             NEW k \in (0 .. NElems(j) - 1) \ alloc_bits[j]
      PROVE  k >= freeindex'[j] /\ InReach(j)'
  <2>1. k >= freeindex[j] /\ InReach(j) /\ cls[j] \in Classes
    BY <1>1, <1>3 DEF ListInv, SlotsKept, Accounted, StructInv, TypeInv, TypeOK
  <2>2. j # cur_span[c]
    BY <1>1, <1>3, UsedUp
  <2>3. cls[j] # c
    BY <1>1, <2>1, <2>2 DEF InReach
  <2>4. InReach(j)'
    BY <1>1, <1>2, <2>1, <2>3 DEF InReach
  <2> QED
    BY <1>1, <2>1, <2>2, <2>4
<1>4. ASSUME NEW k \in (0 .. NElems(i)' - 1) PROVE k >= freeindex'[i] /\ InReach(i)'
  BY <1>1, <1>2 DEF InReach
<1>5. \A j \in Spans \ {i} : NElems(j)' = NElems(j)
  BY <1>2 DEF NElems
<1>6. ASSUME NEW j \in Spans, span_state'[j] = "small", NEW k \in (0 .. NElems(j)' - 1) \ alloc_bits'[j]
      PROVE  k >= freeindex'[j] /\ InReach(j)'
  <2>1. CASE j = i
    BY <1>4, <1>6, <2>1
  <2>2. CASE j # i
    BY <1>2, <1>3, <1>5, <1>6, <2>2
  <2> QED
    BY <2>1, <2>2
<1> QED
  BY <1>6 DEF SlotsKept

LEMMA ListTakeSpan ==
  ASSUME ListInv, NEW c \in Classes, TakeFreeSpan(c) \/ TakeFreshSpan(c)
  PROVE  FreeStackKept' /\ SlotsKept'
<1>1. next_fresh \in 0 .. NSpans /\ NSpans \in Nat /\ free_spans \in Seq(Spans)
  BY SpanType DEF ListInv, StructInv, TypeInv, TypeOK
<1>2. CASE TakeFreeSpan(c)
  <2>1. PICK j \in FreeEntries :
          /\ \A k \in FreeEntries : k <= j
          /\ NewSpan(c, free_spans[j]) /\ next_fresh' = next_fresh
          /\ free_spans' = SubSeq(free_spans, 1, j - 1)
    BY <1>2 DEF TakeFreeSpan, Highest
  <2>2. j \in 1 .. Len(free_spans) /\ free_spans[j] \in Spans /\ span_state[free_spans[j]] = "free"
    BY <1>1, <2>1 DEF FreeEntries
  <2>3. /\ span_state' = [span_state EXCEPT ![free_spans[j]] = "small"]
        /\ pc = "alloc" /\ pc' = "alloc"
    BY <2>1 DEF NewSpan, SmallRequest
  <2>4. /\ \A k \in DOMAIN free_spans' : k \in DOMAIN free_spans /\ free_spans'[k] = free_spans[k]
        /\ \A k \in DOMAIN free_spans : k < j => k \in DOMAIN free_spans' /\ free_spans'[k] = free_spans[k]
    BY <1>1, <2>1, <2>2
  <2>5. ASSUME NEW i \in Spans, i < next_fresh, span_state'[i] = "free"
        PROVE  \E k \in DOMAIN free_spans' : free_spans'[k] = i
    <3>1. i # free_spans[j] /\ span_state[i] = "free"
      BY <2>2, <2>3, <2>5 DEF ListInv, StructInv, TypeInv, TypeOK
    <3>2. PICK k \in DOMAIN free_spans : free_spans[k] = i
      BY <2>3, <2>5, <3>1 DEF ListInv, FreeStackKept, Accounted
    <3>3. k \in FreeEntries /\ k # j
      BY <3>1, <3>2 DEF FreeEntries
    <3>4. k < j
      BY <1>1, <2>1, <2>2, <3>2, <3>3
    <3> QED
      BY <2>4, <3>2, <3>4
  <2>6. ASSUME NEW k \in DOMAIN free_spans', NEW l \in DOMAIN free_spans', free_spans'[k] = free_spans'[l]
        PROVE  k = l
    <3>1. free_spans[k] = free_spans[l] /\ k \in DOMAIN free_spans /\ l \in DOMAIN free_spans
      BY <2>4, <2>6
    <3> QED
      BY <3>1 DEF ListInv, FreeStackKept
  <2>7. FreeStackKept'
    BY <2>1, <2>3, <2>5, <2>6 DEF FreeStackKept, Accounted
  <2> QED
    BY <2>1, <2>2, <2>7, SlotsNewSpan
<1>3. CASE TakeFreshSpan(c)
  <2>1. /\ NewSpan(c, next_fresh) /\ next_fresh < NSpans /\ FreeEntries = {}
        /\ next_fresh' = next_fresh + 1 /\ free_spans' = <<>>
    BY <1>3 DEF TakeFreshSpan
  <2>2. next_fresh \in Spans /\ span_state[next_fresh] = "free"
    BY <1>1, <2>1 DEF Spans, ListInv, StructInv, Structure, TableInRange
  <2>3. /\ span_state' = [span_state EXCEPT ![next_fresh] = "small"]
        /\ pc = "alloc" /\ pc' = "alloc"
    BY <2>1 DEF NewSpan, SmallRequest
  <2>4. ASSUME NEW i \in Spans, i < next_fresh + 1 PROVE span_state'[i] # "free"
    <3>1. i = next_fresh \/ i < next_fresh
      BY <1>1, <2>4 DEF Spans
    <3>2. ASSUME i < next_fresh, span_state[i] = "free" PROVE FALSE
      <4>1. PICK k \in DOMAIN free_spans : free_spans[k] = i
        BY <2>3, <3>2 DEF ListInv, FreeStackKept, Accounted
      <4> QED
        BY <2>1, <3>2, <4>1 DEF FreeEntries
    <3> QED
      BY <2>2, <2>3, <3>1, <3>2 DEF ListInv, StructInv, TypeInv, TypeOK
  <2>5. FreeStackKept'
    BY <2>1, <2>3, <2>4 DEF FreeStackKept, Accounted
  <2> QED
    BY <2>1, <2>2, <2>5, SlotsNewSpan
<1> QED
  BY <1>2, <1>3

\* A run takes free spans, and leaves their entries in the stack, stale.
LEMMA ListNewRun ==
  ASSUME ListInv, NEW n \in 1 .. NSpans, NEW h \in Spans, NEW zero, NewRun(h, n, zero), pc = "alloc",
         \A j \in h .. h + n - 1 : j \in Spans /\ span_state[j] = "free",
         \A j \in Spans : j < next_fresh' => j < next_fresh \/ j \in h .. h + n - 1
  PROVE  FreeStackKept' /\ SlotsKept'
<1>1. /\ UNCHANGED <<cls, freeindex, alloc_bits, free_spans, cur_span, partial, sweep_at>>
      /\ pc' = "run"
      /\ span_state' = [i \in Spans |-> IF i = h THEN "large" ELSE
                                        IF i \in h + 1 .. h + n - 1 THEN "cont" ELSE span_state[i]]
  BY DEF NewRun, Return
<1>2. h \in Nat /\ n \in Nat /\ n > 0
  BY SpanType DEF Spans
<1>3. \A i \in Spans : i \in h .. h + n - 1 <=> i = h \/ i \in h + 1 .. h + n - 1
  BY <1>2 DEF Spans
<1>4. \A i \in Spans : /\ span_state'[i] \in {"free", "small"} => span_state'[i] = span_state[i]
                       /\ i \in h .. h + n - 1 => span_state'[i] # "free"
  BY <1>1, <1>3
<1>5. FreeStackKept'
  BY <1>1, <1>4 DEF ListInv, FreeStackKept, Accounted
<1>6. SlotsKept'
  BY <1>1, <1>4 DEF ListInv, SlotsKept, Accounted, InReach, NElems
<1> QED
  BY <1>5, <1>6

LEMMA ListTakeRun ==
  ASSUME ListInv, NEW n \in 1 .. NSpans, TakeFreeRun(n) \/ TakeFreshRun(n)
  PROVE  FreeStackKept' /\ SlotsKept'
<1>1. next_fresh \in 0 .. NSpans /\ NSpans \in Nat
  BY SpanType DEF ListInv, StructInv, TypeInv, TypeOK
<1>2. CASE TakeFreeRun(n)
  <2>1. PICK h \in FreeRuns(n) : NewRun(h, n, TRUE)
    BY <1>2 DEF TakeFreeRun, Lowest
  <2>2. pc = "alloc" /\ next_fresh' = next_fresh
    BY <1>2 DEF TakeFreeRun, LargeRequest
  <2>3. h \in Spans /\ h + n <= NSpans /\ \A j \in h .. h + n - 1 : span_state[j] = "free"
    BY FreeRunType DEF ListInv, StructInv
  <2>4. \A j \in h .. h + n - 1 : j \in Spans
    BY <1>1, <2>3 DEF Spans
  <2> QED
    BY <2>1, <2>2, <2>3, <2>4, ListNewRun
<1>3. CASE TakeFreshRun(n)
  <2>1. /\ pc = "alloc" /\ NewRun(next_fresh, n, FALSE)
        /\ next_fresh' = next_fresh + n /\ next_fresh + n <= NSpans
    BY <1>3 DEF TakeFreshRun, LargeRequest
  <2>2. next_fresh \in Spans /\ \A j \in next_fresh .. next_fresh + n - 1 : j \in Spans /\ ~(j < next_fresh)
    BY <1>1, <2>1 DEF Spans
  <2>3. \A j \in next_fresh .. next_fresh + n - 1 : span_state[j] = "free"
    BY <2>2 DEF ListInv, StructInv, Structure, TableInRange
  <2>4. \A j \in Spans : j < next_fresh + n => j < next_fresh \/ j \in next_fresh .. next_fresh + n - 1
    BY <1>1 DEF Spans
  <2> QED
    BY <2>1, <2>2, <2>3, <2>4, ListNewRun
<1> QED
  BY <1>2, <1>3

-----------------------------------------------------------------------------
(* The theorems *)

LEMMA ListNext ==
  ASSUME ListInv, [Next]_vars
  PROVE  ListInv'
<1>1. StructInv'
  BY StructNext, StructStutter DEF ListInv
<1>2. FreeStackKept' /\ SlotsKept'
  <2>1. CASE Exhausted
    BY <2>1, ListFrame DEF ListInv, Exhausted, SmallRequest, LargeRequest, heapUnchanged, tableVars,
       allocVars, gcVars
  <2>2. CASE Place
    BY <2>1, <2>2, ListTakeSlot, ListTakePartial, ListTakeSpan, ListTakeRun DEF Place
  <2>3. CASE UNCHANGED vars
    BY <2>3, ListFrame DEF ListInv, vars, tableVars, allocVars, gcVars
  <2> QED
    BY <2>2, <2>3, ListProgram, ListMark, ListSweep DEF Next, Aborted
<1> QED
  BY <1>1, <1>2 DEF ListInv

LEMMA ListInvariant == Spec => []ListInv
<1>1. Init => ListInv
  BY TypeInit, StructInit, ListInit DEF ListInv, StructInv
<1> QED
  BY <1>1, ListNext, PTL DEF Spec

\* Between collections every free span is on the stack, once, whatever large
\* objects left stale in it: find_free_run and new_span give up only on a heap
\* without free spans.
THEOREM StackHoldsEveryFreeSpan == Spec => []FreeStackComplete
<1>1. ListInv => FreeStackComplete
  BY DEF ListInv, FreeStackKept, Accounted, FreeStackComplete, Idle
<1> QED
  BY <1>1, ListInvariant, PTL

\* Between collections every unused slot of a small span lies ahead of its
\* freeindex in a span that gc_slot still comes to.
THEOREM EverySlotInReach == Spec => []NoSlotLost
<1>1. ListInv => NoSlotLost
  BY DEF ListInv, SlotsKept, Accounted, InReach, NoSlotLost, Idle
<1> QED
  BY <1>1, ListInvariant, PTL

-----------------------------------------------------------------------------
(* Sums.  The fold MapThenSumSet chooses an order in which it takes the        *)
(* elements of a set; Total is the sum whatever the order, with the equations  *)
(* the proof needs.                                                            *)

\* Induction, for a property given as a set.
LEMMA SetInduction ==
    ASSUME NEW S, 0 \in S, \A n \in Nat : n \in S => n + 1 \in S
    PROVE  Nat \subseteq S
<1> DEFINE R == OpToRel(<, Nat)
           T == {n \in Nat : n \notin S}
<1>1. IsWellFoundedOn(R, Nat)
  BY NatLessThanWellFounded
<1>2. \A x, y \in Nat : <<y, x>> \in R <=> y < x
  BY DEF OpToRel
<1> HIDE DEF R
<1> SUFFICES ASSUME T # {} PROVE FALSE
  OBVIOUS
<1>3. \E x \in T : \A y \in T : ~(<<y, x>> \in R)
  <2>1. T \subseteq Nat
    OBVIOUS
  <2> HIDE DEF T
  <2> QED
    BY <1>1, <2>1, WFMin
<1>4. PICK x \in T : \A y \in T : ~(y < x)
  BY <1>2, <1>3
<1>5. x # 0 /\ x - 1 \in Nat /\ x - 1 < x /\ (x - 1) + 1 = x
  OBVIOUS
<1> QED
  BY <1>4, <1>5

\* The same over the finite subsets of a set: a family that holds {} and, with
\* a set, every set of one element more, holds them all.
LEMMA SubsetInduction ==
    ASSUME NEW D, IsFiniteSet(D), NEW F, {} \in F,
           \A S \in SUBSET D : \A x \in D \ S : S \in F => S \cup {x} \in F
    PROVE  \A S \in SUBSET D : S \in F
<1> DEFINE G == {n \in Nat : \A S \in SUBSET D : Cardinality(S) = n => S \in F}
<1>1. \A S \in SUBSET D : IsFiniteSet(S) /\ Cardinality(S) \in Nat
  BY FS_Subset, FS_CardinalityType
<1>2. 0 \in G
  BY <1>1, FS_EmptySet
<1>3. ASSUME NEW n \in Nat, n \in G PROVE n + 1 \in G
  <2> SUFFICES ASSUME NEW S \in SUBSET D, Cardinality(S) = n + 1 PROVE S \in F
    OBVIOUS
  <2>1. PICK x : x \in S
    <3>1. Cardinality(S) # 0
      OBVIOUS
    <3> QED
      BY <3>1, FS_EmptySet
  <2>2. Cardinality(S \ {x}) = n
    <3>1. Cardinality(S \ {x}) = Cardinality(S) - 1
      BY <1>1, <2>1, FS_RemoveElement
    <3> QED
      BY <3>1
  <2>3. S \ {x} \in F /\ (S \ {x}) \cup {x} = S /\ x \in D \ (S \ {x})
    BY <1>3, <2>1, <2>2
  <2> QED
    BY <2>3
<1>4. Nat \subseteq G
  <2> HIDE DEF G
  <2> QED
    BY <1>2, <1>3, SetInduction
<1> QED
  BY <1>1, <1>4

\* h sums g over the subsets of D.
Sums(h, g, D) ==
  /\ h \in [SUBSET D -> Int] /\ h[{}] = 0
  /\ \A S \in SUBSET D : \A x \in S : h[S] = g[x] + h[S \ {x}]

Total(g, D, S) == (CHOOSE h : Sums(h, g, D))[S]

\* There is such a sum: the order in which elements are taken does not matter.
LEMMA SumsExist ==
    ASSUME NEW D, IsFiniteSet(D), NEW g \in [D -> Int]
    PROVE  \E h : Sums(h, g, D)
<1> DEFINE F == {E \in SUBSET D : \E h : Sums(h, g, E)}
<1>1. {} \in F
  <2> DEFINE h == [S \in SUBSET {} |-> 0]
  <2>1. Sums(h, g, {})
    BY DEF Sums
  <2> QED
    BY <2>1
<1>2. ASSUME NEW E \in SUBSET D, NEW x \in D \ E, E \in F PROVE E \cup {x} \in F
  <2>1. PICK h : Sums(h, g, E)
    BY <1>2
  <2> DEFINE k == [S \in SUBSET (E \cup {x}) |-> IF x \in S THEN g[x] + h[S \ {x}] ELSE h[S]]
  <2>2. k \in [SUBSET (E \cup {x}) -> Int]
    <3> SUFFICES ASSUME NEW S \in SUBSET (E \cup {x}) PROVE k[S] \in Int
      OBVIOUS
    <3>1. S \ {x} \in SUBSET E /\ (x \notin S => S \in SUBSET E)
      OBVIOUS
    <3>2. g[x] \in Int
      OBVIOUS
    <3> QED
      BY <2>1, <3>1, <3>2 DEF Sums
  <2>3. k[{}] = 0
    BY <2>1 DEF Sums
  <2>4. ASSUME NEW S \in SUBSET (E \cup {x}), NEW y \in S
        PROVE  k[S] = g[y] + k[S \ {y}]
    <3>1. CASE x \notin S
      <4>1. S \in SUBSET E /\ S \ {y} \in SUBSET E /\ x \notin S \ {y}
        BY <3>1
      <4>2. k[S] = h[S] /\ k[S \ {y}] = h[S \ {y}]
        BY <3>1, <4>1
      <4> QED
        BY <2>1, <4>1, <4>2 DEF Sums
    <3>2. CASE x = y
      <4>1. S \ {y} \in SUBSET E /\ x \notin S \ {y}
        BY <3>2
      <4>2. k[S] = g[y] + h[S \ {y}] /\ k[S \ {y}] = h[S \ {y}]
        BY <3>2, <4>1
      <4> QED
        BY <4>2
    <3>3. CASE x \in S /\ x # y
      <4> DEFINE T == S \ {x}
      <4>1. /\ T \in SUBSET E /\ y \in T /\ T \ {y} \in SUBSET E
            /\ (S \ {y}) \ {x} = T \ {y} /\ S \ {y} \in SUBSET (E \cup {x}) /\ x \in S \ {y}
        BY <3>3
      <4>2. k[S] = g[x] + h[T] /\ k[S \ {y}] = g[x] + h[T \ {y}]
        BY <3>3, <4>1
      <4> HIDE DEF T, k
      <4>3. h[T] = g[y] + h[T \ {y}]
        BY <2>1, <4>1 DEF Sums
      <4>4. g[x] \in Int /\ g[y] \in Int /\ h[T \ {y}] \in Int
        BY <2>1, <4>1 DEF Sums
      <4> QED
        BY <4>2, <4>3, <4>4
    <3> QED
      BY <3>1, <3>2, <3>3
  <2> HIDE DEF k
  <2>5. Sums(k, g, E \cup {x})
    BY <2>2, <2>3, <2>4 DEF Sums
  <2> QED
    BY <2>5
<1> HIDE DEF F
<1>3. D \in F
  BY <1>1, <1>2, SubsetInduction
<1> QED
  BY <1>3 DEF F

LEMMA TotalSums ==
    ASSUME NEW D, IsFiniteSet(D), NEW g \in [D -> Int]
    PROVE  /\ Total(g, D, {}) = 0
           /\ \A S \in SUBSET D :
                /\ Total(g, D, S) \in Int
                /\ \A x \in S : Total(g, D, S) = g[x] + Total(g, D, S \ {x})
                /\ \A x \in D \ S : Total(g, D, S \cup {x}) = g[x] + Total(g, D, S)
<1> DEFINE h == CHOOSE h : Sums(h, g, D)
<1>1. Sums(h, g, D)
  BY SumsExist
<1>2. \A S : Total(g, D, S) = h[S]
  BY DEF Total
<1> HIDE DEF h
<1>3. ASSUME NEW S \in SUBSET D, NEW x \in D \ S
      PROVE  h[S \cup {x}] = g[x] + h[S]
  <2>1. S \cup {x} \in SUBSET D /\ x \in S \cup {x} /\ (S \cup {x}) \ {x} = S
    OBVIOUS
  <2> QED
    BY <1>1, <2>1 DEF Sums
<1> QED
  BY <1>1, <1>2, <1>3 DEF Sums

\* What a sum depends on.
LEMMA TotalSame ==
    ASSUME NEW D, IsFiniteSet(D), NEW g \in [D -> Int], NEW k \in [D -> Int],
           NEW E \in SUBSET D, \A x \in E : g[x] = k[x]
    PROVE  Total(g, D, E) = Total(k, D, E)
<1> DEFINE F == {S \in SUBSET D : S \subseteq E => Total(g, D, S) = Total(k, D, S)}
<1>1. {} \in F
  BY TotalSums
<1>2. ASSUME NEW S \in SUBSET D, NEW x \in D \ S, S \in F PROVE S \cup {x} \in F
  BY <1>2, TotalSums
<1> HIDE DEF F
<1>3. E \in F
  BY <1>1, <1>2, SubsetInduction
<1> QED
  BY <1>3 DEF F

LEMMA WordsFinite == IsFiniteSet(Spans) /\ IsFiniteSet(Offsets) /\ IsFiniteSet(Words)
<1>1. 0 \in Int /\ NSpans - 1 \in Int /\ SpanWords - 1 \in Int
  BY SpanType
<1>2. IsFiniteSet(Spans) /\ IsFiniteSet(Offsets)
  BY <1>1, FS_Interval DEF Spans, Offsets
<1> QED
  BY <1>2, FS_Product DEF Words

\* The sum over the slots of K in span i, all of one size.
LEMMA TotalSlots ==
    ASSUME NEW g \in [Words -> Int], NEW i \in Spans, NEW e \in Int,
           NEW S \in SUBSET Words, NEW K \in SUBSET Offsets,
           \A k \in K : <<i, k>> \notin S /\ g[<<i, k>>] = e
    PROVE  Total(g, Words, S \cup {<<i, k>> : k \in K}) = Total(g, Words, S) + Cardinality(K) * e
<1> DEFINE Slots(L) == S \cup {<<i, k>> : k \in L}
           F == {L \in SUBSET Offsets : L \subseteq K =>
                   Total(g, Words, Slots(L)) = Total(g, Words, S) + Cardinality(L) * e}
<1>1. IsFiniteSet(Offsets) /\ \A L \in SUBSET Offsets : IsFiniteSet(L) /\ Cardinality(L) \in Nat
  BY WordsFinite, FS_Subset, FS_CardinalityType
<1>2. Total(g, Words, S) \in Int
  BY WordsFinite, TotalSums
<1>3. {} \in F
  <2>1. Slots({}) = S /\ Cardinality({}) = 0
    BY FS_EmptySet
  <2> HIDE DEF Slots
  <2> QED
    BY <1>2, <2>1
<1>4. ASSUME NEW L \in SUBSET Offsets, NEW k \in Offsets \ L, L \in F PROVE L \cup {k} \in F
  <2> SUFFICES ASSUME L \cup {k} \subseteq K
               PROVE  Total(g, Words, Slots(L \cup {k})) = Total(g, Words, S) + Cardinality(L \cup {k}) * e
    OBVIOUS
  <2>1. <<i, k>> \in Words /\ Slots(L) \in SUBSET Words /\ <<i, k>> \notin Slots(L)
    BY DEF Words
  <2>2. Slots(L \cup {k}) = Slots(L) \cup {<<i, k>>}
    OBVIOUS
  <2>3. Total(g, Words, Slots(L)) = Total(g, Words, S) + Cardinality(L) * e
    BY <1>4
  <2>4. Cardinality(L \cup {k}) = Cardinality(L) + 1
    BY <1>1, FS_AddElement
  <2>5. (Cardinality(L) + 1) * e = Cardinality(L) * e + e
    BY <1>1
  <2>6. g[<<i, k>>] = e
    OBVIOUS
  <2> HIDE DEF Slots
  <2>7. Total(g, Words, Slots(L \cup {k})) = e + Total(g, Words, Slots(L))
    <3>1. <<i, k>> \in Words \ Slots(L)
      BY <2>1
    <3>2. Total(g, Words, Slots(L) \cup {<<i, k>>}) = g[<<i, k>>] + Total(g, Words, Slots(L))
      BY <2>1, <3>1, WordsFinite, TotalSums
    <3> QED
      BY <2>2, <2>6, <3>2
  <2>8. Cardinality(L) * e \in Int
    BY <1>1
  <2> QED
    BY <1>2, <2>3, <2>4, <2>5, <2>7, <2>8
<1> HIDE DEF F
<1>5. K \in F
  BY <1>1, <1>3, <1>4, SubsetInduction
<1> QED
  BY <1>5 DEF F

\* The space each word stands for when it names an object.
Space == [o \in Words |-> SpaceOf(o)]


LEMMA SpaceType ==
    ASSUME TypeOK
    PROVE  Space \in [Words -> Int] /\ \A o \in Words : SpaceOf(o) \in Nat
<1> SUFFICES ASSUME NEW o \in Words PROVE SpaceOf(o) \in Nat
  BY DEF Space
<1>1. o[1] \in Spans
  BY DEF Words
<1>2. run_len[o[1]] \in Nat /\ cls[o[1]] \in Classes
  BY <1>1, SpanType DEF TypeOK
<1>3. Elem[cls[o[1]]] \in Nat
  BY <1>2, ElemType, SpanType
<1> QED
  BY <1>2, <1>3, SpanType DEF SpaceOf

\* The fold of the model is that sum.
LEMMA FoldIsTotal ==
    ASSUME TypeOK, NEW S \in SUBSET Words
    PROVE  MapThenSumSet(SpaceOf, S) = Total(Space, Words, S)
<1> DEFINE G(s) == Total(Space, Words, s)
           one(s) == CHOOSE x \in s : TRUE
           Fold(f) == f = [s \in SUBSET S |-> IF s = {} THEN 0
                             ELSE SpaceOf(CHOOSE x \in s : TRUE) + f[s \ {CHOOSE x \in s : TRUE}]]
<1>1. /\ G({}) = 0
      /\ \A s \in SUBSET S : s # {} => /\ one(s) \in s /\ SpaceOf(one(s)) = Space[one(s)]
                                      /\ G(s) = SpaceOf(one(s)) + G(s \ {one(s)})
  <2>1. \A s \in SUBSET S : s # {} => one(s) \in s /\ one(s) \in Words
    OBVIOUS
  <2>2. \A x \in Words : SpaceOf(x) = Space[x]
    BY DEF Space
  <2> HIDE DEF one
  <2> QED
    BY <2>1, <2>2, TotalSums, WordsFinite, SpaceType
<1>2. Fold([s \in SUBSET S |-> G(s)])
  <2> DEFINE f == [s \in SUBSET S |-> G(s)]
  <2>1. \A s \in SUBSET S : f[s] = IF s = {} THEN 0 ELSE SpaceOf(one(s)) + f[s \ {one(s)}]
    <3> TAKE s \in SUBSET S
    <3>1. f[s] = G(s) /\ f[s \ {one(s)}] = G(s \ {one(s)})
      OBVIOUS
    <3> HIDE DEF f, G, one
    <3> QED
      BY <1>1, <3>1
  <2>2. f = [s \in SUBSET S |-> f[s]]
    OBVIOUS
  <2> HIDE DEF f
  <2>3. Fold(f)
    BY <2>1, <2>2
  <2> QED
    BY <2>3 DEF f
<1>3. ASSUME NEW f, Fold(f) PROVE f[S] = G(S)
  <2>1. f[{}] = 0 /\ \A s \in SUBSET S : s # {} => f[s] = SpaceOf(one(s)) + f[s \ {one(s)}]
    BY <1>3
  <2> DEFINE H == {n \in Nat : \A s \in SUBSET S : Cardinality(s) = n => f[s] = G(s)}
  <2>2. \A s \in SUBSET S : IsFiniteSet(s) /\ Cardinality(s) \in Nat
    BY WordsFinite, FS_Subset, FS_CardinalityType
  <2>3. 0 \in H
    BY <1>1, <2>1, <2>2, FS_EmptySet
  <2>4. ASSUME NEW n \in Nat, n \in H PROVE n + 1 \in H
    <3> SUFFICES ASSUME NEW s \in SUBSET S, Cardinality(s) = n + 1 PROVE f[s] = G(s)
      OBVIOUS
    <3>1. s # {} /\ s \ {one(s)} \in SUBSET S
      BY FS_EmptySet
    <3>2. one(s) \in s
      BY <1>1, <3>1
    <3>3. Cardinality(s \ {one(s)}) = Cardinality(s) - 1
      BY <2>2, <3>2, FS_RemoveElement
    <3>4. f[s \ {one(s)}] = G(s \ {one(s)})
      BY <2>4, <3>1, <3>3
    <3> HIDE DEF G, one, H
    <3> QED
      BY <1>1, <2>1, <3>1, <3>4
  <2>5. Nat \subseteq H
    <3> HIDE DEF H
    <3> QED
      BY <2>3, <2>4, SetInduction
  <2> QED
    BY <2>2, <2>5
<1>4. \A f : Fold(f) => f[S] = G(S)
  BY <1>3
<1>5. \E f : Fold(f)
  BY <1>2
<1> QED
  BY <1>4, <1>5 DEF MapThenSumSet, MapThenFoldSet

-----------------------------------------------------------------------------
(* Pacing: the inductive invariant *)

\* The spans in use; the objects the sweep has left behind; those in span i.
InUse  == {i \in Spans : span_state[i] # "free"}
Behind == {o \in Objects : o[1] < sweep_at}
At(i)  == {o \in Objects : o[1] = i}

\* PacingKept, with those sums.
Counted ==
  /\ spans_in_use = Cardinality(InUse)
  /\ pc # "sweep" => last_live + since_gc = Total(Space, Words, Objects)
  /\ pc = "sweep" => live = Total(Space, Words, Behind)

\* The trigger is the one the knobs ask for.
Paced == trigger_delta = IF stress_every > 0 THEN 0 ELSE TriggerFor(last_live, min_trigger)

PacingInv == StructInv /\ Counted /\ Paced

LEMMA ObjectsAreWords == Objects \subseteq Words /\ Behind \subseteq Words /\ \A i : At(i) \subseteq Words
BY DEF Objects, SmallObjects, LargeObjects, Behind, At

LEMMA InUseFinite == IsFiniteSet(InUse) /\ Cardinality(InUse) \in Nat
BY WordsFinite, FS_Subset, FS_CardinalityType DEF InUse

LEMMA PacingMeans == TypeOK => (PacingKept <=> Counted /\ Paced)
BY FoldIsTotal, ObjectsAreWords DEF PacingKept, Counted, Paced, InUse, Behind

LEMMA SpaceIs == TypeOK => Space \in [Words -> Int]
BY SpaceType

LEMMA SpaceNext == (TypeOK => Space \in [Words -> Int])'
BY SpaceIs, PTL

\* Steps that leave the objects alone.
LEMMA SameObjects ==
  ASSUME UNCHANGED <<span_state, cls, run_len, alloc_bits>>
  PROVE  Space' = Space /\ Objects' = Objects /\ InUse' = InUse
BY DEF Space, SpaceOf, Objects, SmallObjects, LargeObjects, InUse

LEMMA PacingFrame ==
  ASSUME Counted, UNCHANGED <<span_state, cls, run_len, alloc_bits, spans_in_use, last_live, since_gc>>,
         pc # "sweep" /\ pc' # "sweep"
  PROVE  Counted'
BY SameObjects DEF Counted

LEMMA PacedFrame ==
  ASSUME Paced, UNCHANGED <<trigger_delta, stress_every, last_live, min_trigger>>
  PROVE  Paced'
BY DEF Paced, TriggerFor

LEMMA PacingInit == Init => Counted /\ Paced
<1> SUFFICES ASSUME Init PROVE Counted /\ Paced
  OBVIOUS
<1>1. TypeOK
  BY TypeInit DEF TypeInv
<1>2. InUse = {} /\ Objects = {}
  BY DEF Init, InUse, Objects, SmallObjects, LargeObjects, Words
<1>3. Cardinality(InUse) = 0
  BY <1>2, FS_EmptySet
<1>4. Total(Space, Words, Objects) = 0
  BY <1>1, <1>2, TotalSums, WordsFinite, SpaceType
<1>5. Counted
  BY <1>3, <1>4 DEF Init, Counted
<1>6. Paced
  <2>1. ~(0 > min_trigger)
    BY <1>1 DEF TypeOK
  <2> QED
    BY <2>1 DEF Init, Paced, TriggerFor
<1> QED
  BY <1>5, <1>6

-----------------------------------------------------------------------------
(* The program and marking *)

LEMMA PacingProgram ==
  ASSUME PacingInv, Program
  PROVE  Counted' /\ Paced'
<1>1. /\ UNCHANGED <<span_state, cls, run_len, alloc_bits, spans_in_use, last_live, since_gc>>
      /\ pc = "run" /\ pc' # "sweep"
  BY DEF Program, Drop, PointInto, Load, Store, StoreInt, SetInt, Request, RequestTooLarge, Collect,
         BeginMark, SetMinTrigger, SetStress, heapUnchanged, tableVars, allocVars, paceVars
<1>2. CASE UNCHANGED <<trigger_delta, stress_every, min_trigger>>
  BY <1>1, <1>2, PacingFrame, PacedFrame DEF PacingInv
<1>3. CASE \E m \in MinTriggers : SetMinTrigger(m)
  <2>1. Paced'
    BY <1>3 DEF SetMinTrigger, Paced, TriggerFor
  <2> QED
    BY <1>1, <2>1, PacingFrame DEF PacingInv
<1>4. CASE \E n \in StressLevels : SetStress(n)
  <2>1. Paced'
    BY <1>4 DEF SetStress, Paced, TriggerFor
  <2> QED
    BY <1>1, <2>1, PacingFrame DEF PacingInv
<1> QED
  BY <1>2, <1>3, <1>4
  DEF Program, Drop, PointInto, Load, Store, StoreInt, SetInt, Request, RequestTooLarge, Collect,
      BeginMark, heapUnchanged, paceVars, knobVars

LEMMA PacingMark ==
  ASSUME PacingInv, Mark
  PROVE  Counted' /\ Paced'
<1>1. CASE BeginSweep
  <2>1. /\ UNCHANGED <<span_state, cls, run_len, alloc_bits, spans_in_use>>
        /\ pc' = "sweep" /\ sweep_at' = 0 /\ live' = 0
    BY <1>1 DEF BeginSweep, StartSweep, tableVars
  <2>2. Behind' = {}
    BY <2>1, SameObjects, ObjectsAreWords DEF Behind, Words, Spans
  <2>3. TypeOK'
    BY StructNext DEF PacingInv, StructInv, TypeInv, Next
  <2>4. Total(Space', Words, {}) = 0
    BY <2>3, TotalSums, WordsFinite, SpaceNext
  <2>5. Counted'
    BY <2>1, <2>2, <2>4, SameObjects DEF Counted, PacingInv
  <2>6. Paced'
    BY <1>1, PacedFrame DEF PacingInv, BeginSweep, StartSweep, paceVars, knobVars
  <2> QED
    BY <2>5, <2>6
<1>2. CASE \E o \in Words : ScanObject(o)
  <2>1. /\ UNCHANGED <<span_state, cls, run_len, alloc_bits, spans_in_use, last_live, since_gc>>
        /\ UNCHANGED <<trigger_delta, stress_every, min_trigger>>
        /\ pc # "sweep" /\ pc' # "sweep"
    BY <1>2 DEF ScanObject, tableVars, allocVars, paceVars, knobVars
  <2> QED
    BY <2>1, PacingFrame, PacedFrame DEF PacingInv
<1> QED
  BY <1>1, <1>2 DEF Mark

-----------------------------------------------------------------------------
(* The sweep *)

\* Looking at span i counts the objects it leaves there.
LEMMA CountSpan ==
  ASSUME PacingInv, TypeOK', NEW i \in Spans, Sweeping(i),
         \A j \in Spans : j < i => span_state'[j] = span_state[j] /\ alloc_bits'[j] = alloc_bits[j]
  PROVE  /\ Behind' = Behind \cup At(i)' /\ Behind \cap At(i)' = {}
         /\ Total(Space', Words, Behind) = live
<1>1. /\ pc = "sweep" /\ sweep_at = i /\ sweep_at' = i + 1
      /\ cls' = cls /\ run_len' = run_len
  BY DEF Sweeping
<1>2. \A o \in Words : o[1] \in Spans
  BY DEF Words
<1>3. \A j \in Spans : j \in Int /\ (j < i + 1 <=> j < i \/ j = i)
  BY DEF Spans
<1>4. \A o \in Words : o[1] < i => (o \in Objects' <=> o \in Objects)
  BY <1>2 DEF Objects, SmallObjects, LargeObjects
<1>5. Objects \subseteq Words /\ Objects' \subseteq Words
  BY DEF Objects, SmallObjects, LargeObjects
<1>6. ASSUME NEW o PROVE o \in Behind' <=> o \in Behind \cup At(i)'
  BY <1>1, <1>2, <1>3, <1>4, <1>5 DEF Behind, At
<1>7. Behind \cap At(i)' = {}
  BY <1>1, <1>3, <1>5, <1>2 DEF Behind, At
<1>8. \A o \in Behind : Space[o] = Space'[o]
  <2> SUFFICES ASSUME NEW o \in Behind PROVE Space[o] = Space'[o]
    OBVIOUS
  <2>1. o \in Words /\ o[1] \in Spans /\ o[1] < i
    BY <1>1, <1>2, <1>5 DEF Behind
  <2> QED
    BY <1>1, <2>1 DEF Space, SpaceOf
<1>9. Space' \in [Words -> Int]
  BY SpaceNext
<1>10. Total(Space, Words, Behind) = Total(Space', Words, Behind)
  BY <1>8, <1>9, TotalSame, WordsFinite, SpaceType, ObjectsAreWords DEF PacingInv, StructInv, TypeInv
<1>11. live = Total(Space, Words, Behind)
  BY <1>1 DEF PacingInv, Counted
<1> QED
  BY <1>6, <1>7, <1>10, <1>11

\* ... which are none, one large object, or the marked slots of a small span.
LEMMA SweptObjects ==
  ASSUME PacingInv, TypeOK', NEW i \in Spans, Sweeping(i),
         \A j \in Spans : j < i => span_state'[j] = span_state[j] /\ alloc_bits'[j] = alloc_bits[j],
         \/ span_state'[i] \in {"free", "cont"} /\ live' = live
         \/ span_state'[i] = "large" /\ live' = live + run_len[i] * SpanWords
         \/ /\ span_state'[i] = "small"
            /\ live' = live + Cardinality(alloc_bits'[i]) * Elem[cls[i]]
  PROVE  pc' = "sweep" /\ live' = Total(Space', Words, Behind')
<1>1. pc' = "sweep" /\ cls' = cls /\ run_len' = run_len
  BY DEF Sweeping
<1>2. /\ Behind' = Behind \cup At(i)' /\ Behind \cap At(i)' = {}
      /\ Total(Space', Words, Behind) = live
  BY CountSpan
<1>3. Space' \in [Words -> Int] /\ Behind \subseteq Words
  BY SpaceNext, ObjectsAreWords
<1>4. 0 \in Offsets
  BY SpanType
<1>5. CASE span_state'[i] \in {"free", "cont"} /\ live' = live
  <2>1. At(i)' = {}
    BY <1>5 DEF At, Objects, SmallObjects, LargeObjects
  <2>2. Behind' = Behind
    BY <1>2, <2>1
  <2> QED
    BY <1>1, <1>2, <1>5, <2>2
<1>6. CASE span_state'[i] = "large" /\ live' = live + run_len[i] * SpanWords
  <2>1. At(i)' = {<<i, 0>>} /\ <<i, 0>> \in Words
    BY <1>4, <1>6 DEF At, Objects, SmallObjects, LargeObjects, Words
  <2>2. Space'[<<i, 0>>] = run_len[i] * SpanWords
    BY <1>1, <1>6, <2>1 DEF Space, SpaceOf
  <2>3. Total(Space', Words, Behind \cup {<<i, 0>>}) = Space'[<<i, 0>>] + live
    BY <1>2, <1>3, <2>1, TotalSums, WordsFinite
  <2>4. live \in Int /\ run_len[i] * SpanWords \in Int
    <3>1. live \in Int /\ run_len[i] \in Int
      BY DEF PacingInv, StructInv, TypeInv, TypeOK
    <3> QED
      BY <3>1, SpanType
  <2> QED
    BY <1>1, <1>2, <1>6, <2>1, <2>2, <2>3, <2>4
<1>7. CASE /\ span_state'[i] = "small"
           /\ live' = live + Cardinality(alloc_bits'[i]) * Elem[cls[i]]
  <2> DEFINE K == alloc_bits'[i]  e == Elem[cls[i]]
  <2>1. K \in SUBSET Offsets /\ e \in Int
    <3>1. cls[i] \in Classes /\ alloc_bits' \in [Spans -> SUBSET Offsets]
      BY DEF PacingInv, StructInv, TypeInv, TypeOK
    <3> QED
      BY <3>1, ElemType, SpanType
  <2>2. At(i)' = {<<i, k>> : k \in K}
    <3>1. ASSUME NEW o PROVE o \in At(i)' <=> o \in {<<i, k>> : k \in K}
      BY <1>7, <2>1 DEF At, Objects, SmallObjects, LargeObjects, Words
    <3> QED
      BY <3>1
  <2>3. \A k \in K : <<i, k>> \notin Behind /\ Space'[<<i, k>>] = e
    <3> TAKE k \in K
    <3>1. <<i, k>> \in Words /\ <<i, k>>[1] = i
      BY <2>1 DEF Words
    <3>2. <<i, k>> \notin Behind
      BY <1>2, <2>2
    <3>3. Space'[<<i, k>>] = e
      BY <1>1, <1>7, <3>1 DEF Space, SpaceOf
    <3> QED
      BY <3>2, <3>3
  <2> HIDE DEF K, e
  <2>4. Total(Space', Words, Behind \cup {<<i, k>> : k \in K})
          = Total(Space', Words, Behind) + Cardinality(K) * e
    BY <1>3, <2>1, <2>3, TotalSlots
  <2> QED
    BY <1>1, <1>2, <1>7, <2>2, <2>4 DEF K, e
<1> QED
  BY <1>5, <1>6, <1>7

LEMMA PacingSweep ==
  ASSUME PacingInv, Sweep
  PROVE  Counted' /\ Paced'
<1>1. TypeOK /\ Structure /\ TypeOK'
  BY StructNext DEF PacingInv, StructInv, TypeInv, Next
<1>2. CASE FinishSweep
  <2>1. /\ UNCHANGED <<span_state, cls, run_len, alloc_bits, spans_in_use>>
        /\ last_live' = live /\ since_gc' = 0 /\ pc' # "sweep"
        /\ pc = "sweep" /\ sweep_at = next_fresh
        /\ stress_every' = stress_every /\ min_trigger' = min_trigger
        /\ trigger_delta' = IF stress_every > 0 THEN 0 ELSE TriggerFor(live, min_trigger)
    BY <1>2 DEF FinishSweep, tableVars, allocVars, knobVars
  <2>2. Behind = Objects
    <3>1. \A o \in Objects : o[1] \in Spans /\ span_state[o[1]] # "free"
      BY DEF Objects, SmallObjects, LargeObjects, Words
    <3> QED
      BY <1>1, <2>1, <3>1 DEF Behind, Structure, TableInRange
  <2>3. live \in Int
    BY <1>1 DEF TypeOK
  <2>4. Counted'
    BY <2>1, <2>2, <2>3, SameObjects DEF Counted, PacingInv
  <2>5. Paced'
    BY <2>1 DEF Paced, TriggerFor
  <2> QED
    BY <2>4, <2>5
<1>3. ASSUME NEW i \in Spans, SweepCont(i) \/ SweepFree(i) \/ SweepLarge(i) \/ SweepSmall(i)
      PROVE  Counted' /\ Paced'
  <2>1. Sweeping(i)
    BY <1>3 DEF SweepCont, SweepFree, SweepLarge, SweepSmall
  <2>2. /\ UNCHANGED <<last_live, since_gc, trigger_delta, stress_every, min_trigger>>
        /\ pc = "sweep" /\ pc' = "sweep"
    BY <2>1 DEF Sweeping, paceVars, knobVars
  <2>3. Paced'
    BY <2>2, PacedFrame DEF PacingInv
  <2>4. /\ spans_in_use = Cardinality(InUse) /\ IsFiniteSet(InUse) /\ Cardinality(InUse) \in Nat
        /\ spans_in_use \in Int /\ i \in Nat
    BY <1>1, InUseFinite DEF PacingInv, Counted, TypeOK, Spans
  <2>5. CASE SweepCont(i) \/ SweepFree(i)
    <3>1. /\ UNCHANGED <<span_state, alloc_bits, spans_in_use>>
          /\ span_state'[i] \in {"free", "cont"} /\ live' = live
      BY <2>5 DEF SweepCont, SweepFree
    <3>2. live' = Total(Space', Words, Behind')
      BY <1>1, <2>1, <3>1, SweptObjects
    <3>3. InUse' = InUse
      BY <3>1 DEF InUse
    <3> QED
      BY <2>2, <2>3, <2>4, <3>1, <3>2, <3>3 DEF Counted
  <2>6. CASE SweepLarge(i) /\ KeepRun(i)
    <3>1. /\ UNCHANGED <<span_state, alloc_bits, spans_in_use>>
          /\ span_state'[i] = "large" /\ live' = live + run_len[i] * SpanWords
      BY <2>6 DEF SweepLarge, KeepRun
    <3>2. live' = Total(Space', Words, Behind')
      BY <1>1, <2>1, <3>1, SweptObjects
    <3>3. InUse' = InUse
      BY <3>1 DEF InUse
    <3> QED
      BY <2>2, <2>3, <2>4, <3>1, <3>2, <3>3 DEF Counted
  <2>7. CASE SweepLarge(i) /\ FreeRun(i)
    <3> DEFINE n == run_len[i]  run == i .. i + n - 1
    <3>1. n \in Nat \ {0} /\ \A j \in run : j \in Spans /\ span_state[j] # "free"
      BY <1>1, <2>7, RunInHeap DEF Structure, SweepLarge
    <3>2. /\ alloc_bits' = alloc_bits /\ live' = live /\ spans_in_use' = spans_in_use - n
          /\ span_state' = [j \in Spans |-> IF j \in run THEN "free" ELSE span_state[j]]
      BY <2>7 DEF SweepLarge, FreeRun
    <3> HIDE DEF n
    <3>3. \A j \in Spans : span_state'[j] = IF j \in run THEN "free" ELSE span_state[j]
      BY <3>2
    <3>4. i \in run /\ \A j \in Spans : j < i => j \notin run
      BY <2>4, <3>1 DEF Spans
    <3>5. span_state'[i] = "free" /\ \A j \in Spans : j < i => span_state'[j] = span_state[j]
      BY <3>3, <3>4
    <3>6. live' = Total(Space', Words, Behind')
      BY <1>1, <2>1, <3>2, <3>5, SweptObjects
    <3>7. InUse' = InUse \ run /\ InUse \cap run = run
      BY <3>1, <3>3 DEF InUse
    <3>8. Cardinality(run) = n
      BY <2>4, <3>1, FS_Interval
    <3> HIDE DEF run
    <3>9. Cardinality(InUse \ run) = Cardinality(InUse) - Cardinality(InUse \cap run)
      BY <2>4, FS_Difference
    <3> QED
      BY <2>2, <2>3, <2>4, <3>2, <3>6, <3>7, <3>8, <3>9 DEF Counted
  <2>8. CASE SweepSmall(i) /\ mark_bits[i] = {}
    <3>1. /\ span_state' = [span_state EXCEPT ![i] = "free"] /\ live' = live
          /\ spans_in_use' = spans_in_use - 1 /\ span_state[i] = "small"
          /\ alloc_bits' = [alloc_bits EXCEPT ![i] = mark_bits[i]]
      BY <2>8 DEF SweepSmall
    <3>2. /\ span_state'[i] = "free"
          /\ \A j \in Spans : j < i => span_state'[j] = span_state[j] /\ alloc_bits'[j] = alloc_bits[j]
      BY <1>1, <2>4, <3>1 DEF TypeOK
    <3>3. live' = Total(Space', Words, Behind')
      BY <1>1, <2>1, <3>1, <3>2, SweptObjects
    <3>4. InUse' = InUse \ {i} /\ i \in InUse
      BY <1>1, <3>1 DEF InUse, TypeOK
    <3>5. Cardinality(InUse \ {i}) = Cardinality(InUse) - 1
      BY <2>4, <3>4, FS_RemoveElement
    <3> QED
      BY <2>2, <2>3, <2>4, <3>1, <3>3, <3>4, <3>5 DEF Counted
  <2>9. CASE SweepSmall(i) /\ mark_bits[i] # {}
    <3>1. /\ UNCHANGED <<span_state, spans_in_use>> /\ span_state[i] = "small"
          /\ alloc_bits' = [alloc_bits EXCEPT ![i] = mark_bits[i]]
          /\ live' = live + Cardinality(mark_bits[i]) * Elem[cls[i]]
      BY <2>9 DEF SweepSmall
    <3>2. /\ span_state'[i] = "small" /\ alloc_bits'[i] = mark_bits[i]
          /\ \A j \in Spans : j < i => span_state'[j] = span_state[j] /\ alloc_bits'[j] = alloc_bits[j]
      BY <1>1, <2>4, <3>1 DEF TypeOK
    <3>3. live' = Total(Space', Words, Behind')
      BY <1>1, <2>1, <3>1, <3>2, SweptObjects
    <3>4. InUse' = InUse
      BY <3>1 DEF InUse
    <3> QED
      BY <2>2, <2>3, <2>4, <3>1, <3>3, <3>4 DEF Counted
  <2> QED
    BY <1>3, <2>5, <2>6, <2>7, <2>8, <2>9 DEF SweepLarge
<1> QED
  BY <1>2, <1>3 DEF Sweep

-----------------------------------------------------------------------------
(* Allocation *)

\* A placement adds one object, and nothing else changes size.
LEMMA CountObject ==
  ASSUME PacingInv, TypeOK', pc = "alloc", pc' # "sweep", NEW o \in Words \ Objects,
         Objects' = Objects \cup {o}, \A p \in Objects : Space'[p] = Space[p],
         last_live' = last_live, since_gc' = since_gc + Space'[o]
  PROVE  last_live' + since_gc' = Total(Space', Words, Objects')
<1>1. Space \in [Words -> Int] /\ Space' \in [Words -> Int] /\ Objects \subseteq Words
  BY SpaceType, SpaceNext, ObjectsAreWords DEF PacingInv, StructInv, TypeInv
<1>2. Total(Space', Words, Objects) = Total(Space, Words, Objects)
  BY <1>1, TotalSame, WordsFinite
<1>3. Total(Space', Words, Objects') = Space'[o] + Total(Space', Words, Objects)
  BY <1>1, TotalSums, WordsFinite
<1>4. last_live + since_gc = Total(Space, Words, Objects)
  BY DEF PacingInv, Counted
<1>5. last_live \in Int /\ since_gc \in Int /\ Space'[o] \in Int
  BY <1>1 DEF PacingInv, StructInv, TypeInv, TypeOK
<1> QED
  BY <1>2, <1>3, <1>4, <1>5

LEMMA PacingTakeSlot ==
  ASSUME PacingInv, TypeOK', NEW c \in Classes, TakeSlot(c)
  PROVE  Counted'
<1> DEFINE i == cur_span[c]
<1>1. i \in Spans /\ span_state[i] = "small" /\ cls[i] = c
  <2>1. i \in Spans
    BY DEF TakeSlot, NoSlotIn, PacingInv, StructInv, TypeInv, TypeOK, NoSpan
  <2>2. i # NoSpan
    BY DEF TakeSlot, NoSlotIn
  <2> QED
    BY <2>1, <2>2 DEF PacingInv, StructInv, Structure, ClassListsSound
<1>2. PICK k \in FreeSlots(i) : alloc_bits' = [alloc_bits EXCEPT ![i] = alloc_bits[i] \cup {k}]
  BY DEF TakeSlot, Lowest
<1>3. /\ UNCHANGED <<span_state, cls, run_len, spans_in_use, last_live>> /\ since_gc' = since_gc + Elem[c]
      /\ pc = "alloc" /\ pc' = "run"
  BY DEF TakeSlot, SmallRequest, Return, allocVars
<1>4. k \in Offsets /\ k \notin alloc_bits[i]
  BY <1>1, <1>2, FreeSlotType DEF FreeSlots, PacingInv, StructInv, Structure
<1> HIDE DEF i
<1>5. <<i, k>> \in Words \ Objects
  BY <1>1, <1>4 DEF Objects, SmallObjects, LargeObjects, Words
<1>6. Objects' = Objects \cup {<<i, k>>}
  <2>1. \A j \in Spans : alloc_bits'[j] = IF j = i THEN alloc_bits[i] \cup {k} ELSE alloc_bits[j]
    BY <1>2 DEF PacingInv, StructInv, TypeInv, TypeOK
  <2>2. ASSUME NEW o \in Words PROVE o \in Objects' <=> o \in Objects \/ o = <<i, k>>
    <3>1. o[1] \in Spans /\ (o = <<i, k>> <=> o[1] = i /\ o[2] = k)
      BY <1>1, <1>4 DEF Words
    <3> QED
      BY <1>1, <1>3, <2>1, <3>1 DEF Objects, SmallObjects, LargeObjects
  <2>3. Objects \subseteq Words /\ Objects' \subseteq Words
    BY DEF Objects, SmallObjects, LargeObjects
  <2> QED
    BY <1>5, <2>2, <2>3
<1>7. Space' = Space /\ InUse' = InUse
  BY <1>3 DEF Space, SpaceOf, InUse
<1>8. Space'[<<i, k>>] = Elem[c]
  BY <1>1, <1>3, <1>5 DEF Space, SpaceOf
<1>9. last_live' + since_gc' = Total(Space', Words, Objects')
  BY <1>3, <1>5, <1>6, <1>7, <1>8, CountObject
<1> QED
  BY <1>3, <1>7, <1>9 DEF Counted, PacingInv

LEMMA PacingNewSpan ==
  ASSUME PacingInv, TypeOK', NEW c \in Classes, NEW i \in Spans, NewSpan(c, i), span_state[i] = "free"
  PROVE  Counted'
<1>1. /\ span_state' = [span_state EXCEPT ![i] = "small"] /\ cls' = [cls EXCEPT ![i] = c]
      /\ alloc_bits' = [alloc_bits EXCEPT ![i] = {}] /\ run_len' = run_len
      /\ spans_in_use' = spans_in_use + 1 /\ last_live' = last_live /\ since_gc' = since_gc
      /\ pc = "alloc" /\ pc' = "alloc"
  BY DEF NewSpan, SmallRequest, paceVars
<1>2. \A j \in Spans :
        /\ j # i => /\ span_state'[j] = span_state[j] /\ cls'[j] = cls[j]
                    /\ alloc_bits'[j] = alloc_bits[j]
        /\ j = i => span_state'[j] = "small" /\ alloc_bits'[j] = {}
  BY <1>1 DEF PacingInv, StructInv, TypeInv, TypeOK
<1>3. \A o \in Words : o[1] \in Spans
  BY DEF Words
<1>4. Objects' = Objects
  <2>1. ASSUME NEW o \in Words PROVE o \in Objects' <=> o \in Objects
    BY <1>2, <1>3 DEF Objects, SmallObjects, LargeObjects
  <2> QED
    BY <2>1 DEF Objects, SmallObjects, LargeObjects
<1>5. \A o \in Objects : o \in Words /\ o[1] # i
  BY DEF Objects, SmallObjects, LargeObjects
<1>6. \A o \in Objects : Space'[o] = Space[o]
  BY <1>1, <1>2, <1>3, <1>5 DEF Space, SpaceOf
<1>7. Total(Space', Words, Objects) = Total(Space, Words, Objects)
  BY <1>6, TotalSame, WordsFinite, SpaceType, SpaceNext, ObjectsAreWords DEF PacingInv, StructInv, TypeInv
<1>8. InUse' = InUse \cup {i} /\ i \notin InUse
  BY <1>2 DEF InUse
<1>9. Cardinality(InUse \cup {i}) = Cardinality(InUse) + 1
  BY <1>8, InUseFinite, FS_AddElement
<1> QED
  BY <1>1, <1>4, <1>7, <1>8, <1>9 DEF Counted, PacingInv

LEMMA PacingNewRun ==
  ASSUME PacingInv, TypeOK', pc = "alloc", NEW n \in 1 .. NSpans, NEW h \in Spans, NEW zero, NewRun(h, n, zero),
         \A j \in h .. h + n - 1 : j \in Spans /\ span_state[j] = "free"
  PROVE  Counted'
<1> DEFINE run == h .. h + n - 1
<1>1. /\ span_state' = [i \in Spans |-> IF i = h THEN "large" ELSE
                                        IF i \in h + 1 .. h + n - 1 THEN "cont" ELSE span_state[i]]
      /\ run_len' = [run_len EXCEPT ![h] = n] /\ UNCHANGED <<cls, alloc_bits>>
      /\ spans_in_use' = spans_in_use + n /\ last_live' = last_live
      /\ since_gc' = since_gc + n * SpanWords /\ pc' = "run"
  BY DEF NewRun, Return
<1>2. n \in Nat /\ n > 0 /\ h \in Nat /\ \A j \in Spans : j \in Nat
  BY SpanType DEF Spans
<1>3. /\ \A j \in Spans : j # h => run_len'[j] = run_len[j]
      /\ \A j \in Spans : j \in run \/ span_state'[j] = span_state[j]
      /\ \A j \in Spans : j \in run /\ j # h => span_state'[j] = "cont"
      /\ h \in run /\ span_state'[h] = "large" /\ run_len'[h] = n
  <2>1. /\ run_len' \in [Spans -> 0 .. NSpans]
        /\ \A j \in Spans : j # h => run_len'[j] = run_len[j]
        /\ run_len'[h] = n
    BY <1>1 DEF PacingInv, StructInv, TypeInv, TypeOK
  <2>2. h \in run /\ \A j \in Spans : j \in run <=> j = h \/ j \in h + 1 .. h + n - 1
    BY <1>2
  <2>3. ~(h \in h + 1 .. h + n - 1)
    BY <1>2
  <2> HIDE DEF run
  <2> QED
    BY <1>1, <2>1, <2>2, <2>3
<1>4. \A j \in run : j \in Spans /\ span_state[j] = "free"
  OBVIOUS
<1> HIDE DEF run
<1>5. <<h, 0>> \in Words /\ \A o \in Words : o[1] \in Spans /\ (o = <<h, 0>> <=> o[1] = h /\ o[2] = 0)
  BY SpanType DEF Words
<1>6. Objects \subseteq Words /\ Objects' \subseteq Words
  BY DEF Objects, SmallObjects, LargeObjects
<1>7. \A o \in Objects : o[1] \in Spans /\ o[1] \notin run
  BY <1>4, <1>5 DEF Objects, SmallObjects, LargeObjects
<1>8. <<h, 0>> \in Words \ Objects
  BY <1>3, <1>5, <1>7
<1>9. Objects' = Objects \cup {<<h, 0>>}
  <2>1. ASSUME NEW o \in Words, o[1] \in run PROVE o \in Objects' <=> o = <<h, 0>>
    <3>1. CASE o[1] = h
      BY <1>3, <1>5, <3>1 DEF Objects, SmallObjects, LargeObjects
    <3>2. CASE o[1] # h
      BY <1>3, <1>5, <2>1, <3>2 DEF Objects, SmallObjects, LargeObjects
    <3> QED
      BY <3>1, <3>2
  <2>2. ASSUME NEW o \in Words, o[1] \notin run PROVE o \in Objects' <=> o \in Objects
    BY <1>1, <1>3, <1>5, <2>2 DEF Objects, SmallObjects, LargeObjects
  <2> QED
    BY <1>3, <1>5, <1>6, <1>7, <2>1, <2>2
<1>10. \A o \in Objects : Space'[o] = Space[o]
  <2> TAKE o \in Objects
  <2>1. o \in Words /\ o[1] \in Spans /\ o[1] # h /\ o[1] \notin run
    BY <1>3, <1>6, <1>7
  <2>2. span_state'[o[1]] = span_state[o[1]] /\ run_len'[o[1]] = run_len[o[1]] /\ cls' = cls
    BY <1>1, <1>3, <2>1
  <2> QED
    BY <2>1, <2>2 DEF Space, SpaceOf
<1>11. Space'[<<h, 0>>] = n * SpanWords
  BY <1>3, <1>5 DEF Space, SpaceOf
<1>12. last_live' + since_gc' = Total(Space', Words, Objects')
  BY <1>1, <1>8, <1>9, <1>10, <1>11, CountObject
<1>13. InUse' = InUse \cup run /\ InUse \cap run = {}
  <2>1. \A j \in Spans : span_state'[j] # "free" <=> span_state[j] # "free" \/ j \in run
    BY <1>3, <1>4
  <2> QED
    BY <1>4, <2>1 DEF InUse
<1>14. IsFiniteSet(run) /\ Cardinality(run) = n
  <2>1. h \in Int /\ h + n - 1 \in Int /\ (IF h > h + n - 1 THEN 0 ELSE h + n - 1 - h + 1) = n
    BY <1>2
  <2>2. IsFiniteSet(h .. h + n - 1) /\ Cardinality(h .. h + n - 1) = n
    BY <2>1, FS_Interval
  <2> QED
    BY <2>2 DEF run
<1>15. Cardinality(InUse \cup run) = Cardinality(InUse) + n
  <2>1. Cardinality(InUse \cap run) = 0
    BY <1>13, FS_EmptySet
  <2>2. IsFiniteSet(InUse) /\ Cardinality(InUse) \in Nat /\ IsFiniteSet(run)
    BY <1>14, InUseFinite
  <2>3. Cardinality(InUse \cup run) = Cardinality(InUse) + Cardinality(run) - Cardinality(InUse \cap run)
    BY <2>2, FS_Union, Zenon
  <2> QED
    BY <1>2, <1>14, <2>1, <2>2, <2>3
<1> QED
  BY <1>1, <1>12, <1>13, <1>15 DEF Counted, PacingInv

LEMMA PacingPlace ==
  ASSUME PacingInv, Place, ~Exhausted
  PROVE  Counted' /\ Paced'
<1>1. TypeOK /\ Structure /\ TypeOK'
  BY StructNext DEF PacingInv, StructInv, TypeInv, Next
<1>2. next_fresh \in 0 .. NSpans /\ NSpans \in Nat /\ free_spans \in Seq(Spans)
  BY <1>1, SpanType DEF TypeOK
<1>3. ASSUME NEW c \in Classes, TakeSlot(c) PROVE Counted' /\ Paced'
  <2>1. Paced'
    BY <1>3, PacedFrame DEF TakeSlot, knobVars, PacingInv
  <2> QED
    BY <1>1, <1>3, <2>1, PacingTakeSlot
<1>4. ASSUME NEW c \in Classes, TakePartial(c) PROVE Counted' /\ Paced'
  BY <1>4, PacingFrame, PacedFrame DEF TakePartial, SmallRequest, paceVars, knobVars, PacingInv
<1>5. ASSUME NEW c \in Classes, NEW i \in Spans, NewSpan(c, i), span_state[i] = "free" PROVE Counted' /\ Paced'
  <2>1. Paced'
    BY <1>5, PacedFrame DEF NewSpan, paceVars, knobVars, PacingInv
  <2> QED
    BY <1>1, <1>5, <2>1, PacingNewSpan
<1>6. ASSUME NEW c \in Classes, TakeFreeSpan(c) PROVE Counted' /\ Paced'
  <2>1. PICK j \in FreeEntries : NewSpan(c, free_spans[j])
    BY <1>6 DEF TakeFreeSpan, Highest
  <2>2. free_spans[j] \in Spans /\ span_state[free_spans[j]] = "free"
    BY <1>2, <2>1 DEF FreeEntries
  <2> QED
    BY <1>5, <2>1, <2>2
<1>7. ASSUME NEW c \in Classes, TakeFreshSpan(c) PROVE Counted' /\ Paced'
  <2>1. NewSpan(c, next_fresh) /\ next_fresh \in Spans
    BY <1>2, <1>7 DEF TakeFreshSpan, Spans
  <2>2. span_state[next_fresh] = "free"
    BY <1>1, <1>2, <2>1 DEF Structure, TableInRange
  <2> QED
    BY <1>5, <2>1, <2>2
<1>8. ASSUME NEW n \in 1 .. NSpans, NEW h \in Spans, NEW zero, NewRun(h, n, zero), pc = "alloc",
             \A j \in h .. h + n - 1 : j \in Spans /\ span_state[j] = "free"
      PROVE  Counted' /\ Paced'
  <2>1. Paced'
    BY <1>8, PacedFrame DEF NewRun, knobVars, PacingInv
  <2> QED
    BY <1>1, <1>8, <2>1, PacingNewRun
<1>9. ASSUME NEW n \in 1 .. NSpans, TakeFreeRun(n) PROVE Counted' /\ Paced'
  <2>1. PICK h \in FreeRuns(n) : NewRun(h, n, TRUE)
    BY <1>9 DEF TakeFreeRun, Lowest
  <2>2. h \in Spans /\ h + n <= NSpans /\ \A j \in h .. h + n - 1 : span_state[j] = "free"
    BY FreeRunType DEF PacingInv, StructInv
  <2>3. \A j \in h .. h + n - 1 : j \in Spans
    BY <1>2, <2>2 DEF Spans
  <2>4. pc = "alloc"
    BY <1>9 DEF TakeFreeRun, LargeRequest
  <2> QED
    BY <1>8, <2>1, <2>2, <2>3, <2>4
<1>10. ASSUME NEW n \in 1 .. NSpans, TakeFreshRun(n) PROVE Counted' /\ Paced'
  <2>1. NewRun(next_fresh, n, FALSE) /\ next_fresh + n <= NSpans /\ pc = "alloc"
    BY <1>10 DEF TakeFreshRun, LargeRequest
  <2>2. next_fresh \in Spans /\ \A j \in next_fresh .. next_fresh + n - 1 : j \in Spans /\ ~(j < next_fresh)
    BY <1>2, <2>1 DEF Spans
  <2>3. \A j \in next_fresh .. next_fresh + n - 1 : span_state[j] = "free"
    BY <1>1, <2>2 DEF Structure, TableInRange
  <2> QED
    BY <1>8, <2>1, <2>2, <2>3
<1> QED
  BY <1>3, <1>4, <1>6, <1>7, <1>9, <1>10 DEF Place

-----------------------------------------------------------------------------
(* The theorem *)

LEMMA PacingInvariant == Spec => []PacingInv
<1>1. Init => PacingInv
  BY TypeInit, StructInit, PacingInit DEF PacingInv, StructInv
<1>2. PacingInv /\ [Next]_vars => PacingInv'
  <2> SUFFICES ASSUME PacingInv, [Next]_vars PROVE PacingInv'
    OBVIOUS
  <2>1. StructInv'
    BY StructNext, StructStutter DEF PacingInv
  <2>2. CASE Exhausted \/ UNCHANGED vars
    <3>1. /\ UNCHANGED <<span_state, cls, run_len, alloc_bits, spans_in_use, last_live, since_gc>>
          /\ UNCHANGED <<trigger_delta, stress_every, min_trigger, sweep_at, live>>
          /\ pc' = "sweep" <=> pc = "sweep"
      BY <2>2 DEF Exhausted, SmallRequest, LargeRequest, heapUnchanged, vars, tableVars, allocVars,
         paceVars, knobVars, gcVars
    <3>2. Counted' /\ Paced'
      BY <3>1, SameObjects, PacedFrame DEF PacingInv, Counted, Behind
    <3> QED
      BY <2>1, <3>2 DEF PacingInv
  <2>3. CASE Next /\ ~Exhausted /\ ~UNCHANGED vars
    <3>1. Counted' /\ Paced'
      BY <2>3, PacingProgram, PacingMark, PacingSweep, PacingPlace DEF Next, Aborted
    <3> QED
      BY <2>1, <3>1 DEF PacingInv
  <2> QED
    BY <2>2, <2>3
<1> QED
  BY <1>1, <1>2, PTL DEF Spec

\* The counters the pacing works with are the heap's: the spans in use are
\* counted, what the last collection left and what was allocated since add up
\* to the space of all objects, and the trigger is the one of the knobs.
THEOREM PacingSeesTheHeap == Spec => []PacingExact
<1>1. PacingInv => PacingExact
  <2>1. PacingInv => PacingKept
    BY PacingMeans DEF PacingInv, StructInv, TypeInv
  <2> QED
    BY <2>1 DEF PacingKept, PacingExact, Idle
<1> QED
  BY <1>1, PacingInvariant, PTL

===============================================================================
