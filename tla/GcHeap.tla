------------------------------- MODULE GcHeap -------------------------------
(***************************************************************************)
(* The HIGH-tier heap of the emitted programs: the non-moving, stop-the-   *)
(* world mark-sweep collector of crates/llvm_poc/runtime/ubel_rt.c, with   *)
(* the program that allocates from it as its environment.                  *)
(*                                                                         *)
(* A heap word is a pair <<span, offset>>.  An object is named by          *)
(* <<span, slot>>: the slot of a size-class span, or <<head, 0>> for a     *)
(* large object, whose mark is bit 0 of its head span as in the code.      *)
(* Byte counts are counted in words.                                       *)
(*                                                                         *)
(* The runtime is single threaded.  pc says where the one thread is: in    *)
(* the program ("run"), inside an allocation past its trigger check        *)
(* ("alloc"), marking, sweeping, or stopped by abort().                    *)
(***************************************************************************)
EXTENDS Integers, Sequences, FiniteSets, FiniteSetsExt

CONSTANTS
  NSpans,       \* nspans_total: spans of the reserved heap
  SpanWords,    \* SPAN_SIZE, in words; also the largest size class
  Elem,         \* class_size: the slot size in words of each class, ascending
  Requests,     \* allocations the program makes: [words, ptrs]
  PtrVars,      \* stack words in which the program keeps pointers
  IntVars,      \* stack words in which it keeps integers (scanned all the same)
  IntVals,      \* integers that look like the address of a heap word
  MinTriggers,  \* values of min_trigger, in words
  StressLevels, \* values of stress_every (0: stress mode off)
  Null          \* a word that is no heap address, zero included

Spans   == 0 .. NSpans - 1
Offsets == 0 .. SpanWords - 1
Words   == Spans \X Offsets
Classes == DOMAIN Elem
Values  == Words \cup {Null}

ASSUME HeapAssumption ==
  /\ NSpans \in Nat \ {0} /\ SpanWords \in Nat \ {0}
  /\ Elem \in Seq(1 .. SpanWords) /\ Elem # <<>>
  /\ Elem[Len(Elem)] = SpanWords
  /\ Null \notin Words

ASSUME ProgramAssumption ==
  /\ Requests \subseteq [words : Nat \ {0}, ptrs : SUBSET Nat]
  /\ PtrVars \cap IntVars = {}
  /\ IntVals \subseteq Values
  /\ MinTriggers \subseteq Nat \ {0} /\ MinTriggers # {}
  /\ StressLevels \subseteq Nat /\ StressLevels # {}

VARIABLES
  \* the span table; a field keeps its old value when the code does
  span_state,     \* "free", "small", "large" (head of a run) or "cont"
  cls,            \* size class of a small span
  needzero,       \* the small spans whose memory may hold old data
  noscan,         \* the large heads that hold no pointers
  freeindex,      \* where the search for a free slot resumes
  run_len,        \* spans in the run of a large head
  head_idx,       \* the head of a continuation span
  obj_words,      \* size of the large object of a head
  alloc_bits,     \* allocated slots
  mark_bits,      \* slots reached in the current cycle
  \* the allocator
  next_fresh,     \* spans below this index have been used at least once
  spans_in_use,
  free_spans,     \* stack of free spans; an entry can be stale
  cur_span,       \* per class, the span slots are taken from, or -1
  partial,        \* per class, the list of swept spans with free slots
  \* memory
  mem,            \* the value of every heap word
  ptr_bits,       \* heapbits: the words marked as pointers
  stack,          \* the words of the machine stack
  \* pacing
  since_gc,       \* bytes_since_gc
  trigger_delta, last_live, min_trigger, stress_every, stress_skip,
  \* the thread
  pc,
  req,            \* the allocation in progress and the variable it is for
  grey,           \* the mark stack
  sweep_at,       \* the span the sweep is about to look at
  live            \* what the sweep has counted as live so far

tableVars == <<span_state, cls, needzero, noscan, freeindex, run_len, head_idx,
               obj_words, alloc_bits>>
allocVars == <<next_fresh, spans_in_use, free_spans, cur_span, partial>>
paceVars  == <<since_gc, trigger_delta, last_live>>
knobVars  == <<min_trigger, stress_every>>
gcVars    == <<mark_bits, grey, sweep_at, live>>
vars == <<tableVars, allocVars, mem, ptr_bits, stack, paceVars, knobVars,
          stress_skip, pc, req, gcVars>>

NoSpan == -1
NoReq  == <<>>

-----------------------------------------------------------------------------
(* Objects and the words they occupy *)

NElems(i) == SpanWords \div Elem[cls[i]]

SlotWords(i, k) == {<<i, j>> : j \in {x \in Offsets : x \div Elem[cls[i]] = k}}

RunWords(h) == {w \in Words : /\ w[1] \in h .. h + run_len[h] - 1
                              /\ (w[1] - h) * SpanWords + w[2] < obj_words[h]}

SmallObjects == {o \in Words : span_state[o[1]] = "small" /\ o[2] \in alloc_bits[o[1]]}
LargeObjects == {o \in Words : span_state[o[1]] = "large" /\ o[2] = 0}
Objects      == SmallObjects \cup LargeObjects

WordsOf(o) == IF span_state[o[1]] = "large" THEN RunWords(o[1])
                                            ELSE SlotWords(o[1], o[2])

\* What scan_object reads of an object: its words marked as pointers.  A large
\* object allocated without pointers is marked but never scanned.
PtrWords(o) == IF span_state[o[1]] = "large" /\ o[1] \in noscan
               THEN {} ELSE WordsOf(o) \cap ptr_bits

\* mark_ptr: the object the word <<i, j>> of a small span belongs to, as a set
\* that is empty when it belongs to none.
SmallTarget(i, j) ==
  LET k == j \div Elem[cls[i]]
  IN  IF k < NElems(i) /\ k \in alloc_bits[i] THEN {<<i, k>>} ELSE {}

\* mark_large: the same for a word of a head or of a continuation span.
HeadOf(i) == IF span_state[i] = "cont" THEN head_idx[i] ELSE i
LargeTarget(i, j) ==
  IF (i - HeadOf(i)) * SpanWords + j < obj_words[HeadOf(i)] THEN {<<HeadOf(i), 0>>} ELSE {}

\* The object the value p points into.
TargetOf(p) ==
  IF p = Null \/ p[1] >= next_fresh \/ span_state[p[1]] = "free" THEN {}
  ELSE IF span_state[p[1]] = "small" THEN SmallTarget(p[1], p[2])
                                     ELSE LargeTarget(p[1], p[2])

Targets(vals) == UNION {TargetOf(p) : p \in vals}

Marked  == {o \in Objects : o[2] \in mark_bits[o[1]]}

\* Mutants of GreyFrom: what is marked is never pushed; what is marked already
\* is pushed again.
MarkUnpushed(vals, g) ==
  /\ mark_bits' = [i \in Spans |-> mark_bits[i] \cup {k \in Offsets : <<i, k>> \in Targets(vals)}]
  /\ grey' = g
PushAgain(vals, g) ==
  /\ mark_bits' = [i \in Spans |-> mark_bits[i] \cup {k \in Offsets : <<i, k>> \in Targets(vals)}]
  /\ grey' = g \cup Targets(vals)

\* mark_ptr on every value of vals, with the mark stack g: what is new is
\* marked, and pushed unless it is to be left unscanned.
GreyFrom(vals, g) ==
  LET new == Targets(vals) \ Marked
  IN  /\ mark_bits' = [i \in Spans |-> mark_bits[i] \cup {k \in Offsets : <<i, k>> \in new}]
      /\ grey' = g \cup {o \in new : ~(span_state[o[1]] = "large" /\ o[1] \in noscan)}

-----------------------------------------------------------------------------
(* The program *)

\* Mutant: the registers, where the program keeps its pointers, are not spilled.
RegistersLost == {stack[r] : r \in IntVars}

\* The conservative roots: every word of the stack, spilled registers included.
StackVals == {stack[r] : r \in PtrVars \cup IntVars}

\* The objects the program has a pointer to.
Held == Targets({stack[r] : r \in PtrVars})
HeldPtrWords  == UNION {WordsOf(o) \cap ptr_bits : o \in Held}
HeldDataWords == UNION {WordsOf(o) \ ptr_bits : o \in Held}

heapUnchanged == UNCHANGED <<tableVars, allocVars, paceVars, knobVars, stress_skip, gcVars>>

\* A variable goes dead, or is overwritten with zero.
Drop(r) ==
  /\ pc = "run" /\ stack[r] # Null
  /\ stack' = [stack EXCEPT ![r] = Null]
  /\ heapUnchanged /\ UNCHANGED <<mem, ptr_bits, pc, req>>

\* A copy of a pointer, or a pointer into the middle of an object.
PointInto(r) ==
  /\ pc = "run"
  /\ \E o \in Held : \E w \in WordsOf(o) :
       stack' = [stack EXCEPT ![r] = w]
  /\ heapUnchanged /\ UNCHANGED <<mem, ptr_bits, pc, req>>

Load(r) ==
  /\ pc = "run"
  /\ \E w \in HeldPtrWords : stack' = [stack EXCEPT ![r] = mem[w]]
  /\ heapUnchanged /\ UNCHANGED <<mem, ptr_bits, pc, req>>

Store(v) ==
  /\ pc = "run"
  /\ \E w \in HeldPtrWords : mem' = [mem EXCEPT ![w] = v]
  /\ heapUnchanged /\ UNCHANGED <<stack, ptr_bits, pc, req>>

\* Integers, in the words of an object that are no pointers and on the stack.
StoreInt(n) ==
  /\ pc = "run"
  /\ \E w \in HeldDataWords : mem' = [mem EXCEPT ![w] = n]
  /\ heapUnchanged /\ UNCHANGED <<stack, ptr_bits, pc, req>>

SetInt(r, n) ==
  /\ pc = "run"
  /\ stack' = [stack EXCEPT ![r] = n]
  /\ heapUnchanged /\ UNCHANGED <<mem, ptr_bits, pc, req>>

-----------------------------------------------------------------------------
(* Collection *)

\* ubel_gc_collect up to the mark loop: the roots are greyed.
BeginMark ==
  /\ pc' = "mark"
  /\ GreyFrom(StackVals, grey)
  /\ UNCHANGED <<tableVars, allocVars, mem, ptr_bits, stack, paceVars, knobVars, sweep_at, live>>

\* The program calls ubel_gc_collect itself.
Collect ==
  /\ pc = "run"
  /\ BeginMark
  /\ UNCHANGED <<stress_skip, req>>

\* scan_object: grey to black.
ScanObject(o) ==
  /\ pc = "mark" /\ o \in grey
  /\ GreyFrom({mem[w] : w \in PtrWords(o)}, grey \ {o})
  /\ UNCHANGED <<tableVars, allocVars, mem, ptr_bits, stack, paceVars, knobVars,
                 stress_skip, pc, req, sweep_at, live>>

\* Mutant: the current spans survive the reset.
KeepCurrent == /\ free_spans' = <<>>
               /\ partial' = [c \in Classes |-> <<>>]
               /\ UNCHANGED cur_span

\* sweep resets the lists it is going to rebuild.
ResetLists == /\ free_spans' = <<>>
              /\ cur_span' = [c \in Classes |-> NoSpan]
              /\ partial' = [c \in Classes |-> <<>>]

StartSweep ==
  /\ pc = "mark"
  /\ pc' = "sweep" /\ sweep_at' = 0 /\ live' = 0
  /\ ResetLists
  /\ UNCHANGED <<tableVars, next_fresh, spans_in_use, mem, ptr_bits, stack, paceVars,
                 knobVars, stress_skip, req, mark_bits, grey>>

\* The mark stack is empty.
BeginSweep == grey = {} /\ StartSweep

\* The span the sweep looks at, and what it leaves alone whatever it finds.
Sweeping(i) ==
  /\ pc = "sweep" /\ i = sweep_at /\ i < next_fresh
  /\ sweep_at' = i + 1
  /\ UNCHANGED <<cls, noscan, run_len, head_idx, obj_words, next_fresh, cur_span, mem,
                 ptr_bits, stack, paceVars, knobVars, stress_skip, pc, req, grey>>

SweepCont(i) ==
  /\ Sweeping(i) /\ span_state[i] = "cont"
  /\ UNCHANGED <<span_state, needzero, freeindex, alloc_bits, mark_bits, spans_in_use,
                 free_spans, partial, live>>

\* Mutant: a span that was free already is left off the rebuilt stack.
SweepFreeUnlisted(i) ==
  /\ Sweeping(i) /\ span_state[i] = "free"
  /\ UNCHANGED <<span_state, needzero, freeindex, alloc_bits, mark_bits, spans_in_use,
                 free_spans, partial, live>>

SweepFree(i) ==
  /\ Sweeping(i) /\ span_state[i] = "free"
  /\ free_spans' = Append(free_spans, i)
  /\ UNCHANGED <<span_state, needzero, freeindex, alloc_bits, mark_bits, spans_in_use,
                 partial, live>>

KeepRun(i) == /\ mark_bits' = [mark_bits EXCEPT ![i] = {}]
              /\ live' = live + run_len[i] * SpanWords
              /\ UNCHANGED <<span_state, spans_in_use, free_spans>>

\* Only the head is pushed: the sweep comes by the other spans of the run.
FreeRun(i) ==
  /\ span_state' = [j \in Spans |-> IF j \in i .. i + run_len[i] - 1
                                   THEN "free" ELSE span_state[j]]
  /\ spans_in_use' = spans_in_use - run_len[i]
  /\ free_spans' = Append(free_spans, i)
  /\ UNCHANGED <<mark_bits, live>>

SweepLarge(i) ==
  /\ Sweeping(i) /\ span_state[i] = "large"
  /\ IF 0 \in mark_bits[i] THEN KeepRun(i) ELSE FreeRun(i)
  /\ UNCHANGED <<needzero, freeindex, alloc_bits, partial>>

SweepSmall(i) ==
  /\ Sweeping(i) /\ span_state[i] = "small"
  /\ alloc_bits' = [alloc_bits EXCEPT ![i] = mark_bits[i]]
  /\ mark_bits' = [mark_bits EXCEPT ![i] = {}]
  /\ IF mark_bits[i] = {}
     THEN /\ span_state' = [span_state EXCEPT ![i] = "free"]
          /\ spans_in_use' = spans_in_use - 1
          /\ free_spans' = Append(free_spans, i)
          /\ UNCHANGED <<needzero, freeindex, partial, live>>
     ELSE /\ live' = live + Cardinality(mark_bits[i]) * Elem[cls[i]]
          /\ freeindex' = [freeindex EXCEPT ![i] = 0]
          /\ needzero' = needzero \cup {i}
          /\ partial' = IF Cardinality(mark_bits[i]) < NElems(i)
                        THEN [partial EXCEPT ![cls[i]] = <<i>> \o @] ELSE partial
          /\ UNCHANGED <<span_state, spans_in_use, free_spans>>

TriggerFor(lv, min) == IF lv > min THEN lv ELSE min

\* The end of ubel_gc_collect: pacing.  Control returns to the program, or to
\* the allocation that triggered the collection.
FinishSweep ==
  /\ pc = "sweep" /\ sweep_at = next_fresh
  /\ last_live' = live
  /\ since_gc' = 0
  /\ trigger_delta' = IF stress_every > 0 THEN 0 ELSE TriggerFor(live, min_trigger)
  /\ pc' = IF req = NoReq THEN "run" ELSE "alloc"
  /\ sweep_at' = 0 /\ live' = 0
  /\ UNCHANGED <<tableVars, allocVars, mem, ptr_bits, stack, knobVars, stress_skip, req,
                 mark_bits, grey>>

-----------------------------------------------------------------------------
(* Allocation *)

IsLarge(q) == q.words > SpanWords
RunOf(q)   == (q.words + SpanWords - 1) \div SpanWords
HeapWords  == NSpans * SpanWords

\* size_to_class: the smallest class that holds the object.
IsClassOf(c, q) == Elem[c] >= q.words /\ \A d \in Classes : Elem[d] >= q.words => c <= d

\* gc_trigger in stress mode lets all but every N-th allocation through.
SkipsStress == stress_every > 1 /\ stress_skip + 1 < stress_every

\* Entry of gc_slot and gc_alloc_large: the check against the trigger.
Request(q, r) ==
  /\ pc = "run"
  /\ q.words <= HeapWords
  /\ req' = <<q, r>>
  /\ \/ /\ since_gc < trigger_delta
        /\ pc' = "alloc"
        /\ heapUnchanged /\ UNCHANGED <<mem, ptr_bits, stack>>
     \/ /\ since_gc >= trigger_delta /\ SkipsStress
        /\ pc' = "alloc"
        /\ stress_skip' = stress_skip + 1
        /\ UNCHANGED <<tableVars, allocVars, paceVars, knobVars, gcVars, mem, ptr_bits, stack>>
     \/ /\ since_gc >= trigger_delta /\ ~SkipsStress
        /\ stress_skip' = 0
        /\ BeginMark

\* A size no heap of this size can hold is refused before anything else.
RequestTooLarge(q) ==
  /\ pc = "run" /\ q.words > HeapWords
  /\ pc' = "aborted"
  /\ heapUnchanged /\ UNCHANGED <<mem, ptr_bits, stack, req>>

Lowest(S)  == {x \in S : \A y \in S : x <= y}
Highest(S) == {x \in S : \A y \in S : y <= x}

\* Mutant: the search starts one slot too far.
FreeSlotsAfter(i) == {k \in freeindex[i] + 1 .. NElems(i) - 1 : k \notin alloc_bits[i]}

\* The free slots span_next_free still finds in span i.
FreeSlots(i) == {k \in freeindex[i] .. NElems(i) - 1 : k \notin alloc_bits[i]}

\* The pointer in progress goes to the variable it is for.
Return(w) == /\ stack' = [stack EXCEPT ![req[2]] = w]
             /\ pc' = "run" /\ req' = NoReq

SmallRequest(c) == pc = "alloc" /\ ~IsLarge(req[1]) /\ IsClassOf(c, req[1])
NoSlotIn(c) == IF cur_span[c] = NoSpan THEN TRUE ELSE FreeSlots(cur_span[c]) = {}

\* gc_slot finds a free slot in the current span of the class: zeroed when the
\* span may hold old data, and its pointer bits written over the whole slot.
TakeSlot(c) ==
  /\ SmallRequest(c) /\ ~NoSlotIn(c)
  /\ LET i == cur_span[c]
         e == Elem[c]
     IN  \E k \in Lowest(FreeSlots(i)) :
           /\ alloc_bits' = [alloc_bits EXCEPT ![i] = @ \cup {k}]
           /\ freeindex' = [freeindex EXCEPT ![i] = k + 1]
           /\ mem' = [w \in Words |-> IF i \in needzero /\ w \in SlotWords(i, k)
                                      THEN Null ELSE mem[w]]
           /\ ptr_bits' = (ptr_bits \ SlotWords(i, k)) \cup
                          {w \in SlotWords(i, k) : w[2] - k * e \in req[1].ptrs}
           /\ since_gc' = since_gc + e
           /\ Return(<<i, k * e>>)
  /\ UNCHANGED <<span_state, cls, needzero, noscan, run_len, head_idx, obj_words, allocVars,
                 trigger_delta, last_live, knobVars, stress_skip, gcVars>>

\* The current span is used up (span_next_free leaves its freeindex at the
\* end), and the next one is taken from the list of partially filled spans ...
TakePartial(c) ==
  /\ SmallRequest(c) /\ NoSlotIn(c) /\ partial[c] # <<>>
  /\ freeindex' = [i \in Spans |-> IF i = cur_span[c] THEN NElems(i) ELSE freeindex[i]]
  /\ cur_span' = [cur_span EXCEPT ![c] = Head(partial[c])]
  /\ partial' = [partial EXCEPT ![c] = Tail(@)]
  /\ UNCHANGED <<span_state, cls, needzero, noscan, run_len, head_idx, obj_words, alloc_bits,
                 next_fresh, spans_in_use, free_spans, mem, ptr_bits, stack, paceVars,
                 knobVars, stress_skip, pc, req, gcVars>>

\* ... or is span i, given to class c by new_span.
NewSpan(c, i) ==
  /\ SmallRequest(c) /\ NoSlotIn(c) /\ partial[c] = <<>>
  /\ span_state' = [span_state EXCEPT ![i] = "small"]
  /\ cls' = [cls EXCEPT ![i] = c]
  /\ alloc_bits' = [alloc_bits EXCEPT ![i] = {}]
  /\ mark_bits' = [mark_bits EXCEPT ![i] = {}]
  /\ freeindex' = [s \in Spans |-> IF s = i THEN 0 ELSE
                                   IF s = cur_span[c] THEN NElems(s) ELSE freeindex[s]]
  /\ cur_span' = [cur_span EXCEPT ![c] = i]
  /\ spans_in_use' = spans_in_use + 1
  /\ UNCHANGED <<noscan, run_len, head_idx, obj_words, partial, mem, ptr_bits, stack, paceVars,
                 knobVars, stress_skip, pc, req, grey, sweep_at, live>>

\* Mutant: new_span trusts every entry of the stack.
AnyEntries == DOMAIN free_spans

\* The entries of the free-span stack that are not stale.
FreeEntries == {j \in DOMAIN free_spans : span_state[free_spans[j]] = "free"}

\* Mutant: a span from the stack is taken for zeroed memory.
TakeFreeSpanTrusted(c) ==
  \E j \in Highest(FreeEntries) :
    /\ NewSpan(c, free_spans[j])
    /\ free_spans' = SubSeq(free_spans, 1, j - 1)
    /\ needzero' = needzero \ {free_spans[j]}
    /\ UNCHANGED next_fresh

\* new_span pops the stack down to the topmost span that is really free ...
TakeFreeSpan(c) ==
  \E j \in Highest(FreeEntries) :
    /\ NewSpan(c, free_spans[j])
    /\ free_spans' = SubSeq(free_spans, 1, j - 1)
    /\ needzero' = needzero \cup {free_spans[j]}
    /\ UNCHANGED next_fresh

\* ... and takes a fresh one, which the system hands out zeroed, if none is.
TakeFreshSpan(c) ==
  /\ FreeEntries = {} /\ next_fresh < NSpans
  /\ NewSpan(c, next_fresh)
  /\ free_spans' = <<>>
  /\ needzero' = needzero \ {next_fresh}
  /\ next_fresh' = next_fresh + 1

\* gc_alloc_large makes a run of n spans from h the object asked for.
NewRun(h, n, zero) ==
  LET q    == req[1]
      tail == h + 1 .. h + n - 1
      used == {w \in Words : /\ w[1] \in h .. h + n - 1
                             /\ (w[1] - h) * SpanWords + w[2] < q.words}
  IN  /\ span_state' = [i \in Spans |-> IF i = h THEN "large" ELSE
                                        IF i \in tail THEN "cont" ELSE span_state[i]]
      /\ noscan' = IF q.ptrs = {} THEN noscan \cup {h} ELSE noscan \ {h}
      /\ needzero' = needzero \ {h}
      /\ run_len' = [run_len EXCEPT ![h] = n]
      /\ obj_words' = [obj_words EXCEPT ![h] = q.words]
      /\ head_idx' = [i \in Spans |-> IF i \in tail THEN h ELSE head_idx[i]]
      /\ mark_bits' = [mark_bits EXCEPT ![h] = {}]
      /\ spans_in_use' = spans_in_use + n
      /\ mem' = [w \in Words |-> IF zero /\ w \in used THEN Null ELSE mem[w]]
      /\ ptr_bits' = (ptr_bits \ used) \cup
                     {w \in used : (w[1] - h) * SpanWords + w[2] \in q.ptrs}
      /\ since_gc' = since_gc + n * SpanWords
      /\ Return(<<h, 0>>)
      /\ UNCHANGED <<cls, freeindex, alloc_bits, free_spans, cur_span, partial, trigger_delta,
                     last_live, knobVars, stress_skip, grey, sweep_at, live>>

LargeRequest(n) == pc = "alloc" /\ IsLarge(req[1]) /\ n = RunOf(req[1])

\* find_free_run: the first spans of the runs of n free spans.  The code does
\* not look when the free-span stack has fewer than n entries.
FreeRuns(n) == IF Len(free_spans) < n THEN {}
               ELSE {i \in 0 .. next_fresh - n :
                       \A j \in i .. i + n - 1 : span_state[j] = "free"}

\* Mutant: a reused run is not cleared.
TakeFreeRunUncleared(n) ==
  /\ LargeRequest(n)
  /\ \E h \in Lowest(FreeRuns(n)) : NewRun(h, n, FALSE)
  /\ UNCHANGED next_fresh

\* The lowest run of free spans; its spans stay in the stack, as stale entries.
TakeFreeRun(n) ==
  /\ LargeRequest(n)
  /\ \E h \in Lowest(FreeRuns(n)) : NewRun(h, n, TRUE)
  /\ UNCHANGED next_fresh

\* Mutant: the end of the heap is not checked.
TakeFreshRunBeyond(n) ==
  /\ LargeRequest(n) /\ FreeRuns(n) = {}
  /\ NewRun(next_fresh, n, FALSE)
  /\ next_fresh' = next_fresh + n

TakeFreshRun(n) ==
  /\ LargeRequest(n) /\ FreeRuns(n) = {} /\ next_fresh + n <= NSpans
  /\ NewRun(next_fresh, n, FALSE)
  /\ next_fresh' = next_fresh + n

\* abort(): no span, or no run of spans, is left.  No collection is tried.
Exhausted ==
  /\ \/ \E c \in Classes : /\ SmallRequest(c) /\ NoSlotIn(c) /\ partial[c] = <<>>
                           /\ FreeEntries = {} /\ next_fresh = NSpans
     \/ \E n \in 1 .. NSpans : /\ LargeRequest(n)
                               /\ FreeRuns(n) = {} /\ next_fresh + n > NSpans
  /\ pc' = "aborted"
  /\ heapUnchanged /\ UNCHANGED <<mem, ptr_bits, stack, req>>

-----------------------------------------------------------------------------
(* Knobs *)

\* Mutant: setting the minimum turns stress mode off behind its back.
SetMinTriggerOnly(m) ==
  /\ pc = "run"
  /\ min_trigger' = m
  /\ trigger_delta' = TriggerFor(last_live, m)
  /\ UNCHANGED <<tableVars, allocVars, mem, ptr_bits, stack, since_gc, last_live,
                 stress_every, stress_skip, pc, req, gcVars>>

SetMinTrigger(m) ==
  /\ pc = "run"
  /\ min_trigger' = m
  /\ trigger_delta' = IF stress_every > 0 THEN 0 ELSE TriggerFor(last_live, m)
  /\ UNCHANGED <<tableVars, allocVars, mem, ptr_bits, stack, since_gc, last_live,
                 stress_every, stress_skip, pc, req, gcVars>>

SetStress(n) ==
  /\ pc = "run"
  /\ stress_every' = n
  /\ stress_skip' = 0
  /\ trigger_delta' = IF n > 0 THEN 0 ELSE TriggerFor(last_live, min_trigger)
  /\ UNCHANGED <<tableVars, allocVars, mem, ptr_bits, stack, since_gc, last_live,
                 min_trigger, pc, req, gcVars>>

-----------------------------------------------------------------------------
Init ==
  /\ span_state = [i \in Spans |-> "free"]
  /\ cls = [i \in Spans |-> 1]
  /\ needzero = {} /\ noscan = {}
  /\ freeindex = [i \in Spans |-> 0]
  /\ run_len = [i \in Spans |-> 0]
  /\ head_idx = [i \in Spans |-> 0]
  /\ obj_words = [i \in Spans |-> 0]
  /\ alloc_bits = [i \in Spans |-> {}]
  /\ mark_bits = [i \in Spans |-> {}]
  /\ next_fresh = 0 /\ spans_in_use = 0
  /\ free_spans = <<>>
  /\ cur_span = [c \in Classes |-> NoSpan]
  /\ partial = [c \in Classes |-> <<>>]
  /\ mem = [w \in Words |-> Null] /\ ptr_bits = {}
  /\ stack = [r \in PtrVars \cup IntVars |-> Null]
  /\ since_gc = 0 /\ last_live = 0
  /\ min_trigger \in MinTriggers /\ stress_every \in StressLevels
  /\ trigger_delta = IF stress_every > 0 THEN 0 ELSE min_trigger
  /\ stress_skip = 0
  /\ pc = "run" /\ req = NoReq
  /\ grey = {} /\ sweep_at = 0 /\ live = 0

Program ==
  \/ \E r \in PtrVars : Drop(r) \/ PointInto(r) \/ Load(r) \/ Store(stack[r])
  \/ Store(Null)
  \/ \E n \in IntVals : StoreInt(n) \/ \E r \in IntVars : SetInt(r, n)
  \/ \E q \in Requests : RequestTooLarge(q) \/ \E r \in PtrVars : Request(q, r)
  \/ Collect
  \/ \E m \in MinTriggers : SetMinTrigger(m)
  \/ \E n \in StressLevels : SetStress(n)

Mark  == BeginSweep \/ \E o \in Words : ScanObject(o)
Sweep == \/ \E i \in Spans : SweepCont(i) \/ SweepFree(i) \/ SweepLarge(i) \/ SweepSmall(i)
         \/ FinishSweep
Place == \/ \E c \in Classes : \/ TakeSlot(c) \/ TakePartial(c)
                               \/ TakeFreeSpan(c) \/ TakeFreshSpan(c)
         \/ \E n \in 1 .. NSpans : TakeFreeRun(n) \/ TakeFreshRun(n)
         \/ Exhausted

\* The process is gone.
Aborted == pc = "aborted" /\ UNCHANGED vars

Next == Program \/ Mark \/ Sweep \/ Place \/ Aborted

Spec == Init /\ [][Next]_vars

\* The runtime's own loops run to their end.
FairSpec == Spec /\ WF_vars(Mark) /\ WF_vars(Sweep) /\ WF_vars(Place)

-----------------------------------------------------------------------------
(* Properties *)

\* The collector is not at work.
Idle == pc \notin {"mark", "sweep"}

\* The fields of the span table, the lists and the memory hold values of
\* their C types, for the heap of ubel_rt.c.
TypeOK ==
  /\ span_state \in [Spans -> {"free", "small", "large", "cont"}]
  /\ cls \in [Spans -> Classes]
  /\ needzero \subseteq Spans /\ noscan \subseteq Spans
  /\ freeindex \in [Spans -> 0 .. SpanWords]
  /\ run_len \in [Spans -> 0 .. NSpans]
  /\ head_idx \in [Spans -> Spans]
  /\ obj_words \in [Spans -> 0 .. HeapWords]
  /\ alloc_bits \in [Spans -> SUBSET Offsets]
  /\ mark_bits \in [Spans -> SUBSET Offsets]
  /\ next_fresh \in 0 .. NSpans /\ spans_in_use \in Int
  /\ free_spans \in Seq(Spans)
  /\ cur_span \in [Classes -> Spans \cup {NoSpan}]
  /\ partial \in [Classes -> Seq(Spans)]
  /\ mem \in [Words -> Values] /\ ptr_bits \subseteq Words
  /\ stack \in [PtrVars \cup IntVars -> Values]
  /\ since_gc \in Nat /\ trigger_delta \in Nat /\ last_live \in Nat
  /\ min_trigger \in Nat /\ stress_every \in Nat /\ stress_skip \in Nat
  /\ pc \in {"run", "alloc", "mark", "sweep", "aborted"}
  /\ req \in {NoReq} \cup (Requests \X PtrVars)
  /\ grey \subseteq Words
  /\ sweep_at \in 0 .. NSpans /\ live \in Nat

\* A large object is a head and its continuation spans, which point back at
\* it; no continuation is left without its head (gc_alloc_large, sweep).
RunsWellFormed ==
  /\ \A h \in Spans : span_state[h] = "large" =>
       /\ run_len[h] > 0 /\ h + run_len[h] <= next_fresh
       /\ \A j \in h + 1 .. h + run_len[h] - 1 : span_state[j] = "cont" /\ head_idx[j] = h
  /\ \A j \in Spans : span_state[j] = "cont" =>
       /\ span_state[head_idx[j]] = "large"
       /\ j \in head_idx[j] + 1 .. head_idx[j] + run_len[head_idx[j]] - 1

\* "The stack holds every free span": between collections find_free_run may
\* give up on a short stack, and new_span on one without a live entry.
FreeStackComplete ==
  Idle => /\ \A i \in Spans : i < next_fresh /\ span_state[i] = "free"
                                => \E j \in DOMAIN free_spans : free_spans[j] = i
          /\ \A j, k \in DOMAIN free_spans : free_spans[j] = free_spans[k] => j = k

\* The spans gc_slot takes slots from are small spans of the class asked for,
\* and none is handed out twice (cur_span, the partial lists and sweep).
ClassListsSound ==
  \A c \in Classes :
    /\ cur_span[c] # NoSpan => /\ span_state[cur_span[c]] = "small"
                               /\ cls[cur_span[c]] = c
    /\ \A j \in DOMAIN partial[c] :
         /\ span_state[partial[c][j]] = "small" /\ cls[partial[c][j]] = c
         /\ partial[c][j] # cur_span[c]
         /\ \A k \in DOMAIN partial[c] : partial[c][j] = partial[c][k] => j = k

\* No slot is lost until the next collection: a small span with an unused slot
\* is the current one or listed as partial, and the slot is not behind its
\* freeindex (span_next_free never looks back).
NoSlotLost ==
  Idle => \A i \in Spans : span_state[i] = "small" =>
            \A k \in (0 .. NElems(i) - 1) \ alloc_bits[i] :
              /\ k >= freeindex[i]
              /\ \/ i = cur_span[cls[i]]
                 \/ \E j \in DOMAIN partial[cls[i]] : partial[cls[i]][j] = i

\* Every collection starts from a white heap: a bit left over would make
\* mark_ptr take its object for scanned already.
MarksClear == Idle => \A o \in Objects : o[2] \notin mark_bits[o[1]]

\* No pointer of the program, and no pointer word of any object, garbage
\* included, refers to freed memory: what the collector is for.
Dangling(p) == p # Null /\ TargetOf(p) = {}
NoDangling ==
  /\ \A r \in PtrVars : ~Dangling(stack[r])
  /\ Idle => \A o \in Objects : \A w \in PtrWords(o) : ~Dangling(mem[w])

\* Tri-colour: while marking, what is reached from the stack or from a black
\* object is marked, and the mark stack holds only marked objects.
TriColour ==
  pc = "mark" =>
    /\ grey \subseteq Marked
    /\ Targets(StackVals) \subseteq Marked
    /\ \A o \in Marked \ grey : Targets({mem[w] : w \in PtrWords(o)}) \subseteq Marked

\* The objects reached from the values vals, by pointer words: those in every
\* set that holds the targets of vals and is closed under pointers.
Reach(vals) ==
  {o \in Objects : \A S \in SUBSET Objects :
     /\ Targets(vals) \subseteq S
     /\ \A x \in S : Targets({mem[w] : w \in PtrWords(x)}) \subseteq S
     => o \in S}

\* A collection frees exactly what the stack does not reach, read as the
\* conservative scan reads it, every word, integers too: marking ends with the
\* objects in reach, and they are what the sweep leaves.
CollectExact ==
  [][/\ pc = "mark" /\ pc' = "sweep" => Marked = Reach(StackVals)
     /\ pc = "sweep" /\ pc' # "sweep" => Objects = Reach(StackVals)]_vars

\* Memory is handed out zeroed whether it is fresh, swept, or was part of a
\* large object; needzero and the fresh flag decide who clears it.
NewObjectsAreZero ==
  [][\A o \in Objects' \ Objects : \A w \in WordsOf(o)' : mem'[w] = Null]_vars

\* The space an object counts for: its slot, or its whole run.
SpaceOf(o) == IF span_state[o[1]] = "large" THEN run_len[o[1]] * SpanWords ELSE Elem[cls[o[1]]]

\* Pacing sees the heap as it is: what the last collection found live and what
\* was allocated since is what is allocated, and the trigger is the one the
\* knobs ask for although three functions compute it.
PacingExact ==
  /\ spans_in_use = Cardinality({i \in Spans : span_state[i] # "free"})
  /\ Idle => last_live + since_gc = MapThenSumSet(SpaceOf, Objects)
  /\ trigger_delta = IF stress_every > 0 THEN 0 ELSE TriggerFor(last_live, min_trigger)

\* The runtime always comes back: marking, sweeping and the search for a slot
\* end, with the allocation made or the process stopped.
Returns == pc \in {"mark", "sweep", "alloc"} ~> pc \in {"run", "aborted"}

-----------------------------------------------------------------------------
(* The inductive invariant behind NoDangling *)

Heads == {i \in Spans : span_state[i] \in {"small", "large"}}

\* Whoever waits for a collection is an allocation the heap can hold.
RequestKept ==
  /\ pc = "run" => req = NoReq
  /\ pc = "alloc" => req # NoReq
  /\ req # NoReq => req[1].words <= HeapWords

\* A span that was never handed out is free, only slots that exist are
\* allocated, and only allocated slots are marked.
TableInRange ==
  /\ \A i \in Spans : span_state[i] # "free" => i < next_fresh
  /\ \A i \in Spans : span_state[i] = "small" => /\ alloc_bits[i] \subseteq 0 .. NElems(i) - 1
                                                 /\ mark_bits[i] \subseteq alloc_bits[i]

\* The sweep builds its lists from the spans behind it.
SweepBehind ==
  /\ sweep_at <= next_fresh
  /\ \A j \in DOMAIN free_spans : free_spans[j] < next_fresh
  /\ pc = "sweep" => \A c \in Classes : /\ cur_span[c] = NoSpan
                                        /\ \A j \in DOMAIN partial[c] : partial[c][j] < sweep_at

Structure == RunsWellFormed /\ ClassListsSound /\ TableInRange /\ SweepBehind

\* The mark stack is empty outside marking, only objects are marked, and the
\* sweep leaves none marked behind it.
MarksOnObjects ==
  /\ grey # {} => pc = "mark"
  /\ \A i \in Heads : \A k \in mark_bits[i] :
       /\ <<i, k>> \in Objects /\ ~Idle
       /\ pc = "sweep" => i >= sweep_at

\* Fresh memory, and what was never handed out of a fresh span, is zero.
UnusedIsZero ==
  \A w \in Words :
    \/ w[1] >= next_fresh
    \/ /\ span_state[w[1]] = "small" /\ w[1] \notin needzero
       /\ w[2] \div Elem[cls[w[1]]] \notin alloc_bits[w[1]]
    => mem[w] = Null

\* The no-scan flag of a large object tells the truth about the bitmap.
NoScanHasNoPointers ==
  \A h \in noscan : span_state[h] = "large" => RunWords(h) \cap ptr_bits = {}

\* The objects that are there when the sweep ends.
Survivors == {o \in Objects : pc = "sweep" => o[1] < sweep_at \/ o \in Marked}

Closed ==
  /\ Targets(StackVals) \subseteq Survivors
  /\ \A r \in PtrVars : ~Dangling(stack[r])
  /\ \A o \in Survivors : \A w \in PtrWords(o) :
       ~Dangling(mem[w]) /\ TargetOf(mem[w]) \subseteq Survivors

\* The collector's correctness argument: runs and lists are in order, marks are
\* on objects, unused memory is zero, and what will survive is closed under
\* pointers, whatever the collector is doing.
HeapInv == /\ TypeOK /\ RequestKept /\ Structure /\ MarksOnObjects /\ UnusedIsZero
           /\ NoScanHasNoPointers /\ TriColour /\ Closed

-----------------------------------------------------------------------------
(* The inductive invariants behind FreeStackComplete and NoSlotLost *)

\* The lists account for span i: while the sweep rebuilds them, for those behind it.
Accounted(i) == pc = "sweep" => i < sweep_at

FreeStackKept ==
  /\ \A i \in Spans : i < next_fresh /\ Accounted(i) /\ span_state[i] = "free"
                        => \E j \in DOMAIN free_spans : free_spans[j] = i
  /\ \A j, k \in DOMAIN free_spans : free_spans[j] = free_spans[k] => j = k
  /\ \A j \in DOMAIN free_spans : Accounted(free_spans[j])

InReach(i) == \/ i = cur_span[cls[i]]
              \/ \E j \in DOMAIN partial[cls[i]] : partial[cls[i]][j] = i

SlotsKept ==
  \A i \in Spans : span_state[i] = "small" /\ Accounted(i) =>
    \A k \in (0 .. NElems(i) - 1) \ alloc_bits[i] : k >= freeindex[i] /\ InReach(i)

-----------------------------------------------------------------------------
(* The inductive invariant behind CollectExact *)

\* What is marked, and what the sweep will leave, is in reach of the stack.
OnlyReached == /\ pc = "mark" => Marked \subseteq Reach(StackVals)
               /\ pc = "sweep" => Survivors \subseteq Reach(StackVals)

-----------------------------------------------------------------------------
(* The inductive invariant behind PacingExact *)

\* The counters agree with the heap in the middle of a collection too: while
\* the sweep runs, live counts what it has left standing behind it.
PacingKept ==
  /\ spans_in_use = Cardinality({i \in Spans : span_state[i] # "free"})
  /\ pc # "sweep" => last_live + since_gc = MapThenSumSet(SpaceOf, Objects)
  /\ pc = "sweep" => live = MapThenSumSet(SpaceOf, {o \in Objects : o[1] < sweep_at})
  /\ trigger_delta = IF stress_every > 0 THEN 0 ELSE TriggerFor(last_live, min_trigger)

=============================================================================
