# Ubel Stratum: TLA+ models and proofs

Ubel Stratum is a language with three memory tiers: HIGH (garbage collected), MID (arenas) and
LOW (manual, behind a borrow checker).  The repository holds its compiler front end, a tree-walking
interpreter, an LLVM back end with a C runtime, a language server and a browser playground.  This
directory models the parts of it whose correctness depends on *sequences of steps*, checks them
with TLC on small instances, and proves the central properties with TLAPS for all instances.  Where
two parts of the repository give a meaning to the same program (the checkers' graph and the
interpreter, the emitter and the interpreter, inference and the interpreter) the models put them
side by side and compare them.

Contents: [inventory](#inventory), [what is modelled](#what-is-modelled), [runs](#runs),
[proofs](#proofs), [findings](#findings), [not modelled](#what-is-not-modelled),
[plan](#plan), [how to run it](#how-to-run-it).

## Inventory

Paths are under `src/crates`.

| Part | State it keeps | Operations | What makes it correct |
|---|---|---|---|
| HIGH-tier collector, `llvm_poc/runtime/ubel_rt.c` | span table, per-class current span and partial lists, stack of free spans, mark and allocation bits, pointer bitmap, pacing counters | `ubel_gc_alloc`, `ubel_gc_alloc_array`, `ubel_gc_collect`, the two knobs | nothing reachable is freed or altered, nothing else is kept, no slot is lost or handed out twice, memory comes zeroed, every call returns |
| MID-tier arenas, same file and `llvm_poc/src/emit.rs` | chains of chunks, a cache of chunks, the registry of scannable arenas | create, create_scan, bump, grow, destroy; `with arena` blocks | objects do not overlap, chunks have one owner, a collection sees every word of every scannable arena |
| Registered roots, same file | table of regions | add_root, remove_root | a collection scans exactly the regions registered |
| LOW-tier checker, `core/src/sema/{cfg,facts,borrow_check,move_facts,move_check,outlives_check,lifetime_check}.rs` | control-flow graph, loans, move candidates, worklists | one pass per function | every conflicting use and every use after a move on some execution is reported |
| Name resolution, inference, tier rules, `core/src/sema` | symbol and type tables, scope stack, stack of arena blocks | one pass each | names mean at run time what was resolved; no value of an arena outlives it |
| Driver and error manager, `core/src/sema/mod.rs`, `core/src/error_management` | eight lists of errors, capped at 100 together | add, stop between passes | nothing passes once an error was reported |
| Interpreter, `core/src/interpreter` | scope stack, function table with captured environments, statics | statements, calls, signals | scopes balance on every way out of a block |
| `Pool<T>`, `core/src/interpreter/value.rs`, `core/src/builtins/instance/pool_methods.rs` | blocks of slots, generations, free list, growth and order knobs | acquire, release, get, iterate | a slot has one holder; a stale handle does nothing; null only from a full pool |
| Language server, `lsp/src` | stored documents with versions; one waiting handler per running check | did_open, did_change, did_close, publication after the check | diagnostics shown belong to the text shown, and come eventually |
| Parser, `rd_parser/src` | cursor with its half-consumed `>>`, memo table, a ban on struct literals that is saved and restored | recursive descent with speculation and recovery | ends on every input; what recovery passes over was reported; speculation leaves no trace |
| Patterns and matches, `core/src/sema`, `core/src/interpreter/eval/pattern.rs` | the arms' coverage, the scope of the arm tried | declare, check, match, bind | all three readings of a pattern agree; an accepted match takes an arm |
| Traits and dispatch, `core/src/sema/type_infer.rs` and `type_infer/impl_patterns.rs`, `core/src/interpreter/eval` | tables of traits, impls, methods and operators by type; the interpreter's by kind of value; requirements that wait | eight passes over the items, five forms of call and the operators | a bound holds where an impl gives it; the body that runs is the body that was checked; the order of items decides nothing |
| Emitter, `llvm_poc/src/emit.rs` | the open block, scopes of slots, loops and arenas open, text | one pass | the blocks do what the interpreter does with the tree, and keep the contracts of the runtime |
| Lexer, builtins, legacy parser, command line, playground, wasm runtime | none that outlives a call worth naming | | |

**How they interact.**  The command line, the playground and the language server all run
lexer → parser → seven semantic passes, and stop at the first stage that reports anything.  After
that the interpreter executes the tree, or the emitter writes LLVM text that links with the C
runtime.  The runtime sees the program only as memory: stack and registers, heap words and arena
words that it scans conservatively, and calls to its entry points.  The language server sees the
editor as an ordered stream of notifications, and runs its checks on other threads.

**What is hard.**  The repository has one place with real concurrency: handlers of the language
server, whose checks run on a thread pool and end in any order.  In the collector and the arenas
the difficulty is sequences: spans that change role over many cycles while old table fields keep
their values, lists that hold entries which went stale, memory cleared by three different rules,
counters kept by increments far apart, and links of a registry undone in any order.  In the pool
it is handles that outlive what they named.  In the LOW-tier checker it is the gap between a graph
of statements and the executions it stands for; in the emitter, one tree turned into blocks whose
order of evaluation, ways out and arenas must be those of the tree; in the interpreter, leaving a
block halfway.  In the parser it is what one failed function leaves to its callers; in patterns and
traits, one text that two programs read by different rules: inference by types, the interpreter by
values that have lost them.  There is nothing persistent and no network, so crashes and lost messages do not
occur.  `PROJECT.json` lists each hazard at the line where it bites with the properties that cover
it, or a note that says why none does yet.

## What is modelled

### The HIGH-tier collector: `GcHeap`

The whole allocator and collector of `ubel_rt.c`, with the program as its environment.

* Spans are `0 .. NSpans-1`, a heap word is `<<span, offset>>`, sizes are counted in words.  The
  span table of the code is one function per field, and a field keeps its old value
  whenever the code leaves it alone: `run_len` of a span that is no head any more, `cls` of a free
  one.  Those leftovers are what several hazards are about.
* `stack` stands for the stack and registers, scanned conservatively, and `mem` for the value of
  every heap word; `ptr_bits` is the bitmap of pointer words.  Integer variables may hold the
  address of a heap word, so retention by accident is modelled.
* The runtime is single threaded and stops the program.  `pc` says where the thread is.  Marking one
  object (`ScanObject`), sweeping one span (`SweepFree`, `SweepCont`, `SweepLarge`, `SweepSmall`)
  and each attempt to place a request (`TakeSlot`, `TakePartial`, `TakeFreeSpan`, `TakeFreshSpan`,
  `TakeFreeRun`, `TakeFreshRun`, `Exhausted`) are actions, so invariants are checked in the middle
  of a collection as well as between two.
* `Request` includes the trigger check that may start a collection; `RequestTooLarge`
  is the early abort.  The pacing knobs may be turned at any moment between calls.

The mark stack is a set: the order in which objects are scanned is left open, which allows every
order the code could choose.  Address arithmetic is exact at the level of words; bytes within a
word are left out.

`ObjectStore` says what a garbage-collected heap promises: a graph of objects with names, whose
unreachable objects may disappear.  No memory, marks or phases.  `GcRefinement` maps the collector
to it: an object is an allocated slot or a run, its fields are its pointer words, and a word refers
to the object it points into.

### The MID-tier arenas: `Arena`

Creation (plain and scannable), the bump path that `emit.rs` inlines in the program,
`ubel_arena_grow`, `ubel_arena_destroy` with the cache of default-size chunks, and what
`scan_arena_roots` would read.  Structs and chunks are addresses `malloc` hands out; a freed one
may return with its old header, so the stale `used` counts of recycled chunks are in the model.
Arenas may be destroyed in any order, although the blocks of one function nest.  What was allocated
is recorded in `objects`, which no action of the code reads.

### `Pool<T>`: `PoolStore` and `Pool`

`PoolStore` is the promise: a store of values under handles, each handle good for one value until
it is released, and null only when nothing is left.  `Pool` is the code: blocks of equal size, a
free list popped from the front or the back (`fifo`), growth by one block, generations that wrap
modulo `GenModulus`, handles that name an index and a generation but not their pool.  `Known`
collects every handle a program ever got, since it may keep and reuse any of them.  `Strays` says
whether the program may hand one pool the handle of another; the code does not tell such a handle
from its own, so that `OnlyOwnHandleReleases` and `ImplementsPoolStore` are stated of programs
without them (see the findings for what happens with them).  A capacity of 0 is legal in the code
and in the model; `locate` then divides by zero, which is a panic.

### The language server: `LspServer`

The editor sends notifications in order.  tower-lsp polls handlers in one task, so a handler runs
without interruption from receiving its message to its `await` (`Receive`) and from there to its
end (`Conclude`); in between the check runs on a blocking thread, and checks end in any order.
`Diagnose` abstracts the whole front end: a list of diagnostics is represented by the text it was
made for.  `Restart` says whether the editor numbers a reopened document from 1 again.

### The LOW-tier checker: `Syntax`, `Cfg`, `Facts`, `Dataflow`, `Resolver`, `Interp`, `LowTier`

* `Syntax` is a statement as far as these parts look at it: its kind, the name it binds, the
  accesses `facts.rs` sees in it in order (`acc`), those it does not see (`hid`, inside an `if` or
  `match` used as an expression or in a guard), what its expression may raise (`esc`), its bodies.
* `Cfg` is `cfg.rs`: the builder, block by block and statement by statement, and the graph of
  points the checkers read off it.  `Facts` is `facts.rs` and `move_facts.rs`: loans, kills,
  conflicts, moves, and the liveness that `compute_liveness` iterates.
* `Dataflow` is `borrow_check.rs` and `move_check.rs` over an *arbitrary* graph with arbitrary
  facts: one search per loan and per move, each a worklist (`Begin`, `Pop`, `Finish`) whose order
  is left open, then the verdict (`Reject`, `Accept`).  A body that was accepted is executed as a
  walk of the graph with the histories `open`, `stale` and `bad`.  This is the module the proof is
  about.
* `Resolver` is what `name_resolution.rs` records for each mention of a name.  `Interp` is
  `eval/stmt.rs` and `env.rs` step by step: a stack of blocks, scopes, deferred expressions, and
  signals (`break`, `continue`, `return`, `fail`, panic) that leave them.
* `LowTier` composes them: one body, its graph, its searches, the verdict, and the interpreter on
  it, with histories of moves and loans for the *bindings* lookups really find.

The comments of `cfg.rs` call its approximations conservative.  `LowTier` names every way the
interpreter leaves what the graph and the facts say, as a *gap* it records when it happens:
`condition`, `opaque`, `deferred`, `raised`, `caught`, `swallowed`, `unmatched`, `shadow`, `same`,
`leak` (the table at the head of the module).  The properties say that nothing goes wrong until a
gap opens, and each gap is necessary: taking any one of them out of the account breaks a property.

### From a tree to native code: `Tree`, `Eval`, `Escape`, `Emit`, `Native`

* `Tree` is the syntax of the functions the emitter translates: ints, two structs (`N` with an
  int, `B` with an `N`), calls, arithmetic, `and`/`or`, assignments to names and fields, plain and
  compound, `if` and `match` as expressions and as statements, all loops, jumps, `with arena`.
* `Eval` is the interpreter again, as a function from a tree and the answers to its calls to the
  calls made, the result and the way it ended: `eval/expr.rs`, `eval/stmt.rs`, `env.rs`.
* `Escape` is the colouring of types by arenas in `type_infer.rs` with the rules of
  `name_resolution.rs` that decide on the same trees: which functions are accepted.
* `Emit` is `emit.rs`: the basic blocks, with the slots, labels, open loops and arenas it keeps.
  A block is a sequence of instructions; text is left out, what is emitted and when is not.
* `Native` is a machine that executes the blocks, one action per instruction, with the arenas and
  objects of the runtime as far as it matters which arena an object lives in and whether that
  arena is alive.  Beside it stand the interpreter's runs for every sequence of answers.

Calls are the interface: what can be seen of a run is the sequence of its calls and their
arguments, its result, the field of its parameter, and whether it ended, trapped or panicked.
Where emitter and interpreter are known to differ, `Emit` or `Escape` marks it where it arises
(`place`, `declared`, `twice`; `elif`, `arm`, `field`), and `Native` notes a sum or a counter that
left the range of the ints (`wrapped`).  The properties hold outside these marks, and again each
is necessary.  Ints are in `-Top-1 .. Top`; the machine's wrap and the interpreter's saturate, as
in the code.

### The parser: `Grammar`, `Parser`

* `Grammar` is the parse functions of `rd_parser` as data: each definition is one function, the
  sequence of what it looks at, consumes, reports, repeats and gives up on.  What it builds is left
  out.
* `Parser` is the machine that executes them: the cursor with `split_at`, the loops of `parser.rs`
  with their guard of progress, recovery to a set of tokens, the Pratt loop, speculation with the
  memo of misses, and the flag `no_struct_lit`.  `todo` is the call stack, as what is left of every
  function on it.  Tokens are drawn when a function first looks at them, so that one behaviour
  stands for all files with that beginning.  `events` and `nest` are histories.
* `Discipline` is computed from `Grammar` and models nothing: for every piece of a function, what may
  give up or leave a loop, and what is known at each of its points (brackets open, tokens consumed,
  the tokens ahead, the restriction in force).  That the functions keep the discipline are its
  assumptions.  They have no parameters and TLC evaluates them in full; the proofs rest on them.

### Patterns: `Patterns`, `Matching`

`Patterns` reads a pattern three times: the names the resolver declares for it, what inference makes
of it knowing the type, and what the interpreter does with it and a value.  `Matching` checks a match
arm by arm and then tries the arms on a value, with guards, or binds a `let`.  Where the readings
are known to part, `Gaps` says so (`mixed`, `unseen`, `path`, `range`, `refuses`, `branch`, and
`Loose` for a `let`); each is necessary.

### Traits and dispatch: `Traits`, `Impls`, `Dispatch`, `Coherence`

* `Traits`: types as heads with arguments, bounds, the closure of supertraits, the prelude's traits,
  and whether a type implements a trait: yes, no, or not to be told yet.
* `Impls`: the passes of `collect_signatures` over traits, structs, `extend` and `impl` blocks, and
  what each refuses.  The first error refuses the program; what inference still records after it is
  left out.
* `Dispatch`: the tables the interpreter builds from the same items, and the forms of call
  (`v.n()`, through a bound, `Trait.n(v)` inside and outside a generic function, `S.n()`, `v + w`),
  each once as inference resolves it and once as the interpreter runs it.  A program is checked pass
  by pass, loaded, and then any call is checked and run.
* `Coherence`: what the two owe each other, said of the items as written and never of a table either
  of them builds; and the causes for which they part (`WrittenTwice`, `KindHasIt`, `ThroughOwner`,
  `OneOfSeveral`, `OnTypeName`, `TakenForPrelude`, `OwnText`, `OperatorUnasked`, `NativeByThen`,
  `Postponed`), each met by some program of the run.

Which definition models which lines is in `PROJECT.json` under `map`.

## Runs

| Run | Instance | Properties |
|---|---|---|
| `gc_slots` | 2 spans of 2 words, classes of 1 and 2 words, 2 pointer variables, data that looks like an address | `NoDangling`, `NoSlotLost`, `ClassListsSound`, `TriColour`, `CollectExact` |
| `gc_spans` | 3 spans of 1 word, objects of 1, 2 and 3 spans, one pointer and one integer variable | `TypeOK`, `RunsWellFormed`, `FreeStackComplete`, `NewObjectsAreZero`, `ImplementsObjectStore` |
| `gc_pacing` | as above with both knobs moving and a request that never fits | `PacingExact`, `Returns` (liveness) |
| `arena_chunks` | 3 arenas, 3 chunks, chunks of 4 words by default or of 3, cache of 2, objects of 1, 4 and 5 words, at most 3 in all | `ObjectsDisjoint` (with `ChunksOwnedOnce`), `ScanExact` (with `RegistryExact`) |
| `pool` | one pool, no stray handles (`Strays = FALSE`), blocks of 0, 1 or 2 slots, up to 2 blocks, 2 values, generations to 2 | `FreeListExact`, `FailsOnlyWhenFull`, `OnlyOwnHandleReleases`, `ImplementsPoolStore` |
| `lsp_edits` | 2 documents, 2 texts, 2 concurrent checks, versions to 3, 2 messages in flight | `QuietIsCurrent`, `PublishesCurrent`, `EveryTextAnswered` (liveness) |
| `lsp_reopen` | 1 document, 3 checks, versions that start again | `PublishesCurrent`: **violated** |
| `low_tier` | about 3000 bodies of one or two compound statements around one owned local, or one mutable borrow; loops of at most 2 rounds | `Safe`, `NoSecondUse`, `Lexical`, `FollowsGraph` (`LowTier` implements `Dataflow`) |
| `native` | about 1300 functions, calls answered 0 or 1, at most 4 answered in a run, ints -4 to 3 | `Faithful`, `MemorySound` (`NoDangling`, `Written`, `Scanned`), `ArenasNest`, `Ends` (liveness) |
| `parser` | 16 beginnings of files, each followed by every sequence of 2 to 7 tokens of up to 28 classes | `NothingElseSilent`, `RestrictionScoped`, `Balanced`, `Terminates` (liveness) |
| `matching` | matches of up to 3 arms, with and without guards, and `let`s, over two enums (one generic, with payloads), optionals, tuples, lists, a struct, numbers | `ReadAsChecked`, `SomeArm`, `NamesBound` |
| `traits` | eleven families of programs: every order of some structs and at most 3 blocks after the family's traits; every call of every name on every value of interest, at two tiers | `BoundsAreKept`, `MeansWhatIsWritten`, `RunsWhatWasChecked`, `OrderDoesNotMatter` |

What the runs about programs show:

* `low_tier`.  `FollowsGraph`: checks and executions of every body are behaviours of `Dataflow`;
  until a gap opens the statements the interpreter starts follow each other along edges of the
  graph. `NoSecondUse`: in an accepted body nothing moved is moved again and no broken loan is
  read, whatever path is taken and whatever is raised.  `Safe` is the same on the graph.
  `Lexical`: each lookup finds the definition the resolver recorded.
* `native`.  `Faithful`: the native run makes the calls of the interpreter in its order, returns
  what it returns, leaves the same in the field of the parameter, traps where it panics.
  `MemorySound`: what the escape check accepted never touches or returns an object of a dead arena,
  no slot is read before it is written, and every live arena with an object that has a pointer is
  one the collector scans. `ArenasNest`: only the innermost arena is
  destroyed, none twice, all before a return, and new objects go to the innermost.  `Ends`: where
  the interpreter's run ends, the native one does.
* `parser`.  `Terminates`: on every file, also where recovery stops where it started.
  `NothingElseSilent`: recovery passes over a token only after a report, but for ten named places
  where a function gives up in silence; a `<` once tried as type arguments is not read as something
  else, but where the file ends inside them (`const a = b as c < d` is accepted as a comparison).  `RestrictionScoped`: the ban on struct literals ends with the head it is for.  `Balanced`:
  an accepted file closes its brackets in order, and no half-consumed `>>` survives speculation.
* `matching`.  `ReadAsChecked`: an arm is entered for exactly the values its pattern stands for as
  inference read it.  `SomeArm`: an accepted match over an enum takes an arm.  `NamesBound`: the
  arm sees the names inference recorded for it, with values of the recorded types, and no name of
  an arm tried before.
* `traits`.  `BoundsAreKept`: `bound_status` says yes exactly where an impl written for the type,
  with what its block asks of the argument, gives the trait; and then also for all supertraits.
  `MeansWhatIsWritten`: an accepted call means a body written for its receiver, by the order of
  precedence (inherent, then trait; the trait that is named).  `RunsWhatWasChecked`: the
  interpreter runs that body.  `OrderDoesNotMatter`: exchanging two structs or blocks changes
  neither whether a program is accepted nor what its calls mean and run.

**Why the bounds are enough.**  In the collector a defect needs a span that changes role: small to
free to part of a run and back, and a list entry that went stale in between.  Two spans with two
classes reach every change of class; three spans reach runs of length two and three, a run that
leaves a stale entry below the top of the free-span stack, and the last span of the heap.  Two
pointer variables allow a chain, a cycle, an interior pointer and an object whose only holder is
another object.  In the arenas three of them put one in the middle of the registry; three chunks
give an arena two retired ones and overfill the cache; a request of 4 in an arena of 3 is the
request that happens to get the default size, and 5 is one larger than every chunk.  In the pool
one handle of generation 0 outlives two later holders of its slot, and the generation bound stays
below `GenModulus` so that no handle comes round again (`docs/MEMORY_MODEL.md` 875-884 accepts
that).  In the language server a stale check needs one newer version, a close and a reopening:
three versions.  In `low_tier` a defect of the graph is a missing path between two accesses: one
compound statement, or a loop around one, with an access before, inside and after it gives each
shape of path, and two rounds take every back edge once with the state the first round left.
`MCLowTier` puts every way out (`break`, `continue`, `return`, `fail`) into every kind of body.
In `native` every expression stands in every place (initialiser, argument, assigned value,
operand, result), every loop and arena is left in every way, and a value leaves an arena in every
form; four answers reach the second round of a loop whose body calls once, and the largest int is
the end of one of the ranges.  In `parser` a list loop, a recovery and a speculation each show
within a few tokens of where they begin, so each file begins where a function of interest is about
to start and goes on with the tokens that function tells apart.  In `matching` a third arm is
needed where an enum of three variants is covered by different forms.  In `traits` a conflict takes
two blocks and a third that separates them: three blocks reach an impl, another that overlaps it and
an inherent method of the same name, in every order.

**Bounds that are not in the code** are constants with a comment where they are declared:
`MaxObjects`, `MaxGeneration`, `MaxBlocks`, `MaxVersion`, `MaxInbox`, `MaxRounds` (rounds of a
loop, in `Interp` and in `Eval`), `MaxCalls`, `MaxList`, the `more` of each file of `MCParser`,
`Longest` (blocks of a program); `Top` stands for the largest int.  `MaxHandlers`
stands for the limit tower-lsp puts on concurrent handlers.

**Deadlock** is checked in all runs of the collector and in `low_tier` (`Stop` is the end of a
body).  In the others the environment may fall silent or reach a bound, and a native run, a parse,
a match and a call stop when they are over (`CHECK_DEADLOCK FALSE`).

**Fairness.**  Four liveness properties.  `Returns` assumes weak fairness of marking, sweeping
and placing, each as a whole: they are loops of one thread that nothing blocks.  Nothing is
assumed of the program.  `EveryTextAnswered` assumes that tower-lsp takes the next message while a
handler is free and that every check ends; each check is a bounded computation, and one in which
the compiler panics ends with an empty list (`analyzer.rs` catches it; the texts of `Silent`).  No
fairness is assumed of the editor: the property lets it move on.  `Ends` assumes weak fairness of
the machine's next instruction, and `Terminates` of the parser's: one thread runs a compiled
function, one parses a file, and nothing blocks either.

Every property of every passing run has a mutant in `PROJECT.json`: a change to one mapped
definition of the kind a bug would make, under which TLC finds the property violated.  They stand
beside the definitions they replace, marked `Mutant`.

## Proofs

All theorems hold for every value of the constants that the named assumption of the module admits.

**Collector** (`GcHeapProofs`, and `GcHeapSafetyProofs` with the refinement; `HeapAssumption`: a
heap of at least one span, a class table whose last class is a whole span, a null that is no heap
word; `ProgramAssumption`: requests of at least one word, disjoint kinds of variables).

* `TypeCorrect`, `RunsStayWhole`, `ListsStaySound`: types, runs and lists.  None is inductive
  alone. That a swept list holds spans of its class needs that the sweep has not yet reached what
  it will free; that a run stays whole needs that no span beyond `next_fresh` is in use.
  `Structure == RunsWellFormed /\ ClassListsSound /\ TableInRange /\ SweepBehind` closes under
  every step.
* `StackHoldsEveryFreeSpan`, `EverySlotInReach`: no memory is lost.  While a sweep runs neither
  statement is true of the whole heap, so the inductive ones, `FreeStackKept` and `SlotsKept`, are
  about the spans the sweep has passed, all of them when none runs.  What carries them: a span
  stops being the current one of its class only when it is used up, an entry of the stack that a
  run took goes stale without hiding another, and the sweep puts back what it frees before it
  moves on.
* `PacingSeesTheHeap`: the counters are the heap's.  The inductive form, `PacingKept`, says what
  `live` counts in the middle of a sweep, the space of the objects behind it, and that everything
  else keeps its count until the sweep ends.  Space is summed with a fold that takes elements in an
  order of its own choosing; that the sum does not depend on it, and that adding an object adds its
  space, is proved first, by induction over finite sets (`SubsetInduction`).
* `NothingDangles`, `NothingBlackPointsAtWhite`, `StartsWhite`, `NewMemoryIsZero`, from
  `HeapInvariant`.  The inductive invariant `HeapInv` adds to `Structure`: marks sit on objects and
  only while collecting; memory never handed out is zero; the no-scan flag of a large object tells
  the truth; the tri-colour invariant while marking; and `Closed`: the set of objects that will
  survive (all of them outside the sweep, the marked and the already swept during it) holds
  whatever the stack and the survivors point at.  When marking ends the mark stack is empty, so
  tri-colour gives `Closed` for the marked objects; the sweep then removes only what lies outside
  it.  Unused memory must be zero because a collection may follow the pointer words of a new object
  before the program has written them.
* `CollectsExactly`: a finished collection left exactly what the stack reaches.  `NothingDangles`
  is one half.  The other needs `OnlyReached`: while marking every marked object is in reach, and
  while sweeping every object that will survive is.  Reach itself moves under the sweep, since it
  is computed over the objects there are; it stays the same because every way from the stack leads
  through survivors, and the sweep takes none of them.
* `CollectorIsAnObjectStore`: the collector implements `ObjectStore` under the mapping of
  `GcRefinement`.  Marking and the changes of phase are stutters; sweeping a span is `Reclaim` of
  its objects outside the survivors, which nothing that stays refers to by `Closed`; a placement is
  `New`, whose fields are empty since its memory is zero; a store of the program changes one
  field or none.

**Arenas** (`ArenaProofs`; `ArenaAssumption`, with finitely many arena headers, as `malloc` gives
them).  `ArenaTypeCorrect`, `NoObjectsOverlap`, `CollectionReadsArenas`, from one invariant: the
types; the registry is the scannable arenas that live, linked without a cycle; no two owners, the
cache among them, hold one chunk; and the objects of an arena lie in its chunks below the mark
that says how far each is used.  That the walk along the registry meets every arena is an
induction along a list, of a recursive function; `SetInduction`, induction over a finite
set, is proved there for it.

**Pool** (`PoolProofs`).  `PoolTypeCorrect`, `NoSlotLostOrShared` and `FailsWhenFull` (null comes
only from a pool without a free slot, and is no handle) hold for any number of pools, even with
handles mixed up.  `ReleasedByOwnHandle` and `PoolIsAStore`, the refinement of `PoolStore`, assume
`~Strays`, and must: see the findings.  The handles the store has issued are those of the
generations a slot went through and of the present one; that no step revives an old one is what the
bound on generations is for.

**Language server** (`LspServerProofs`).  `LspTypeCorrect`; `OnlyStoredTextPublished` and
`LastAnswerStands` assume `~Restart`, and the run `lsp_reopen` shows why.  The invariant says that
the messages in flight are numbered upward, that a check's version is not ahead of the stored one,
that a version tells its text, that the editor's text is the last one sent, and that for every
stored text without its answer a check is still to come.

**LOW-tier checkers** (`DataflowProofs`; no assumption: any graph, any facts, any order of the
worklists).  `SearchesClosed`: the inductive invariant `Inv` says that the facts are well formed
(`GraphOK`: liveness solves its equations); that in a running search a point reached and looked at
is a kill or has all its successors reached (`SearchOK`), so that a finished one is closed
(`FoundOK`); that each search is still to do, running or finished (`Covered`); and that on the
walk every open search was answered with a set that holds all points that may come next, and a
stale loan's holder is not live (`WalkOK`).  `AcceptedIsSafe` follows: were a moved value moved
again, or a stale loan read, that point would lie in the answer of its search, and the body had
not been accepted. `FollowsGraph` carries this to the interpreter's executions; that half is
model-checked.

**Parser** (`ParserProofs`, with `WellFormed`, and `ParserSoundProofs`, with the other three;
`FilesAssumption`, any files of any length, and the facts of `Discipline`).  All four theorems are
about the stack `todo` of unfinished functions.

* `WellFormed`: types, and `Stack`: what an element of the stack relies on lies below it.  An
  instruction that may fail has one below it that handles failures, one that may leave a loop has
  the loop, with no boundary between; a `restore` of the ban on struct literals stands where the
  ban was set, on the way of success and on that of failure, with the value then in force.
* `AcceptedIsBalanced` and `BanEndsWithItsHead`, and the first half of `NothingPassesInSilence`,
  from one invariant, `Sound`.  `Chain` gives every element of the stack what is known where it
  begins and where it ends: brackets open, tokens consumed, tokens ahead, restriction in force.  Each
  is a point of a piece of a function, as `Discipline` has it, moved to where that function began
  (`Placed`); neighbours agree; and what is known at the top is true of `nest`, `pos` and the
  tokens ahead (`Tells`).  A step puts on the stack one of the pieces `Discipline` lists under its
  instruction, or drops what a failure or a break leaves, and the facts say what is known next.  The
  places the properties except break only some of what is known, so there are three levels, each
  silent once one of its places was passed; and after the first report nothing is claimed at all.
  Speculation is where this is hard: it ends in the state its `mark` saved, so what was known there
  must still be what the stack below expects (`Told`).
* The second half of `NothingPassesInSilence`, that an abandoned list of type arguments is an error
  unless the file ends inside it, from `Tidy`: above the mark of an attempt stand only instructions
  that cannot fail without a report, and the one that gives up stands behind a loop that ends only
  at a closing `>` or at the end of the file.

`StartsWhite`, `HeapInvariant`, `LspTypeCorrect`, `PoolTypeCorrect` and `WellFormed` are theorems about
definitions no run lists, because the other proofs need them or a reader asks first.

**Only model-checked**: liveness (`Returns`, `EveryTextAnswered`, `Ends`, `Terminates`), which is
beyond the prover; `FollowsGraph`, `NoSecondUse`, `Lexical` and all of `Native`, `Matching` and
`Coherence`, whose modules are recursive over trees, types or patterns, for which the prover has
no back end.  The facts about the functions of
`Grammar` that `Discipline` states are evaluated by TLC, not proved: they follow pieces of code to
where they end, through recursive definitions the provers cannot unfold.

## Findings

* **Diagnostics of a closed text appear over its successor** (`lsp_reopen`).  The version test
  cannot tell version 1 of a reopened document from version 1 before the close.

Seen on the way, without a run of its own.

In the pool: a handle of the wrong pool is obeyed.  `release` and `get` compare an index and a
generation (`pool_methods.rs` 85), and two pools of one element type agree on both from the start;
`docs/MEMORY_MODEL.md` 873-874 and `pool_methods.rs` 11-13 call an invalid handle a silent no-op.
No run of the project has such handles.  `MCPool` with `Pools = {p, q}`, `Sizes = {1}` and
`Strays = TRUE` shows it in three calls, as a violation of `OnlyOwnHandleReleases`: `p` and `q` each
acquire a value, and `p.release` with the handle of `q` empties the slot of `p`.  With a pool of
capacity 0 the same call divides by zero (`value.rs` 259).

In the runtime: the comment above `scan_arena_roots` (`ubel_rt.c` 790-792) says the collector reads no
arena word that nobody wrote; rounding to 16 bytes and enum variants narrower than the widest leave
words below `cur` as the recycled chunk had them, which can keep garbage alive, nothing worse.
`docs/LLVM_POC.md` 868-870 still says that the whole of each retired
chunk is scanned, the code scans its first `used` bytes; the comment in `pool_methods.rs` 63-65 ("a
single new block always has room") is wrong for a pool of capacity 0, where `acquire` grows and
still returns null; an exhausted heap aborts without trying a collection first, however much of it
is garbage (`Exhausted` models that).

In the LOW-tier checker, each a gap of `LowTier` (lines of `core/src/sema` unless said otherwise):

* The condition of a loop stands once, before the header (`cfg.rs` 335), so a value moved in it is
  moved again in the second round unseen (`condition`).
* Accesses inside `if`, `match` or a block used as an expression are not collected (`facts.rs`
  425): a use after such a move is accepted.  `cfg.rs` 24-32 says such spots are never unsound
  (`opaque`).
* The edge from before a `try` to its `catch` leaves out what the body moved before it failed;
  `cfg.rs` 34-39 says "conservative, not unsound" (`caught`).  A `try` without `catch` is taken to
  leave the function (`cfg.rs` 403), the interpreter goes on after it (`eval/stmt.rs` 332;
  `swallowed`).
* A `match` on anything but an enum is not checked for exhaustiveness (`type_infer.rs` 4249-4280);
  one that takes no arm falls through (`eval/stmt.rs` 192), along an edge the graph does not have
  (`unmatched`).
* Facts know names, not bindings, so a shadowing `let` of the same name gives a moved value back
  (`shadow`); two moves in one statement, `f(a, a)`, are not seen (`same`); `x or break` has no
  edge (`raised`); a deferred move happens when the block is left (`deferred`).
* A guard, or a resource of `using`, that raises leaves its scope on the stack (`leak`).

In inference and the emitter, each a mark of `Native` (lines of `llvm_poc/src/emit.rs` and
`core/src/sema/type_infer.rs`):

* A value of an arena can leave its block through a branch of a value `if` that is neither the
  first nor the `else` (`type_infer.rs` 6030), through an arm of a value `match` before the last
  (6045-6062), and through a field of a struct in the arena, whose type is unknown (5791).
  `docs/LLVM_POC.md` 749-750 says that an arena value is not "returned out of its block"; the
  header of `type_infer.rs` (24-46) lists assignment and return as caught.
* A field assignment evaluates the object first and once (`emit.rs` 1487-1515); the interpreter
  evaluates it after the right-hand side, and twice for a compound one (`eval/expr.rs` 915-992).
* `if c then y := e` declares `y` around the `if` on one path only: natively the other path reads an
  unwritten slot, the interpreter panics.
* The last expression of a function, when its type is not the result type, is emitted twice (`emit.rs`
  1037-1053); an `if` or `match` statement at the end gives the interpreter its value while native
  code traps, and inference checks neither (`type_infer.rs` 4315).
* An inclusive range to the largest int never ends natively (`emit.rs` 1294); the interpreter computes
  through floats and saturates (`eval/expr.rs` 772-808), native code wraps.

In the parser (lines of `rd_parser/src/parsers` unless said otherwise):

* `with 5;` is skipped without a report (`parse_stmt.rs` 359; `docs/PARSER_RULES.md` 990 has the
  rule), and so is what `@cfg(not(debug))` says (`parse_attr.rs` 306).  An attribute block inside
  another whose braces are empty is taken for no item (`parse_decl.rs` 79-82).
* The argument list of `?.` does not lift the ban on struct literals (`parse_expr.rs` 985) as that of
  a plain call does (725).
* `f((a)` is accepted: two functions consume an opening bracket, one a closing one (`parse_expr.rs`
  940; `docs/DIAGNOSTICS_RULES.md` 374).  A half-consumed `>>` can be read as a shift (`cursor.rs`
  205 against 193), and `x as Foo < 3` as type arguments (`parse_type.rs` 390).
* `can_start_expr` (`parser.rs` 330) leaves out integers with a suffix and the collections, which
  `parse_prefix` takes.

In patterns (lines of `core/src/sema/type_infer.rs`; gaps of `Matching`):

* A bare name is a variant only while the value at hand carries no payload (`eval/pattern.rs` 186-191,
  against `docs/ENUM_RULES.md` 157-168), so in an enum of both kinds `North` also takes `South(1)`
  (`mixed`); where inference knows no enum, it takes it for a binding and the interpreter for a
  variant (`unseen`).
* The resolver declares a variant's bare name as a local, which 3935-3940 calls harmless: two of
  them in a tuple are rejected as declared twice, and an arm may mention a name nothing binds.
* A part that can refuse leaves its variant covered (4243-4248; `refuses`); `Other.Variant` is read
  by its last segment (`path`); ranges never match sized integers (`range`); alternatives may bind
  different names (`branch`).
* The arity and shape of a destructuring `let` are not checked, though `eval/pattern.rs` 75-77 says
  so, and an unknown field of a struct pattern binds null (`Loose`).

In traits and dispatch (causes of `Coherence`; lines of `type_infer.rs` unless said otherwise):

* Two inherent methods of one name on a non-generic type: inference means the first, the interpreter
  keeps the last (`WrittenTwice`).  Types of one kind (`int` and `long`, tuples, lists) share
  methods at run time: an `impl PartialEq for (S, int)` runs for every pair (`KindHasIt`).
* With several impls of an operator trait `Trait.method(v, x)` is typed by the first and runs the
  last; `docs/TRAITS_DESIGN.md` 766-768 says the first in both (`OneOfSeveral`).
* A `Unique` passed through a bound runs an inherent method of the name, and `Trait.n(x)` inside the
  generic function panics, though `eval/expr.rs` 1208-1210 and `docs/TRAITS_DESIGN.md` 98-107 say the
  trait's method runs (`ThroughOwner`).
* `+` does not ask what the impl asks of its type's argument (6700-6727, against
  `docs/TRAITS_DESIGN.md` 560-564; `OperatorUnasked`).
* A method with a receiver, called on its type's name, is accepted and runs without one
  (`OnTypeName`); a program's own `Display`, called by name on a built-in, is taken for the
  prelude's (`TakenForPrelude`); a scalar's `to_string` is never the user's (`OwnText`).
* A requirement that has to wait is settled without the bounds of the impl that asked (2401), so a
  program may be accepted in one order and refused in another (`Postponed`); so may an impl of a
  prelude trait for a tuple (`NativeByThen`).  A supertrait named twice with different arguments
  loses the second (1628-1673).

## What is not modelled

Each part left out is in `PROJECT.json` with its reason.  In short: the rest of the type system
(unification, literals' widths, aliases, closures, tier rules that look at one node), the lexer and the
legacy parser are recursive passes over trees or text with no state that outlives a call, and belong
to tests; the outlives and lifetime checks compare declared regions of one function at a time;
command line and playground are input and output.  Registered roots and the rounds that initialise
constants have hazards of their own and are left to the plan.  Of the emitter: floats, strings,
globals, arrays, enum payloads, methods, generic instances, closures.  Of the interpreter:
closures with captured environments, collections other than pools.  Of the parser: interpolated
strings and their format specs, the nodes built, the spans of reports.  Of traits: methods with
parameters and bounds of their own, default type arguments, enums as targets (a struct stands for
them), associated functions supplied by traits, `Index` and the comparison operators.  Within the
modelled parts: bytes within a word, statistics, logging, `abort` messages, exhaustion of
`malloc`, sizes beyond the machine's integers.

## Plan

Done: the collector with its abstract store, proved to implement it; the pool with its store, proved
likewise; the arenas and the language server with their proofs; the LOW-tier checkers against the
interpreter, with the proof over arbitrary graphs; functions from the tree to native code; the
parser with its recovery, with the proof for all files; patterns and matches; traits and dispatch.

Left, in this order:

1. **Roots**: arenas and registered roots as explicit root sets of the collector (a module that
   composes `Arena`, a root table and an abstract collection): nothing an arena alone holds is lost
   between its creation and its destruction.
2. **Constants**: the rounds that initialise constants and statics, with functions that captured
   the scope before.
3. **Values**: equality, ordering and hashing of values with user operators, which must agree.
4. More of `Tree`: strings and enum payloads (what a match binds), arrays, methods.

## How to run it

    tlasany M.tla                              # parse
    tlc -workers 2 -config X.cfg M             # check: X and M as listed under "runs" in PROJECT.json
    tlapm M.tla                                # prove: the modules named *Proofs

The longest runs take about two minutes, and the longest proof, `ParserSoundProofs`, about ten.
