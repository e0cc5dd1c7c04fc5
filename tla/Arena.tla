-------------------------------- MODULE Arena --------------------------------
(***************************************************************************)
(* MID-tier arenas (src/crates/llvm_poc/runtime/ubel_rt.c, and the bump    *)
(* path that src/crates/llvm_poc/src/emit.rs writes into every program):   *)
(* chains of chunks, a cache of chunks of the default size, and the        *)
(* registry of scannable arenas, whose contents are roots of the garbage   *)
(* collector.                                                              *)
(*                                                                         *)
(* Sizes are in words of 8 bytes.  Structs and chunks are addresses that   *)
(* malloc hands out and takes back; a freed one may come back with what it *)
(* held before.  The counter behind ubel_arena_live is left out.           *)
(***************************************************************************)
EXTENDS Naturals, FiniteSets, Sequences, SequencesExt, FiniteSetsExt

CONSTANTS Arenas,    \* addresses of ubel_arena structs
          Chunks,    \* addresses of chunks
          NULL,
          Default,   \* ARENA_DEFAULT_CHUNK
          CacheMax,  \* ARENA_CACHE_MAX
          Sizes,     \* the sizes programs write in with arena(size), 0 for none
          Requests,  \* the sizes of the objects they allocate
          MaxObjects \* bound on the objects of one arena

ASSUME ArenaAssumption ==
    /\ Default \in Nat \ {0} /\ CacheMax \in Nat /\ MaxObjects \in Nat
    /\ Sizes \subseteq Nat /\ Requests \subseteq Nat \ {0}
    /\ NULL \notin Arenas /\ IsFiniteSet(Arenas)

VARIABLES arena,        \* the live arenas' structs
          size, used,   \* the header of every chunk, live or not
          chunk_cache,
          scan_head,
          objects       \* what was allocated in each live arena

vars == <<arena, size, used, chunk_cache, scan_head, objects>>

Freed == [live |-> FALSE]
Live  == {a \in Arenas : arena[a].live}
Link  == Arenas \cup {NULL}

\* chunks is the list from the newest chunk, cur the offset in that chunk.
Struct == [live : {TRUE}, chunks : Seq(Chunks), cur : Nat, chunk_size : Nat,
           scannable : BOOLEAN, scan_next : Link, scan_prev : Link]

\* n of the words of an object are written, and rounding adds those up to the
\* next multiple of 16 bytes.
Object == [chunk : Chunks, at : Nat, n : Requests]

TypeOK ==
    /\ arena \in [Arenas -> Struct \cup {Freed}]
    /\ size \in [Chunks -> Nat] /\ used \in [Chunks -> Nat]
    /\ chunk_cache \in Seq(Chunks) /\ Len(chunk_cache) <= CacheMax
    /\ scan_head \in Link
    /\ objects \in [Arenas -> SUBSET Object]

Init ==
    /\ arena = [a \in Arenas |-> Freed]
    /\ size = [c \in Chunks |-> 0] /\ used = [c \in Chunks |-> 0]
    /\ chunk_cache = <<>>
    /\ scan_head = NULL
    /\ objects = [a \in Arenas |-> {}]

-----------------------------------------------------------------------------
(* Chunks *)

ChunksOf(a) == Range(arena[a].chunks)

\* The chunks malloc may return: those in no arena and not in the cache.
Unowned == Chunks \ (Range(chunk_cache) \cup UNION {ChunksOf(a) : a \in Live})

\* arena_install_chunk: take c from the cache or from malloc.
FromCache(c, payload) ==
    /\ payload = Default /\ chunk_cache # <<>>
    /\ c = Head(chunk_cache) /\ chunk_cache' = Tail(chunk_cache)
    /\ UNCHANGED size

FromMalloc(c, payload) ==
    /\ ~(payload = Default /\ chunk_cache # <<>>)
    /\ c \in Unowned
    /\ size' = [size EXCEPT ![c] = payload]
    /\ UNCHANGED chunk_cache

Install(c, payload) == FromCache(c, payload) \/ FromMalloc(c, payload)

-----------------------------------------------------------------------------
(* ubel_arena_create and ubel_arena_create_scan *)

Created(c, chunk_size, scan) ==
    [live |-> TRUE, chunks |-> <<c>>, cur |-> 0, chunk_size |-> chunk_size,
     scannable |-> scan, scan_next |-> IF scan THEN scan_head ELSE NULL, scan_prev |-> NULL]

\* The former head points back at the new one.
Register(a, new) ==
    IF scan_head # NULL
    THEN [new EXCEPT ![scan_head].scan_prev = a]
    ELSE new

Create(a, asked, scan) ==
    LET chunk_size == IF asked = 0 THEN Default ELSE asked
    IN  /\ a \notin Live
        /\ \E c \in Chunks :
              LET new == [arena EXCEPT ![a] = Created(c, chunk_size, scan)]
              IN  /\ Install(c, chunk_size)
                  /\ arena' = IF scan THEN Register(a, new) ELSE new
        /\ scan_head' = IF scan THEN a ELSE scan_head
        /\ UNCHANGED <<used, objects>>

-----------------------------------------------------------------------------
(* Allocation: alloc_obj rounds, the bump path or ubel_arena_grow places.   *)

Rounded(n) == n + (n % 2)

Newest(a) == Head(arena[a].chunks)

NewObject(a, c, at, n) ==
    objects' = [objects EXCEPT ![a] = @ \cup {[chunk |-> c, at |-> at, n |-> n]}]

\* Mutant: the bump path compares the size before it is rounded.
FitsUnrounded(a, n) == arena[a].cur + n <= size[Newest(a)]

Fits(a, n) == arena[a].cur + Rounded(n) <= size[Newest(a)]

Bump(a, n) ==
    /\ Fits(a, n)
    /\ arena' = [arena EXCEPT ![a].cur = @ + Rounded(n)]
    /\ NewObject(a, Newest(a), arena[a].cur, n)
    /\ UNCHANGED <<size, used, chunk_cache, scan_head>>

\* Mutant: the retired chunk keeps the count of an earlier life.
RetireForgotten(a) == UNCHANGED used

\* What the retired chunk's header says was written in it.
Retire(a) == used' = [used EXCEPT ![Newest(a)] = arena[a].cur]

Payload(a, n) == Max({arena[a].chunk_size, Rounded(n)})

ubel_arena_grow(a, n) ==
    /\ ~Fits(a, n)
    /\ Retire(a)
    /\ \E c \in Chunks :
          /\ Install(c, Payload(a, n))
          /\ arena' = [arena EXCEPT ![a].chunks = <<c>> \o @, ![a].cur = Rounded(n)]
          /\ NewObject(a, c, 0, n)
    /\ UNCHANGED scan_head

Alloc(a, n) ==
    /\ a \in Live /\ Cardinality(objects[a]) < MaxObjects
    /\ Bump(a, n) \/ ubel_arena_grow(a, n)

-----------------------------------------------------------------------------
(* ubel_arena_destroy *)

\* Take a out of the registry.
UnlinkPrev(a, new) ==
    IF arena[a].scan_prev # NULL
    THEN [new EXCEPT ![arena[a].scan_prev].scan_next = arena[a].scan_next]
    ELSE new

UnlinkNext(a, new) ==
    IF arena[a].scan_next # NULL
    THEN [new EXCEPT ![arena[a].scan_next].scan_prev = arena[a].scan_prev]
    ELSE new

Unregistered(a) == UnlinkNext(a, UnlinkPrev(a, arena))

HeadWithout(a) ==
    IF arena[a].scannable /\ arena[a].scan_prev = NULL THEN arena[a].scan_next ELSE scan_head

\* Where in its list a has chunks of the default size.
Defaults(a) == {k \in DOMAIN arena[a].chunks : size[arena[a].chunks[k]] = Default}

InListOrder(S) == {at \in Bijection(1..Cardinality(S), S) :
                      \A k, l \in DOMAIN at : k < l => at[k] < at[l]}

\* Those chunks one by one on top of the cache, while it has room.
Cached(a, at) ==
    LET taken == Min({Cardinality(Defaults(a)), CacheMax - Len(chunk_cache)})
    IN  [k \in 1..taken |-> arena[a].chunks[at[taken + 1 - k]]]

Destroy(a) ==
    /\ a \in Live
    /\ arena' = [(IF arena[a].scannable THEN Unregistered(a) ELSE arena) EXCEPT ![a] = Freed]
    /\ scan_head' = HeadWithout(a)
    /\ \E at \in InListOrder(Defaults(a)) : chunk_cache' = Cached(a, at) \o chunk_cache
    /\ objects' = [objects EXCEPT ![a] = {}]
    /\ UNCHANGED <<size, used>>

Next ==
    \E a \in Arenas :
       \/ \E asked \in Sizes, scan \in BOOLEAN : Create(a, asked, scan)
       \/ \E n \in Requests : Alloc(a, n)
       \/ Destroy(a)

Spec == Init /\ [][Next]_vars

-----------------------------------------------------------------------------
(* What a collection sees.                                                  *)

\* scan_arena_roots: the arenas it visits, from scan_head along scan_next, each
\* step at most once.
Reached[i \in 0..Cardinality(Arenas)] ==
    IF i = 0 THEN {scan_head} \ {NULL}
    ELSE Reached[i-1] \cup ({arena[a].scan_next : a \in Reached[i-1] \cap Live} \ {NULL})

Scanned == Reached[Cardinality(Arenas)]

\* The words it reads: of the newest chunk those below cur, of a retired chunk
\* those below used.
ScannedBelow(a, c) == IF c = Newest(a) THEN arena[a].cur ELSE used[c]

WordsRead == UNION {UNION {{<<c, w>> : w \in 0..(ScannedBelow(a, c) - 1)} : c \in ChunksOf(a)} :
                    a \in Scanned}

Extent(o)    == {<<o.chunk, w>> : w \in o.at..(o.at + Rounded(o.n) - 1)}

ObjectsIn(A) == UNION {objects[a] : a \in A}

-----------------------------------------------------------------------------
(* What arenas promise.                                                     *)

\* The registry lists exactly the live scannable arenas, linked both ways,
\* whatever the order they are destroyed in.
RegistryExact ==
    /\ Scanned = {a \in Live : arena[a].scannable}
    /\ \A a \in Scanned :
          /\ arena[a].scan_prev = NULL <=> scan_head = a
          /\ arena[a].scan_next # NULL => arena[arena[a].scan_next].scan_prev = a

\* A chunk is in one arena or in the cache, never in two places, and what lies
\* in the cache has the size the cache deals in.
ChunksOwnedOnce ==
    /\ \A a \in Live : IsInjective(arena[a].chunks) /\ ChunksOf(a) \cap Range(chunk_cache) = {}
    /\ \A a, b \in Live : a # b => ChunksOf(a) \cap ChunksOf(b) = {}
    /\ IsInjective(chunk_cache) /\ \A c \in Range(chunk_cache) : size[c] = Default
    /\ Len(chunk_cache) <= CacheMax

\* Live objects lie inside chunks of their own arena, and no two overlap, since
\* no chunk is in two places (arena_new_chunk, ubel_arena_destroy).
ObjectsDisjoint ==
    /\ ChunksOwnedOnce
    /\ \A a \in Live : \A o \in objects[a] :
          o.chunk \in ChunksOf(a) /\ o.at + Rounded(o.n) <= size[o.chunk]
    /\ \A o, p \in ObjectsIn(Live) : o # p => Extent(o) \cap Extent(p) = {}

\* The registry is exact, and so a collection reads every word of every object in
\* a scannable arena, and no word beyond those handed out: nothing an arena holds
\* is missed, in the newest chunk and in the retired ones (the comment above
\* scan_arena_roots).
ScanExact ==
    /\ RegistryExact
    /\ WordsRead = UNION {Extent(o) : o \in ObjectsIn({a \in Live : arena[a].scannable})}

=============================================================================
