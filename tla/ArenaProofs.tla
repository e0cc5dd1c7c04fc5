----------------------------- MODULE ArenaProofs -----------------------------
(***************************************************************************)
(* Proofs about Arena for any number of arenas and chunks, any sizes and   *)
(* any order of calls: no chunk is in two places, no two objects overlap,  *)
(* the registry is the list of the scannable arenas, and a collection      *)
(* reads exactly what they hold.                                           *)
(***************************************************************************)
EXTENDS Arena, FiniteSetTheorems, SequenceTheorems, WellFoundedInduction, TLAPS

-----------------------------------------------------------------------------
(* The invariant.                                                           *)

\* The element of a list at a position, NULL before its first and past its last.
Nth(list, k) == IF k \in 1..Len(list) THEN list[k] ELSE NULL

\* The scannable arenas in the order of the registry.
Lists(list) ==
    /\ list \in Seq(Arenas)
    /\ \A j, k \in 1..Len(list) : list[j] = list[k] => j = k
    /\ \A a \in Arenas : (\E k \in 1..Len(list) : list[k] = a) <=> arena[a].live /\ arena[a].scannable
    /\ scan_head = Nth(list, 1)
    /\ \A k \in 1..Len(list) : /\ arena[list[k]].scan_next = Nth(list, k + 1)
                               /\ arena[list[k]].scan_prev = Nth(list, k - 1)

Registry == \E list : Lists(list)

\* How far the objects of a reach in chunk c.
Fill(a, c) == ScannedBelow(a, c)

\* A live arena has a chunk to allocate from, and has filled none beyond its size.
Chunked(a) ==
    /\ arena[a].chunks # <<>>
    /\ \A c \in ChunksOf(a) : Fill(a, c) <= size[c]

\* The objects of a fill its chunks from the bottom without a gap.
Packed(a) ==
    /\ \A o \in objects[a] : o.chunk \in ChunksOf(a) /\ o.at + Rounded(o.n) <= Fill(a, o.chunk)
    /\ \A c \in ChunksOf(a) : \A w \in Nat : w < Fill(a, c) =>
          \E o \in objects[a] : o.chunk = c /\ o.at <= w /\ w < o.at + Rounded(o.n)
    /\ \A o, p \in objects[a] : o # p /\ o.chunk = p.chunk =>
          o.at + Rounded(o.n) <= p.at \/ p.at + Rounded(p.n) <= o.at

Contents ==
    /\ \A a \in Live : Chunked(a) /\ Packed(a)
    /\ \A a \in Arenas \ Live : objects[a] = {}

Inv == TypeOK /\ Registry /\ ChunksOwnedOnce /\ Contents

-----------------------------------------------------------------------------
(* Structs and their links.                                                 *)

Structs == [Arenas -> Struct \cup {Freed}]

\* Two structs that differ in their links only.
Alike(r, s) ==
    /\ r.live = s.live /\ r.chunks = s.chunks /\ r.cur = s.cur
    /\ r.chunk_size = s.chunk_size /\ r.scannable = s.scannable

LEMMA LiveStructs ==
    ASSUME TypeOK, NEW a \in Arenas
    PROVE  /\ arena[a].live \in BOOLEAN
           /\ a \in Live <=> arena[a].live
           /\ a \in Live <=> arena[a] \in Struct
           /\ a \notin Live <=> arena[a] = Freed
<1>1. a \in Live <=> arena[a].live
  BY DEF Live
<1>2. CASE arena[a] \in Struct
  <2>1. arena[a].live = TRUE
    BY <1>2 DEF Struct
  <2>2. arena[a] # Freed
    BY <2>1 DEF Freed
  <2> QED  BY <1>1, <1>2, <2>1, <2>2
<1>3. CASE arena[a] = Freed
  <2>1. arena[a].live = FALSE
    BY <1>3 DEF Freed
  <2>2. \A r \in Struct : r.live = TRUE
    BY DEF Struct
  <2> QED  BY <1>1, <1>3, <2>1, <2>2
<1> QED  BY <1>2, <1>3 DEF TypeOK

LEMMA SetPrev ==
    ASSUME NEW f \in Structs, NEW b \in Arenas, f[b] \in Struct, NEW x \in Link
    PROVE  LET g == [f EXCEPT ![b].scan_prev = x]
           IN  /\ g \in Structs /\ g[b] \in Struct
               /\ \A d \in Arenas \ {b} : g[d] = f[d]
               /\ Alike(g[b], f[b]) /\ g[b].scan_next = f[b].scan_next /\ g[b].scan_prev = x
BY DEF Structs, Struct, Alike

LEMMA SetNext ==
    ASSUME NEW f \in Structs, NEW b \in Arenas, f[b] \in Struct, NEW x \in Link
    PROVE  LET g == [f EXCEPT ![b].scan_next = x]
           IN  /\ g \in Structs /\ g[b] \in Struct
               /\ \A d \in Arenas \ {b} : g[d] = f[d]
               /\ Alike(g[b], f[b]) /\ g[b].scan_prev = f[b].scan_prev /\ g[b].scan_next = x
BY DEF Structs, Struct, Alike

\* The entries of the registry, and what its ends are.
LEMMA Entries ==
    ASSUME TypeOK, NEW list, Lists(list)
    PROVE  /\ Len(list) \in Nat
           /\ \A k : Nth(list, k) \in Link
           /\ \A k \in 1..Len(list) : list[k] \in Live /\ arena[list[k]] \in Struct
           /\ scan_head \in Link
           /\ scan_head # NULL => 1 \in 1..Len(list) /\ scan_head = list[1]
           /\ scan_head = NULL => list = <<>>
<1>1. Len(list) \in Nat /\ \A k \in 1..Len(list) : list[k] \in Arenas
  BY DEF Lists
<1>2. \A k : Nth(list, k) \in Link
  BY <1>1 DEF Nth, Link
<1>3. \A k \in 1..Len(list) : list[k] \in Live /\ arena[list[k]] \in Struct
  BY <1>1, LiveStructs DEF Lists
<1>4. scan_head # NULL => 1 \in 1..Len(list) /\ scan_head = list[1]
  BY DEF Lists, Nth
<1>5. ASSUME scan_head = NULL PROVE list = <<>>
  <2>1. 1 \notin 1..Len(list)
    BY <1>1, <1>5, ArenaAssumption DEF Lists, Nth
  <2> QED  BY <1>1, <2>1 DEF Lists
<1> QED  BY <1>1, <1>2, <1>3, <1>4, <1>5 DEF Lists

-----------------------------------------------------------------------------
(* The registry.                                                            *)

\* What a list has to be to order the registry after a step.
LEMMA ListsNext ==
    ASSUME NEW list \in Seq(Arenas),
           \A j, k \in 1..Len(list) : list[j] = list[k] => j = k,
           \A b \in Arenas :
              (\E k \in 1..Len(list) : list[k] = b) <=> arena'[b].live /\ arena'[b].scannable,
           scan_head' = Nth(list, 1),
           \A k \in 1..Len(list) : /\ arena'[list[k]].scan_next = Nth(list, k + 1)
                                    /\ arena'[list[k]].scan_prev = Nth(list, k - 1)
    PROVE  Lists(list)'
<1>1. \A k : Nth(list, k)' = Nth(list, k)
  BY DEF Nth
<1> QED  BY <1>1 DEF Lists

\* A new arena that is not scannable.
LEMMA CreatePlain ==
    ASSUME TypeOK, Registry, NEW a \in Arenas, a \notin Live, NEW c \in Chunks, NEW n \in Nat,
           arena' = [arena EXCEPT ![a] = Created(c, n, FALSE)], scan_head' = scan_head
    PROVE  /\ arena' \in Structs /\ Registry'
           /\ \A b \in Arenas \ {a} : Alike(arena'[b], arena[b])
           /\ Alike(arena'[a], Created(c, n, FALSE))
<1>1. Created(c, n, FALSE) \in Struct
  BY DEF Created, Struct, Link
<1>2. arena' \in Structs
  BY <1>1 DEF TypeOK, Structs
<1>3. arena'[a] = Created(c, n, FALSE) /\ \A b \in Arenas \ {a} : arena'[b] = arena[b]
  BY DEF TypeOK
<1>4. PICK list : Lists(list)
  BY DEF Registry
<1>5. \A k \in 1..Len(list) : list[k] \in Arenas \ {a}
  BY <1>4, Entries DEF Live
<1>6. ~arena'[a].scannable /\ ~arena[a].live
  BY <1>3, LiveStructs DEF Created
<1>7. Lists(list)'
  <2>1. /\ list \in Seq(Arenas) /\ \A j, k \in 1..Len(list) : list[j] = list[k] => j = k
        /\ scan_head = Nth(list, 1)
    BY <1>4 DEF Lists
  <2>2. \A b \in Arenas : (\E k \in 1..Len(list) : list[k] = b) <=> arena'[b].live /\ arena'[b].scannable
    <3> TAKE b \in Arenas
    <3>1. CASE b = a
      BY <1>5, <1>6, <3>1
    <3>2. CASE b # a
      BY <1>3, <1>4, <3>2 DEF Lists
    <3> QED  BY <3>1, <3>2
  <2>3. \A k \in 1..Len(list) : /\ arena'[list[k]].scan_next = Nth(list, k + 1)
                                 /\ arena'[list[k]].scan_prev = Nth(list, k - 1)
    <3> TAKE k \in 1..Len(list)
    <3>1. arena[list[k]].scan_next = Nth(list, k + 1) /\ arena[list[k]].scan_prev = Nth(list, k - 1)
      BY <1>4 DEF Lists
    <3> QED  BY <3>1, <1>3, <1>5
  <2>4. scan_head' = Nth(list, 1)
    BY <2>1
  <2> QED  BY <2>1, <2>2, <2>3, <2>4, ListsNext
<1> QED  BY <1>2, <1>3, <1>7 DEF Registry, Alike

\* A new scannable arena becomes the head of the registry.
LEMMA CreateScan ==
    ASSUME TypeOK, Registry, NEW a \in Arenas, a \notin Live, NEW c \in Chunks, NEW n \in Nat,
           arena' = Register(a, [arena EXCEPT ![a] = Created(c, n, TRUE)]), scan_head' = a
    PROVE  /\ arena' \in Structs /\ Registry'
           /\ \A b \in Arenas \ {a} : Alike(arena'[b], arena[b])
           /\ Alike(arena'[a], Created(c, n, TRUE))
<1> DEFINE new == [arena EXCEPT ![a] = Created(c, n, TRUE)]
<1>1. PICK list : Lists(list)
  BY DEF Registry
<1>2. Created(c, n, TRUE) \in Struct
  BY DEF Created, Struct, Link, TypeOK
<1>3. new \in Structs /\ new[a] = Created(c, n, TRUE) /\ \A b \in Arenas \ {a} : new[b] = arena[b]
  BY <1>2 DEF TypeOK, Structs
<1>4. \A k \in 1..Len(list) : list[k] \in Arenas \ {a} /\ arena[list[k]] \in Struct
  BY <1>1, Entries DEF Live
<1>5. /\ arena' \in Structs /\ arena'[a] = Created(c, n, TRUE)
      /\ \A b \in Arenas \ {a} :
            /\ Alike(arena'[b], arena[b]) /\ arena'[b].scan_next = arena[b].scan_next
            /\ arena'[b].scan_prev = IF b = scan_head THEN a ELSE arena[b].scan_prev
  <2>1. CASE scan_head = NULL
    <3>1. arena' = new
      BY <2>1 DEF Register
    <3> HIDE DEF new
    <3> QED  BY <3>1, <1>3, <2>1, ArenaAssumption DEF Alike
  <2>2. CASE scan_head # NULL
    <3>1. arena' = [new EXCEPT ![scan_head].scan_prev = a]
      BY <2>2 DEF Register
    <3>2. scan_head \in Arenas \ {a} /\ arena[scan_head] \in Struct
      BY <1>1, <1>4, <2>2, Entries
    <3> HIDE DEF new
    <3>3. new[scan_head] = arena[scan_head] /\ a \in Link
      BY <1>3, <3>2 DEF Link
    <3>4. /\ arena' \in Structs /\ \A d \in Arenas \ {scan_head} : arena'[d] = new[d]
          /\ Alike(arena'[scan_head], new[scan_head])
          /\ arena'[scan_head].scan_next = new[scan_head].scan_next
          /\ arena'[scan_head].scan_prev = a
      <4> DEFINE g == [new EXCEPT ![scan_head].scan_prev = a]
      <4>1. new \in Structs /\ scan_head \in Arenas /\ new[scan_head] \in Struct /\ a \in Link
        BY <1>3, <3>2, <3>3
      <4>2. /\ g \in Structs /\ \A d \in Arenas \ {scan_head} : g[d] = new[d]
            /\ Alike(g[scan_head], new[scan_head])
            /\ g[scan_head].scan_next = new[scan_head].scan_next
            /\ g[scan_head].scan_prev = a
        BY <4>1, SetPrev
      <4> QED  BY <3>1, <4>2
    <3> QED  BY <1>3, <3>2, <3>3, <3>4 DEF Alike
  <2> QED  BY <2>1, <2>2
<1> HIDE DEF new
<1> DEFINE more == <<a>> \o list
           n1 == Len(list)
<1>6. n1 \in Nat /\ list \in Seq(Arenas)
  BY <1>1, Entries DEF Lists
<1>7. /\ more \in Seq(Arenas) /\ Len(more) = n1 + 1 /\ more[1] = a
      /\ \A k \in 2..(n1 + 1) : more[k] = list[k - 1]
  BY <1>6
<1>8. \A k \in 1..(n1 + 1) : k = 1 \/ (k \in 2..(n1 + 1) /\ k - 1 \in 1..n1)
  BY <1>6
<1>9. \A k \in 1..n1 : k + 1 \in 2..(n1 + 1) /\ k + 1 - 1 = k /\ k + 1 \in 1..(n1 + 1)
  BY <1>6
<1> HIDE DEF more, n1
<1>10. \A j, k \in 1..Len(more) : more[j] = more[k] => j = k
  <2> TAKE j, k \in 1..Len(more)
  <2>1. CASE j = 1
    BY <1>4, <1>7, <1>8, <2>1 DEF n1
  <2>2. CASE k = 1
    BY <1>4, <1>7, <1>8, <2>2 DEF n1
  <2>3. CASE j # 1 /\ k # 1
    <3>1. more[j] = list[j - 1] /\ more[k] = list[k - 1] /\ j - 1 \in 1..n1 /\ k - 1 \in 1..n1
      BY <1>7, <1>8, <2>3
    <3>2. more[j] = more[k] => j - 1 = k - 1
      BY <3>1, <1>1 DEF Lists, n1
    <3> QED  BY <3>2, <1>6, <1>7
  <2> QED  BY <2>1, <2>2, <2>3
<1>11. arena'[a].live /\ arena'[a].scannable /\ ~arena[a].live
  BY <1>5, LiveStructs DEF Created
<1>12. \A b \in Arenas : (\E k \in 1..Len(more) : more[k] = b) <=> arena'[b].live /\ arena'[b].scannable
  <2> TAKE b \in Arenas
  <2>1. CASE b = a
    BY <1>6, <1>7, <1>11, <2>1
  <2>2. CASE b # a
    <3>1. (\E k \in 1..Len(more) : more[k] = b) <=> (\E k \in 1..n1 : list[k] = b)
      BY <1>7, <1>8, <1>9, <2>2
    <3> QED  BY <3>1, <1>1, <1>5, <2>2 DEF Lists, Alike, n1
  <2> QED  BY <2>1, <2>2
<1>13. scan_head' = Nth(more, 1)
  BY <1>6, <1>7 DEF Nth
<1>14. ASSUME NEW k \in 1..Len(more)
       PROVE  /\ arena'[more[k]].scan_next = Nth(more, k + 1)
              /\ arena'[more[k]].scan_prev = Nth(more, k - 1)
  <2>1. CASE k = 1
    <3>1. arena'[a].scan_next = scan_head /\ arena'[a].scan_prev = NULL
      BY <1>5 DEF Created
    <3>2. Nth(more, 2) = Nth(list, 1) /\ Nth(more, 0) = NULL
      BY <1>6, <1>7 DEF Nth, n1
    <3> QED  BY <3>1, <3>2, <2>1, <1>1, <1>7 DEF Lists
  <2>2. CASE k # 1
    <3> DEFINE j == k - 1
    <3>1. j \in 1..n1 /\ k = j + 1 /\ more[k] = list[j] /\ list[j] \in Arenas \ {a}
      BY <1>4, <1>6, <1>7, <1>8, <2>2 DEF n1
    <3> HIDE DEF j
    <3>2. Nth(more, j + 1 + 1) = Nth(list, j + 1)
      BY <1>6, <1>7, <3>1 DEF Nth, n1
    <3>3. arena'[list[j]].scan_next = Nth(list, j + 1)
      BY <1>1, <1>5, <3>1 DEF Lists, n1
    <3>4. arena'[list[j]].scan_prev = Nth(more, j)
      <4>1. CASE j = 1
        <5>1. list[1] = scan_head
          BY <1>1, <3>1, <4>1 DEF Lists, Nth, n1
        <5>2. Nth(more, 1) = a
          BY <1>13
        <5> QED  BY <5>1, <5>2, <3>1, <4>1, <1>5
      <4>2. CASE j # 1
        <5>1. list[j] # scan_head
          <6>1. 1 \in 1..n1
            BY <1>6, <3>1
          <6> QED  BY <6>1, <3>1, <4>2, <1>1 DEF Lists, Nth, n1
        <5>2. Nth(more, j) = Nth(list, j - 1)
          BY <1>6, <1>7, <3>1, <4>2 DEF Nth, n1
        <5>3. arena[list[j]].scan_prev = Nth(list, j - 1)
          BY <3>1, <1>1 DEF Lists, n1
        <5> QED  BY <5>1, <5>2, <5>3, <3>1, <1>5
      <4> QED  BY <4>1, <4>2
    <3>5. k + 1 = j + 1 + 1 /\ k - 1 = j
      BY <1>6, <3>1
    <3> QED  BY <3>1, <3>2, <3>3, <3>4, <3>5
  <2> QED  BY <2>1, <2>2
<1>15. Lists(more)'
  BY <1>7, <1>10, <1>12, <1>13, <1>14, ListsNext
<1> QED  BY <1>5, <1>15 DEF Registry, Alike

\* The links of the arenas that stay, when one between prev and next goes.
LEMMA Unlinked ==
    ASSUME TypeOK, NEW a \in Arenas,
           NEW prev \in Link, prev = arena[a].scan_prev, prev # a,
           prev # NULL => arena[prev] \in Struct,
           NEW next \in Link, next = arena[a].scan_next, next # a,
           next # NULL => arena[next] \in Struct
    PROVE  /\ Unregistered(a) \in Structs
           /\ \A b \in Arenas \ {a} :
                 /\ Alike(Unregistered(a)[b], arena[b])
                 /\ Unregistered(a)[b].scan_next = IF b = prev THEN next ELSE arena[b].scan_next
                 /\ Unregistered(a)[b].scan_prev = IF b = next THEN prev ELSE arena[b].scan_prev
<1> DEFINE f == UnlinkPrev(a, arena)
<1>0. arena \in Structs
  BY DEF TypeOK, Structs
<1>1. /\ f \in Structs /\ (next # NULL => f[next] \in Struct)
      /\ \A b \in Arenas :
            /\ Alike(f[b], arena[b]) /\ f[b].scan_prev = arena[b].scan_prev
            /\ f[b].scan_next = IF b = prev THEN next ELSE arena[b].scan_next
  <2>1. CASE prev = NULL
    <3>1. f = arena
      BY <2>1 DEF UnlinkPrev
    <3> HIDE DEF f
    <3> QED  BY <1>0, <3>1, <2>1, ArenaAssumption DEF Alike
  <2>2. CASE prev # NULL
    <3> DEFINE g == [arena EXCEPT ![prev].scan_next = next]
    <3>1. f = g
      BY <2>2 DEF UnlinkPrev
    <3>2. prev \in Arenas /\ arena[prev] \in Struct
      BY <2>2 DEF Link
    <3>3. /\ g \in Structs /\ g[prev] \in Struct
          /\ \A d \in Arenas \ {prev} : g[d] = arena[d]
          /\ Alike(g[prev], arena[prev]) /\ g[prev].scan_prev = arena[prev].scan_prev
          /\ g[prev].scan_next = next
      BY <1>0, <3>2, SetNext
    <3> HIDE DEF f, g
    <3>4. next # NULL => f[next] \in Struct
      BY <3>1, <3>2, <3>3 DEF Link
    <3>5. \A b \in Arenas :
            /\ Alike(f[b], arena[b]) /\ f[b].scan_prev = arena[b].scan_prev
            /\ f[b].scan_next = IF b = prev THEN next ELSE arena[b].scan_next
      BY <3>1, <3>2, <3>3 DEF Alike
    <3> QED  BY <3>1, <3>3, <3>4, <3>5
  <2> QED  BY <2>1, <2>2
<1>2. CASE next = NULL
  <2>1. Unregistered(a) = f
    BY <1>2 DEF Unregistered, UnlinkNext
  <2> HIDE DEF f
  <2>2. \A b \in Arenas : b # next
    BY <1>2, ArenaAssumption
  <2> QED  BY <1>1, <2>1, <2>2
<1>3. CASE next # NULL
  <2> DEFINE g == [f EXCEPT ![next].scan_prev = prev]
  <2>1. Unregistered(a) = g
    BY <1>3 DEF Unregistered, UnlinkNext
  <2>2. next \in Arenas /\ f[next] \in Struct
    BY <1>1, <1>3 DEF Link
  <2> HIDE DEF f
  <2>3. /\ g \in Structs /\ \A d \in Arenas \ {next} : g[d] = f[d]
        /\ Alike(g[next], f[next]) /\ g[next].scan_next = f[next].scan_next
        /\ g[next].scan_prev = prev
    BY <1>1, <2>2, SetPrev
  <2> HIDE DEF g
  <2>4. ASSUME NEW b \in Arenas
        PROVE  /\ Alike(g[b], arena[b])
               /\ g[b].scan_next = IF b = prev THEN next ELSE arena[b].scan_next
               /\ g[b].scan_prev = IF b = next THEN prev ELSE arena[b].scan_prev
    <3>1. CASE b = next
      BY <1>1, <2>2, <2>3, <3>1 DEF Alike
    <3>2. CASE b # next
      BY <1>1, <2>3, <3>2
    <3> QED  BY <3>1, <3>2
  <2> QED  BY <2>1, <2>3, <2>4
<1> QED  BY <1>2, <1>3

\* A list without its i-th entry.
Without(list, i) == [k \in 1..(Len(list) - 1) |-> list[IF k < i THEN k ELSE k + 1]]

LEMMA WithoutNth ==
    ASSUME NEW list \in Seq(Arenas), NEW i \in 1..Len(list)
    PROVE  /\ Without(list, i) \in Seq(Arenas) /\ Len(Without(list, i)) = Len(list) - 1
           /\ \A k \in Int : Nth(Without(list, i), k) = IF k < i THEN Nth(list, k) ELSE Nth(list, k + 1)
           /\ \A k \in 1..(Len(list) - 1) :
                 /\ Without(list, i)[k] = list[IF k < i THEN k ELSE k + 1]
                 /\ (IF k < i THEN k ELSE k + 1) \in 1..Len(list)
                 /\ (IF k < i THEN k ELSE k + 1) # i
<1> DEFINE rest == Without(list, i)  n == Len(list)  m(k) == IF k < i THEN k ELSE k + 1
<1>1. n \in Nat /\ n >= 1 /\ n - 1 \in Nat /\ i \in Nat
  OBVIOUS
<1>2. \A k \in 1..(n - 1) : m(k) \in 1..n /\ m(k) # i
  BY <1>1
<1>3. rest \in Seq(Arenas) /\ Len(rest) = n - 1 /\ \A k \in 1..(n - 1) : rest[k] = list[m(k)]
  <2>1. \A k \in 1..(n - 1) : list[m(k)] \in Arenas
    BY <1>2
  <2> HIDE DEF m, n
  <2>2. rest = [k \in 1..(n - 1) |-> list[m(k)]]
    BY DEF Without, m, n
  <2> HIDE DEF rest
  <2>3. rest \in [1..(n - 1) -> Arenas]
    BY <2>1, <2>2
  <2>4. rest \in Seq(Arenas) /\ Len(rest) = n - 1
    BY <1>1, <2>3
  <2> QED  BY <2>2, <2>4
<1>4. ASSUME NEW k \in Int
      PROVE  Nth(rest, k) = IF k < i THEN Nth(list, k) ELSE Nth(list, k + 1)
  <2>1. CASE k \in 1..(n - 1)
    <3>1. Nth(rest, k) = list[m(k)] /\ m(k) \in 1..n
      BY <1>2, <1>3, <2>1 DEF Nth
    <3> QED  BY <3>1 DEF Nth
  <2>2. CASE k \notin 1..(n - 1)
    <3>1. Nth(rest, k) = NULL
      BY <1>3, <2>2 DEF Nth
    <3>2. k < i => k \notin 1..n
      BY <1>1, <2>2
    <3>3. ~(k < i) => k + 1 \notin 1..n
      BY <1>1, <2>2
    <3> QED  BY <3>1, <3>2, <3>3 DEF Nth
  <2> QED  BY <2>1, <2>2
<1> QED  BY <1>2, <1>3, <1>4

\* An arena that is freed leaves the registry linked around it.
LEMMA FreePlain ==
    ASSUME TypeOK, Registry, NEW a \in Live, ~arena[a].scannable,
           arena' = [arena EXCEPT ![a] = Freed], scan_head' = scan_head
    PROVE  /\ arena' \in Structs /\ Registry' /\ arena'[a] = Freed
           /\ \A b \in Arenas \ {a} : Alike(arena'[b], arena[b])
<1>1. a \in Arenas
  BY DEF Live
<1>2. arena' \in Structs /\ arena'[a] = Freed /\ \A b \in Arenas \ {a} : arena'[b] = arena[b]
  BY <1>1 DEF TypeOK, Structs
<1>3. PICK list : Lists(list)
  BY DEF Registry
<1>4. \A k \in 1..Len(list) : list[k] \in Arenas \ {a}
  BY <1>3 DEF Lists
<1>5. Lists(list)'
  <2>1. /\ list \in Seq(Arenas) /\ \A j, k \in 1..Len(list) : list[j] = list[k] => j = k
        /\ scan_head = Nth(list, 1)
    BY <1>3 DEF Lists
  <2>2. \A b \in Arenas : (\E k \in 1..Len(list) : list[k] = b) <=> arena'[b].live /\ arena'[b].scannable
    <3> TAKE b \in Arenas
    <3>1. CASE b = a
      BY <1>2, <1>4, <3>1 DEF Freed
    <3>2. CASE b # a
      BY <1>2, <1>3, <3>2 DEF Lists
    <3> QED  BY <3>1, <3>2
  <2>3. \A k \in 1..Len(list) : /\ arena'[list[k]].scan_next = Nth(list, k + 1)
                                 /\ arena'[list[k]].scan_prev = Nth(list, k - 1)
    <3> TAKE k \in 1..Len(list)
    <3>1. arena[list[k]].scan_next = Nth(list, k + 1) /\ arena[list[k]].scan_prev = Nth(list, k - 1)
      BY <1>3 DEF Lists
    <3> QED  BY <3>1, <1>2, <1>4
  <2>4. scan_head' = Nth(list, 1)
    BY <2>1
  <2> QED  BY <2>1, <2>2, <2>3, <2>4, ListsNext
<1> QED  BY <1>2, <1>5 DEF Registry, Alike

LEMMA FreeScan ==
    ASSUME TypeOK, Registry, NEW a \in Live, arena[a].scannable,
           arena' = [Unregistered(a) EXCEPT ![a] = Freed], scan_head' = HeadWithout(a)
    PROVE  /\ arena' \in Structs /\ Registry' /\ arena'[a] = Freed
           /\ \A b \in Arenas \ {a} : Alike(arena'[b], arena[b])
<1>1. a \in Arenas
  BY DEF Live
<1>2. PICK list : Lists(list)
  BY DEF Registry
<1>3. PICK i \in 1..Len(list) : list[i] = a
  BY <1>1, <1>2 DEF Lists, Live
<1> DEFINE n == Len(list)
           prev == Nth(list, i - 1)
           next == Nth(list, i + 1)
<1>4. n \in Nat /\ list \in Seq(Arenas) /\ i \in Int
  BY <1>2 DEF Lists
<1>5. prev = arena[a].scan_prev /\ next = arena[a].scan_next
  BY <1>2, <1>3 DEF Lists
<1>6. \A k \in 1..n : list[k] \in Arenas /\ arena[list[k]] \in Struct /\ (list[k] = a => k = i)
  BY <1>2, <1>3, Entries DEF Live, Lists
<1>7. prev # a /\ (prev # NULL => arena[prev] \in Struct) /\ prev \in Link
  BY <1>1, <1>4, <1>6, ArenaAssumption DEF Nth, Link
<1>8. next # a /\ (next # NULL => arena[next] \in Struct) /\ next \in Link
  BY <1>1, <1>4, <1>6, ArenaAssumption DEF Nth, Link
<1> HIDE DEF n, prev, next
<1>9. /\ Unregistered(a) \in Structs
      /\ \A b \in Arenas \ {a} :
            /\ Alike(Unregistered(a)[b], arena[b])
            /\ Unregistered(a)[b].scan_next = IF b = prev THEN next ELSE arena[b].scan_next
            /\ Unregistered(a)[b].scan_prev = IF b = next THEN prev ELSE arena[b].scan_prev
  BY <1>1, <1>5, <1>7, <1>8, Unlinked
<1>10. /\ arena' \in Structs /\ arena'[a] = Freed
       /\ \A b \in Arenas \ {a} : arena'[b] = Unregistered(a)[b]
  BY <1>1, <1>9 DEF Structs
<1> DEFINE rest == Without(list, i)
           m(k) == IF k < i THEN k ELSE k + 1
<1>11. /\ rest \in Seq(Arenas) /\ Len(rest) = n - 1
       /\ \A k \in Int : Nth(rest, k) = IF k < i THEN Nth(list, k) ELSE Nth(list, k + 1)
       /\ \A k \in 1..(n - 1) : rest[k] = list[m(k)] /\ m(k) \in 1..n /\ m(k) # i
  <2>1. list \in Seq(Arenas) /\ i \in 1..Len(list)
    BY <1>4 DEF n
  <2>2. /\ Without(list, i) \in Seq(Arenas) /\ Len(Without(list, i)) = Len(list) - 1
        /\ \A k \in Int : Nth(Without(list, i), k) = IF k < i THEN Nth(list, k) ELSE Nth(list, k + 1)
        /\ \A k \in 1..(Len(list) - 1) :
              /\ Without(list, i)[k] = list[IF k < i THEN k ELSE k + 1]
              /\ (IF k < i THEN k ELSE k + 1) \in 1..Len(list)
              /\ (IF k < i THEN k ELSE k + 1) # i
    BY <2>1, WithoutNth, Zenon
  <2> QED  BY <2>2, Zenon DEF n
<1> HIDE DEF rest
<1>12. \A j, k \in 1..Len(rest) : rest[j] = rest[k] => j = k
  <2> TAKE j, k \in 1..Len(rest)
  <2> DEFINE mj == m(j)  mk == m(k)
  <2>1. j \in 1..(n - 1) /\ k \in 1..(n - 1)
    BY <1>11
  <2>2. rest[j] = list[mj] /\ rest[k] = list[mk] /\ mj \in 1..n /\ mk \in 1..n
    BY <2>1, <1>11
  <2>3. mj = mk => j = k
    BY <2>1, <1>4 DEF n
  <2> HIDE DEF mj, mk
  <2>4. \A x, y \in 1..n : list[x] = list[y] => x = y
    BY <1>2 DEF Lists, n
  <2>5. rest[j] = rest[k] => mj = mk
    BY <2>2, <2>4
  <2> QED  BY <2>3, <2>5
<1>13. \A b \in Arenas : (\E k \in 1..Len(rest) : rest[k] = b) <=> arena'[b].live /\ arena'[b].scannable
  <2> TAKE b \in Arenas
  <2>1. CASE b = a
    <3>1. \A k \in 1..Len(rest) : rest[k] # a
      BY <1>6, <1>11
    <3> QED  BY <2>1, <3>1, <1>10 DEF Freed
  <2>2. CASE b # a
    <3>1. (\E k \in 1..Len(rest) : rest[k] = b) => (\E k \in 1..n : list[k] = b)
      BY <1>11
    <3>2. ASSUME NEW k \in 1..n, list[k] = b PROVE \E j \in 1..Len(rest) : rest[j] = b
      <4>1. k # i
        BY <2>2, <3>2, <1>3
      <4>2. CASE k < i
        <5>1. k \in 1..(n - 1) /\ m(k) = k
          BY <4>2, <1>3, <1>4 DEF n
        <5> QED  BY <5>1, <3>2, <1>11
      <4>3. CASE i < k
        <5>1. k - 1 \in 1..(n - 1) /\ m(k - 1) = k
          BY <4>3, <1>3, <1>4 DEF n
        <5> QED  BY <5>1, <3>2, <1>11
      <4> QED  BY <4>1, <4>2, <4>3, <1>4
    <3>3. (\E k \in 1..n : list[k] = b) <=> arena[b].live /\ arena[b].scannable
      BY <1>2 DEF Lists, n
    <3>4. arena'[b].live = arena[b].live /\ arena'[b].scannable = arena[b].scannable
      BY <2>2, <1>9, <1>10 DEF Alike
    <3> QED  BY <3>1, <3>2, <3>3, <3>4
  <2> QED  BY <2>1, <2>2
<1>14. scan_head' = Nth(rest, 1)
  <2>1. CASE i = 1
    <3>1. prev = NULL
      BY <2>1, <1>4 DEF prev, Nth
    <3>2. scan_head' = next
      BY <3>1, <1>5 DEF HeadWithout
    <3>3. Nth(rest, 1) = next
      BY <2>1, <1>11 DEF next
    <3> QED  BY <3>2, <3>3
  <2>2. CASE i # 1
    <3>1. i - 1 \in 1..n /\ 1 < i
      BY <2>2, <1>3, <1>4 DEF n
    <3>2. prev # NULL
      BY <3>1, <1>6, ArenaAssumption DEF prev, Nth, n
    <3>3. scan_head' = scan_head
      BY <3>2, <1>5 DEF HeadWithout
    <3>4. Nth(rest, 1) = Nth(list, 1)
      BY <3>1, <1>11
    <3> QED  BY <3>3, <3>4, <1>2 DEF Lists
  <2> QED  BY <2>1, <2>2
<1>15. ASSUME NEW k \in 1..Len(rest)
       PROVE  /\ arena'[rest[k]].scan_next = Nth(rest, k + 1)
              /\ arena'[rest[k]].scan_prev = Nth(rest, k - 1)
  <2> DEFINE j == m(k)
  <2>1. k \in 1..(n - 1) /\ k \in Int /\ j \in 1..n /\ j # i /\ rest[k] = list[j]
    <3>1. Len(rest) = n - 1 /\ \A l \in 1..(n - 1) : rest[l] = list[m(l)] /\ m(l) \in 1..n /\ m(l) # i
      BY <1>11
    <3>2. k \in 1..(n - 1) /\ k \in Int
      BY <1>4, <3>1
    <3> HIDE DEF m
    <3> QED  BY <3>1, <3>2
  <2>2. list[j] \in Arenas \ {a} /\ arena[list[j]].scan_next = Nth(list, j + 1)
        /\ arena[list[j]].scan_prev = Nth(list, j - 1)
    BY <2>1, <1>2, <1>6 DEF Lists, n
  <2>3. list[j] = prev <=> j = i - 1
    <3>1. i - 1 \in 1..n => (list[j] = prev <=> j = i - 1)
      BY <2>1, <1>2 DEF prev, Nth, Lists, n
    <3>2. i - 1 \notin 1..n => prev = NULL /\ j # i - 1
      BY <2>1 DEF prev, Nth, n
    <3> QED  BY <2>2, <3>1, <3>2, ArenaAssumption
  <2>4. list[j] = next <=> j = i + 1
    <3>1. i + 1 \in 1..n => (list[j] = next <=> j = i + 1)
      BY <2>1, <1>2 DEF next, Nth, Lists, n
    <3>2. i + 1 \notin 1..n => next = NULL /\ j # i + 1
      BY <2>1 DEF next, Nth, n
    <3> QED  BY <2>2, <3>1, <3>2, ArenaAssumption
  <2>5. /\ arena'[list[j]].scan_next = IF j = i - 1 THEN Nth(list, i + 1) ELSE Nth(list, j + 1)
        /\ arena'[list[j]].scan_prev = IF j = i + 1 THEN Nth(list, i - 1) ELSE Nth(list, j - 1)
    BY <2>2, <2>3, <2>4, <1>9, <1>10 DEF prev, next
  <2>6. Nth(rest, k + 1) = IF j = i - 1 THEN Nth(list, i + 1) ELSE Nth(list, j + 1)
    <3>1. Nth(rest, k + 1) = IF k + 1 < i THEN Nth(list, k + 1) ELSE Nth(list, k + 1 + 1)
      <4> DEFINE x == k + 1
      <4>1. x \in Int
        BY <2>1
      <4> HIDE DEF x
      <4>2. Nth(rest, x) = IF x < i THEN Nth(list, x) ELSE Nth(list, x + 1)
        BY <1>11, <4>1
      <4> QED  BY <4>2 DEF x
    <3>2. CASE k < i
      <4>1. j = k
        BY <3>2
      <4>2. CASE k = i - 1
        <5>1. ~(k + 1 < i) /\ k + 1 + 1 = i + 1
          BY <1>4, <4>2
        <5> QED  BY <3>1, <4>1, <4>2, <5>1
      <4>3. CASE k # i - 1
        <5>1. k + 1 < i
          BY <1>4, <2>1, <3>2, <4>3
        <5> QED  BY <3>1, <4>1, <4>3, <5>1
      <4> QED  BY <4>2, <4>3
    <3>3. CASE ~(k < i)
      <4>1. j = k + 1 /\ ~(k + 1 < i) /\ j # i - 1
        BY <1>4, <2>1, <3>3
      <4> HIDE DEF j
      <4> QED  BY <3>1, <4>1
    <3> QED  BY <3>2, <3>3
  <2>7. Nth(rest, k - 1) = IF j = i + 1 THEN Nth(list, i - 1) ELSE Nth(list, j - 1)
    <3>1. Nth(rest, k - 1) = IF k - 1 < i THEN Nth(list, k - 1) ELSE Nth(list, k - 1 + 1)
      <4> DEFINE x == k - 1
      <4>1. x \in Int
        BY <2>1
      <4> HIDE DEF x
      <4>2. Nth(rest, x) = IF x < i THEN Nth(list, x) ELSE Nth(list, x + 1)
        BY <1>11, <4>1
      <4> QED  BY <4>2 DEF x
    <3>2. CASE k < i
      <4>1. j = k /\ k - 1 < i /\ j # i + 1
        BY <1>4, <2>1, <3>2
      <4> HIDE DEF j
      <4> QED  BY <3>1, <4>1
    <3>3. CASE ~(k < i)
      <4>1. j = k + 1 /\ j - 1 = k - 1 + 1
        BY <2>1, <3>3
      <4> HIDE DEF j
      <4>2. CASE k = i
        <5>1. k - 1 < i /\ j = i + 1
          BY <1>4, <4>1, <4>2
        <5> QED  BY <3>1, <5>1, <4>2
      <4>3. CASE k # i
        <5>1. ~(k - 1 < i) /\ j # i + 1
          BY <1>4, <2>1, <3>3, <4>1, <4>3
        <5> QED  BY <3>1, <4>1, <5>1
      <4> QED  BY <4>2, <4>3
    <3> QED  BY <3>2, <3>3
  <2> HIDE DEF j
  <2> QED  BY <2>1, <2>5, <2>6, <2>7
<1>16. Lists(rest)'
  BY <1>11, <1>12, <1>13, <1>14, <1>15, ListsNext
<1> QED  BY <1>9, <1>10, <1>16 DEF Registry

-----------------------------------------------------------------------------
(* Chunks and what lies in them.                                            *)

LEMMA Rounding == \A n \in Nat : Rounded(n) \in Nat /\ Rounded(n) >= n
BY DEF Rounded

LEMMA TwoMax ==
    ASSUME NEW x \in Nat, NEW y \in Nat
    PROVE  Max({x, y}) \in Nat /\ Max({x, y}) >= x /\ Max({x, y}) >= y
<1> DEFINE P(m) == m \in {x, y} /\ \A z \in {x, y} : m >= z
<1>1. \E m : P(m)
  <2>1. CASE x >= y
    BY <2>1
  <2>2. CASE y >= x
    BY <2>2
  <2> QED  BY <2>1, <2>2
<1>2. Max({x, y}) = CHOOSE m : P(m)
  BY DEF Max
<1> HIDE DEF P
<1>3. P(Max({x, y}))
  BY <1>1, <1>2
<1> QED  BY <1>3 DEF P

LEMMA TwoMin ==
    ASSUME NEW x \in Nat, NEW y \in Nat
    PROVE  Min({x, y}) \in Nat /\ Min({x, y}) <= x /\ Min({x, y}) <= y
<1> DEFINE P(m) == m \in {x, y} /\ \A z \in {x, y} : m <= z
<1>1. \E m : P(m)
  <2>1. CASE x >= y
    BY <2>1
  <2>2. CASE y >= x
    BY <2>2
  <2> QED  BY <2>1, <2>2
<1>2. Min({x, y}) = CHOOSE m : P(m)
  BY DEF Min
<1> HIDE DEF P
<1>3. P(Min({x, y}))
  BY <1>1, <1>2
<1> QED  BY <1>3 DEF P

\* The fields of a live arena.
LEMMA LiveArena ==
    ASSUME TypeOK, Contents, NEW a \in Live
    PROVE  /\ a \in Arenas /\ arena[a] \in Struct
           /\ arena[a].chunks \in Seq(Chunks) /\ arena[a].cur \in Nat /\ arena[a].chunk_size \in Nat
           /\ Len(arena[a].chunks) \in Nat \ {0}
           /\ Newest(a) = arena[a].chunks[1] /\ Newest(a) \in ChunksOf(a)
           /\ ChunksOf(a) \subseteq Chunks
           /\ \A c \in ChunksOf(a) : Fill(a, c) \in Nat
<1>1. a \in Arenas /\ arena[a] \in Struct
  BY LiveStructs DEF Live
<1>2. arena[a].chunks \in Seq(Chunks) /\ arena[a].cur \in Nat /\ arena[a].chunk_size \in Nat
  BY <1>1 DEF Struct
<1> DEFINE s == arena[a].chunks
<1>3. s \in Seq(Chunks) /\ s # <<>>
  BY <1>2 DEF Contents, Chunked
<1>4. ChunksOf(a) = {s[k] : k \in DOMAIN s} /\ Newest(a) = Head(s)
  BY DEF ChunksOf, Newest, Range
<1> HIDE DEF s
<1>5. Len(s) \in Nat \ {0} /\ Head(s) = s[1] /\ DOMAIN s = 1..Len(s) /\ \A k \in 1..Len(s) : s[k] \in Chunks
  BY <1>3
<1>6. 1 \in 1..Len(s)
  BY <1>5
<1>7. Newest(a) = s[1] /\ Newest(a) \in ChunksOf(a) /\ ChunksOf(a) \subseteq Chunks
  BY <1>4, <1>5, <1>6
<1>8. \A c \in ChunksOf(a) : Fill(a, c) \in Nat
  BY <1>2, <1>7 DEF Fill, ScannedBelow, TypeOK
<1> QED  BY <1>1, <1>2, <1>5, <1>7, <1>8 DEF s

\* An arena no step touches keeps what it has.
LEMMA Untouched ==
    ASSUME TypeOK, Contents, NEW b \in Live, Alike(arena'[b], arena[b]),
           \A c \in ChunksOf(b) : size'[c] = size[c] /\ used'[c] = used[c],
           objects'[b] = objects[b]
    PROVE  ChunksOf(b)' = ChunksOf(b) /\ Chunked(b)' /\ Packed(b)'
<1>1. ChunksOf(b)' = ChunksOf(b) /\ Newest(b)' = Newest(b)
  BY DEF ChunksOf, Newest, Alike
<1>2. \A c \in ChunksOf(b) : Fill(b, c)' = Fill(b, c)
  BY <1>1 DEF Fill, ScannedBelow, Alike
<1>3. Chunked(b) /\ Packed(b)
  BY DEF Contents
<1>4. Chunked(b)'
  BY <1>1, <1>2, <1>3 DEF Chunked, Alike
<1>5. Packed(b)'
  BY <1>1, <1>2, <1>3 DEF Packed
<1> QED  BY <1>1, <1>4, <1>5

\* arena_install_chunk yields a chunk that is nowhere else.
LEMMA Installed ==
    ASSUME TypeOK, ChunksOwnedOnce, NEW c \in Chunks, NEW payload \in Nat, Install(c, payload)
    PROVE  /\ \A b \in Live : c \notin ChunksOf(b)
           /\ chunk_cache' \in Seq(Chunks) /\ Len(chunk_cache') <= CacheMax
           /\ Range(chunk_cache') \subseteq Range(chunk_cache) /\ c \notin Range(chunk_cache')
           /\ IsInjective(chunk_cache')
           /\ size' \in [Chunks -> Nat] /\ size'[c] = payload
           /\ \A d \in Chunks \ {c} : size'[d] = size[d]
<1>1. /\ chunk_cache \in Seq(Chunks) /\ Len(chunk_cache) <= CacheMax /\ CacheMax \in Nat
      /\ IsInjective(chunk_cache) /\ size \in [Chunks -> Nat]
      /\ \A d \in Range(chunk_cache) : size[d] = Default
      /\ \A b \in Live : ChunksOf(b) \cap Range(chunk_cache) = {}
  BY ArenaAssumption DEF TypeOK, ChunksOwnedOnce
<1>2. CASE FromCache(c, payload)
  <2> DEFINE s == chunk_cache  t == Tail(s)
  <2>1. payload = Default /\ s # <<>> /\ c = Head(s) /\ chunk_cache' = t /\ size' = size
    BY <1>2 DEF FromCache
  <2>2. /\ t \in Seq(Chunks) /\ Len(t) = Len(s) - 1 /\ \A k \in 1..Len(t) : t[k] = s[k + 1]
        /\ c = s[1] /\ Len(s) \in Nat /\ Len(s) >= 1
    BY <1>1, <2>1
  <2>3. DOMAIN s = 1..Len(s) /\ DOMAIN t = 1..Len(t)
    BY <1>1, <2>2
  <2> HIDE DEF s, t
  <2>4. \A k \in 1..Len(t) : k + 1 \in 1..Len(s) /\ k + 1 # 1
    BY <2>2
  <2>5. 1 \in 1..Len(s)
    BY <2>2
  <2>6. \A j, k \in 1..Len(s) : s[j] = s[k] => j = k
    BY <1>1, <2>3 DEF IsInjective, s
  <2>7. Range(t) \subseteq Range(s) /\ c \notin Range(t) /\ c \in Range(s)
    <3>1. /\ \A x : x \in Range(s) <=> \E k \in 1..Len(s) : x = s[k]
          /\ \A x : x \in Range(t) <=> \E k \in 1..Len(t) : x = t[k]
      BY <2>3 DEF Range
    <3>2. \A k \in 1..Len(t) : t[k] # c
      BY <2>2, <2>4, <2>5, <2>6
    <3>3. c \in Range(s) /\ c \notin Range(t)
      BY <2>2, <2>5, <3>1, <3>2
    <3>4. Range(t) \subseteq Range(s)
      BY <2>2, <2>4, <3>1
    <3> QED  BY <3>3, <3>4
  <2>8. IsInjective(t)
    <3> SUFFICES ASSUME NEW j \in 1..Len(t), NEW k \in 1..Len(t), t[j] = t[k] PROVE j = k
      BY <2>3 DEF IsInjective
    <3>1. j + 1 = k + 1
      BY <2>2, <2>4, <2>6
    <3> QED  BY <3>1, <2>2
  <2>9. Len(t) <= CacheMax
    BY <1>1, <2>2 DEF s
  <2> QED  BY <1>1, <2>1, <2>2, <2>7, <2>8, <2>9 DEF s
<1>3. CASE FromMalloc(c, payload)
  <2>1. c \in Unowned /\ size' = [size EXCEPT ![c] = payload] /\ chunk_cache' = chunk_cache
    BY <1>3 DEF FromMalloc
  <2>2. c \notin Range(chunk_cache) /\ \A b \in Live : c \notin ChunksOf(b)
    BY <2>1 DEF Unowned
  <2> QED  BY <1>1, <2>1, <2>2
<1> QED  BY <1>2, <1>3 DEF Install

\* Every arena but a keeps its chunks, a gets those of mine, and the cache takes
\* none that some arena has.
LEMMA OwnedOnce ==
    ASSUME TypeOK, ChunksOwnedOnce, NEW a \in Arenas, NEW mine,
           \A b \in Live' : b # a => b \in Live /\ arena'[b].chunks = arena[b].chunks,
           a \in Live' => /\ arena'[a].chunks = mine /\ IsInjective(mine)
                          /\ Range(mine) \cap Range(chunk_cache') = {}
                          /\ \A b \in Live \ {a} : Range(mine) \cap ChunksOf(b) = {},
           \A b \in Live \ {a} : ChunksOf(b) \cap Range(chunk_cache') = {},
           IsInjective(chunk_cache'), Len(chunk_cache') <= CacheMax,
           \A c \in Range(chunk_cache') : size'[c] = Default
    PROVE  ChunksOwnedOnce'
<1>1. \A b \in Live' : b # a => b \in Live \ {a} /\ ChunksOf(b)' = ChunksOf(b) /\ arena'[b].chunks = arena[b].chunks
  BY DEF ChunksOf
<1>2. a \in Live' => ChunksOf(a)' = Range(mine)
  BY DEF ChunksOf
<1>3. \A b \in Live' : IsInjective(arena'[b].chunks) /\ ChunksOf(b)' \cap Range(chunk_cache') = {}
  BY <1>1, <1>2 DEF ChunksOwnedOnce
<1>4. \A b, d \in Live' : b # d => ChunksOf(b)' \cap ChunksOf(d)' = {}
  BY <1>1, <1>2 DEF ChunksOwnedOnce
<1> QED  BY <1>3, <1>4 DEF ChunksOwnedOnce

-----------------------------------------------------------------------------
(* Each step keeps the invariant.                                           *)

LEMMA CreateKeeps ==
    ASSUME Inv, NEW a \in Arenas, NEW asked \in Sizes, NEW scan \in BOOLEAN, Create(a, asked, scan)
    PROVE  Inv'
<1> DEFINE n == IF asked = 0 THEN Default ELSE asked
<1>1. n \in Nat
  BY ArenaAssumption
<1>2. a \notin Live /\ used' = used /\ objects' = objects
  BY DEF Create
<1>3. PICK c \in Chunks :
         /\ Install(c, n)
         /\ arena' = IF scan THEN Register(a, [arena EXCEPT ![a] = Created(c, n, scan)])
                     ELSE [arena EXCEPT ![a] = Created(c, n, scan)]
  BY DEF Create
<1> HIDE DEF n
<1>4. /\ arena' \in Structs /\ Registry'
      /\ \A b \in Arenas \ {a} : Alike(arena'[b], arena[b])
      /\ Alike(arena'[a], Created(c, n, scan))
  <2>1. CASE scan = TRUE
    <3>1. arena' = Register(a, [arena EXCEPT ![a] = Created(c, n, TRUE)]) /\ scan_head' = a
      BY <1>3, <2>1 DEF Create
    <3> QED  BY <3>1, <1>1, <1>2, <2>1, CreateScan DEF Inv
  <2>2. CASE scan = FALSE
    <3>1. arena' = [arena EXCEPT ![a] = Created(c, n, FALSE)] /\ scan_head' = scan_head
      BY <1>3, <2>2 DEF Create
    <3> QED  BY <3>1, <1>1, <1>2, <2>2, CreatePlain DEF Inv
  <2> QED  BY <2>1, <2>2
<1>5. Live' = Live \cup {a}
  BY <1>4 DEF Live, Alike, Created
<1>6. /\ \A b \in Live : c \notin ChunksOf(b)
      /\ chunk_cache' \in Seq(Chunks) /\ Len(chunk_cache') <= CacheMax
      /\ Range(chunk_cache') \subseteq Range(chunk_cache) /\ c \notin Range(chunk_cache')
      /\ IsInjective(chunk_cache')
      /\ size' \in [Chunks -> Nat] /\ size'[c] = n
      /\ \A d \in Chunks \ {c} : size'[d] = size[d]
  BY <1>1, <1>3, Installed DEF Inv
<1> DEFINE mine == <<c>>
<1>7. arena'[a].chunks = mine /\ arena'[a].cur = 0
  BY <1>4 DEF Alike, Created
<1>8. Range(mine) = {c} /\ IsInjective(mine) /\ Head(mine) = c /\ mine # <<>>
  <2>1. DOMAIN mine = 1..1 /\ mine[1] = c
    OBVIOUS
  <2>2. \A k : k \in 1..1 <=> k = 1
    OBVIOUS
  <2> QED  BY <2>1, <2>2 DEF Range, IsInjective
<1> HIDE DEF mine
<1>9. ChunksOwnedOnce'
  <2>1. \A b \in Live' : b # a => b \in Live /\ arena'[b].chunks = arena[b].chunks
    BY <1>4, <1>5 DEF Alike, Live
  <2>2. \A b \in Live : ChunksOf(b) \cap Range(chunk_cache') = {}
    BY <1>6 DEF Inv, ChunksOwnedOnce
  <2>3. \A d \in Range(chunk_cache') : size'[d] = Default
    <3>1. Range(chunk_cache) \subseteq Chunks
      BY DEF Inv, TypeOK, Range
    <3> QED  BY <3>1, <1>6 DEF Inv, ChunksOwnedOnce
  <2> QED  BY <2>1, <2>2, <2>3, <1>6, <1>7, <1>8, OwnedOnce DEF Inv
<1>10. Contents'
  <2>1. ASSUME NEW b \in Live PROVE Chunked(b)' /\ Packed(b)'
    <3>1. Alike(arena'[b], arena[b])
      BY <1>2, <1>4 DEF Live
    <3>2. \A d \in ChunksOf(b) : size'[d] = size[d] /\ used'[d] = used[d]
      BY <1>2, <1>6, LiveArena DEF Inv
    <3> QED  BY <3>1, <3>2, <1>2, Untouched DEF Inv
  <2>2. Chunked(a)' /\ Packed(a)'
    <3>1. ChunksOf(a)' = {c} /\ Newest(a)' = c
      BY <1>7, <1>8 DEF ChunksOf, Newest
    <3>2. Fill(a, c)' = 0 /\ size'[c] \in Nat
      BY <1>1, <1>6, <1>7, <3>1 DEF Fill, ScannedBelow
    <3>3. objects'[a] = {}
      BY <1>2 DEF Inv, Contents
    <3>4. Chunked(a)'
      BY <1>7, <1>8, <3>1, <3>2 DEF Chunked
    <3>5. Packed(a)'
      BY <3>1, <3>2, <3>3 DEF Packed
    <3> QED  BY <3>4, <3>5
  <2>3. \A b \in Arenas \ Live' : objects'[b] = {}
    BY <1>2, <1>5 DEF Inv, Contents
  <2> QED  BY <2>1, <2>2, <2>3, <1>5 DEF Contents
<1>11. TypeOK'
  <2>1. scan_head' \in Link
    BY DEF Create, Inv, TypeOK, Link
  <2> QED  BY <2>1, <1>2, <1>4, <1>6 DEF Inv, TypeOK, Structs
<1> QED  BY <1>4, <1>9, <1>10, <1>11 DEF Inv

\* A step that changes what a has chunks for and leaves the links alone.
LEMMA LinksKept ==
    ASSUME TypeOK, Registry, NEW a \in Live, NEW chunks \in Seq(Chunks), NEW cur \in Nat,
           arena' = [arena EXCEPT ![a].chunks = chunks, ![a].cur = cur], scan_head' = scan_head
    PROVE  /\ arena' \in Structs /\ Registry' /\ Live' = Live
           /\ arena'[a].chunks = chunks /\ arena'[a].cur = cur
           /\ \A b \in Arenas \ {a} : arena'[b] = arena[b]
<1>1. a \in Arenas /\ arena[a] \in Struct /\ arena[a].live
  BY LiveStructs DEF Live
<1>2. /\ arena' \in Structs /\ arena'[a].chunks = chunks /\ arena'[a].cur = cur
      /\ arena'[a].live = arena[a].live /\ arena'[a].scannable = arena[a].scannable
      /\ arena'[a].scan_next = arena[a].scan_next /\ arena'[a].scan_prev = arena[a].scan_prev
      /\ \A b \in Arenas \ {a} : arena'[b] = arena[b]
  BY <1>1 DEF TypeOK, Struct, Structs
<1>3. Live' = Live
  BY <1>1, <1>2 DEF Live
<1>4. PICK list : Lists(list)
  BY DEF Registry
<1>5. \A k \in 1..Len(list) : list[k] \in Arenas
  BY <1>4 DEF Lists
<1>6. \A b \in Arenas : /\ arena'[b].live = arena[b].live /\ arena'[b].scannable = arena[b].scannable
                        /\ arena'[b].scan_next = arena[b].scan_next
                        /\ arena'[b].scan_prev = arena[b].scan_prev
  BY <1>2
<1>7. Lists(list)'
  <2>1. /\ list \in Seq(Arenas) /\ \A j, k \in 1..Len(list) : list[j] = list[k] => j = k
        /\ scan_head' = Nth(list, 1)
    BY <1>4 DEF Lists
  <2>2. \A b \in Arenas : (\E k \in 1..Len(list) : list[k] = b) <=> arena'[b].live /\ arena'[b].scannable
    <3> TAKE b \in Arenas
    <3>1. (\E k \in 1..Len(list) : list[k] = b) <=> arena[b].live /\ arena[b].scannable
      BY <1>4 DEF Lists
    <3> QED  BY <3>1, <1>6
  <2>3. \A k \in 1..Len(list) : /\ arena'[list[k]].scan_next = Nth(list, k + 1)
                                 /\ arena'[list[k]].scan_prev = Nth(list, k - 1)
    <3> TAKE k \in 1..Len(list)
    <3>1. arena[list[k]].scan_next = Nth(list, k + 1) /\ arena[list[k]].scan_prev = Nth(list, k - 1)
      BY <1>4 DEF Lists
    <3> QED  BY <3>1, <1>5, <1>6
  <2> QED  BY <2>1, <2>2, <2>3, ListsNext
<1> QED  BY <1>2, <1>3, <1>7 DEF Registry

\* An object put on top of what a has in chunk c.
LEMMA Added ==
    ASSUME TypeOK, Contents, NEW a \in Live, NEW c \in Chunks, NEW n \in Requests, NEW at \in Nat,
           at = IF c \in ChunksOf(a) THEN Fill(a, c) ELSE 0,
           ChunksOf(a)' = ChunksOf(a) \cup {c}, Fill(a, c)' = at + Rounded(n),
           \A d \in ChunksOf(a) \ {c} : Fill(a, d)' = Fill(a, d),
           objects'[a] = objects[a] \cup {[chunk |-> c, at |-> at, n |-> n]}
    PROVE  Packed(a)'
<1> DEFINE new == [chunk |-> c, at |-> at, n |-> n]
           top == at + Rounded(n)
<1>1. n \in Nat /\ Rounded(n) \in Nat /\ top \in Nat
  BY ArenaAssumption, Rounding
<1>2. new.chunk = c /\ new.at = at /\ new.n = n
  OBVIOUS
<1>3. \A o \in objects[a] : o.at \in Nat /\ o.n \in Nat /\ Rounded(o.n) \in Nat
  <2>1. objects[a] \subseteq Object
    BY DEF TypeOK, Live
  <2>2. \A o \in Object : o.at \in Nat /\ o.n \in Requests
    BY DEF Object
  <2>3. Requests \subseteq Nat
    BY ArenaAssumption
  <2> QED  BY <2>1, <2>2, <2>3, Rounding
<1>4. /\ \A o \in objects[a] : o.chunk \in ChunksOf(a) /\ o.at + Rounded(o.n) <= Fill(a, o.chunk)
      /\ \A d \in ChunksOf(a) : \A w \in Nat : w < Fill(a, d) =>
            \E o \in objects[a] : o.chunk = d /\ o.at <= w /\ w < o.at + Rounded(o.n)
      /\ \A o, p \in objects[a] : o # p /\ o.chunk = p.chunk =>
            o.at + Rounded(o.n) <= p.at \/ p.at + Rounded(p.n) <= o.at
  BY DEF Contents, Packed
<1>5. \A d \in ChunksOf(a) : Fill(a, d) \in Nat
  BY LiveArena
<1> HIDE DEF new
<1>6. \A o \in objects[a] : o.chunk = c => o.at + Rounded(o.n) <= at
  BY <1>4
<1>7. ASSUME NEW o \in objects'[a]
      PROVE  o.chunk \in ChunksOf(a)' /\ o.at + Rounded(o.n) <= Fill(a, o.chunk)'
  <2>1. CASE o = new
    BY <1>1, <1>2, <2>1
  <2>2. CASE o \in objects[a]
    <3>1. CASE o.chunk = c
      BY <1>1, <1>3, <1>4, <1>6, <2>2, <3>1
    <3>2. CASE o.chunk # c
      BY <1>4, <2>2, <3>2
    <3> QED  BY <3>1, <3>2
  <2> QED  BY <2>1, <2>2 DEF new
<1>8. ASSUME NEW d \in ChunksOf(a)', NEW w \in Nat, w < Fill(a, d)'
      PROVE  \E o \in objects'[a] : o.chunk = d /\ o.at <= w /\ w < o.at + Rounded(o.n)
  <2>1. CASE d = c /\ at <= w
    <3>1. new \in objects'[a]
      BY DEF new
    <3> QED  BY <3>1, <1>2, <1>8, <2>1
  <2>2. CASE d = c /\ w < at
    <3>1. c \in ChunksOf(a) /\ w < Fill(a, c)
      BY <2>2
    <3>2. PICK o \in objects[a] : o.chunk = c /\ o.at <= w /\ w < o.at + Rounded(o.n)
      BY <1>4, <3>1
    <3>3. o \in objects'[a]
      OBVIOUS
    <3> QED  BY <2>2, <3>2, <3>3
  <2>3. CASE d # c
    <3>1. d \in ChunksOf(a) /\ w < Fill(a, d)
      BY <1>8, <2>3
    <3>2. PICK o \in objects[a] : o.chunk = d /\ o.at <= w /\ w < o.at + Rounded(o.n)
      BY <1>4, <3>1
    <3>3. o \in objects'[a]
      OBVIOUS
    <3> QED  BY <3>2, <3>3
  <2> QED  BY <2>1, <2>2, <2>3
<1>9. ASSUME NEW o \in objects'[a], NEW p \in objects'[a], o # p, o.chunk = p.chunk
      PROVE  o.at + Rounded(o.n) <= p.at \/ p.at + Rounded(p.n) <= o.at
  <2>1. CASE o = new
    <3>1. p \in objects[a] /\ p.chunk = c
      BY <1>2, <1>9, <2>1 DEF new
    <3> QED  BY <3>1, <1>2, <1>6, <2>1
  <2>2. CASE p = new
    <3>1. o \in objects[a] /\ o.chunk = c
      BY <1>2, <1>9, <2>2 DEF new
    <3> QED  BY <3>1, <1>2, <1>6, <2>2
  <2>3. CASE o # new /\ p # new
    BY <1>4, <1>9, <2>3 DEF new
  <2> QED  BY <2>1, <2>2, <2>3
<1> QED  BY <1>7, <1>8, <1>9 DEF Packed

LEMMA AllocTyped ==
    ASSUME TypeOK, NEW a \in Arenas, NEW c \in Chunks, NEW at \in Nat, NEW n \in Requests,
           NewObject(a, c, at, n)
    PROVE  /\ objects' \in [Arenas -> SUBSET Object]
           /\ objects'[a] = objects[a] \cup {[chunk |-> c, at |-> at, n |-> n]}
           /\ \A b \in Arenas \ {a} : objects'[b] = objects[b]
BY DEF TypeOK, NewObject, Object

LEMMA BumpKeeps ==
    ASSUME Inv, NEW a \in Live, NEW n \in Requests, Bump(a, n)
    PROVE  Inv'
<1>0. PICK c \in Chunks, cur \in Nat : c = Newest(a) /\ cur = arena[a].cur
  <2>1. Newest(a) \in Chunks /\ arena[a].cur \in Nat
    BY LiveArena DEF Inv
  <2> QED  BY <2>1
<1> DEFINE top == cur + Rounded(n)
<1>1. /\ a \in Arenas /\ arena[a] \in Struct /\ arena[a].chunks \in Seq(Chunks) /\ cur \in Nat
      /\ c \in ChunksOf(a)
  BY <1>0, LiveArena DEF Inv
<1>2. top \in Nat /\ top <= size[c]
  <2>1. n \in Nat
    BY ArenaAssumption
  <2> QED  BY <1>0, <2>1, Rounding DEF Bump, Fits
<1>3. UNCHANGED <<size, used, chunk_cache, scan_head>> /\ NewObject(a, c, cur, n)
  BY <1>0 DEF Bump
<1> DEFINE chunks == arena[a].chunks
<1>4. arena' = [arena EXCEPT ![a].chunks = chunks, ![a].cur = top]
  <2>1. arena' = [arena EXCEPT ![a].cur = top]
    BY <1>0 DEF Bump
  <2>2. [arena[a] EXCEPT !.cur = top] = [arena[a] EXCEPT !.chunks = chunks, !.cur = top]
    BY <1>1 DEF Struct
  <2> QED  BY <2>1, <2>2
<1> HIDE DEF chunks, top
<1>5. /\ arena' \in Structs /\ Registry' /\ Live' = Live
      /\ arena'[a].chunks = chunks /\ arena'[a].cur = top
      /\ \A b \in Arenas \ {a} : arena'[b] = arena[b]
  BY <1>1, <1>2, <1>3, <1>4, LinksKept DEF Inv, chunks
<1>6. /\ objects' \in [Arenas -> SUBSET Object]
      /\ objects'[a] = objects[a] \cup {[chunk |-> c, at |-> cur, n |-> n]}
      /\ \A b \in Arenas \ {a} : objects'[b] = objects[b]
  BY <1>1, <1>3, AllocTyped DEF Inv
<1>7. ChunksOf(a)' = ChunksOf(a) /\ Newest(a)' = c
  BY <1>0, <1>5 DEF ChunksOf, Newest, chunks
<1>8. /\ Fill(a, c) = cur /\ Fill(a, c)' = top
      /\ \A d \in ChunksOf(a) \ {c} : Fill(a, d)' = Fill(a, d)
  BY <1>0, <1>3, <1>5, <1>7 DEF Fill, ScannedBelow
<1>9. Packed(a)'
  <2>1. ChunksOf(a)' = ChunksOf(a) \cup {c} /\ cur = IF c \in ChunksOf(a) THEN Fill(a, c) ELSE 0
    BY <1>1, <1>7, <1>8
  <2>2. Fill(a, c)' = cur + Rounded(n)
    BY <1>8 DEF top
  <2> QED  BY <1>1, <1>6, <1>8, <2>1, <2>2, Added DEF Inv
<1>10. Chunked(a)'
  <2>1. chunks # <<>> /\ \A d \in ChunksOf(a) : Fill(a, d) <= size[d]
    BY DEF Inv, Contents, Chunked, chunks
  <2> QED  BY <2>1, <1>2, <1>3, <1>5, <1>7, <1>8 DEF Chunked
<1>11. ASSUME NEW b \in Live, b # a PROVE Chunked(b)' /\ Packed(b)'
  <2>1. Alike(arena'[b], arena[b]) /\ objects'[b] = objects[b]
    BY <1>5, <1>6, <1>11 DEF Live, Alike
  <2> QED  BY <2>1, <1>3, Untouched DEF Inv
<1>12. Contents'
  <2>1. \A b \in Arenas \ Live' : objects'[b] = {}
    BY <1>5, <1>6 DEF Inv, Contents
  <2> QED  BY <2>1, <1>5, <1>9, <1>10, <1>11 DEF Contents
<1>13. ChunksOwnedOnce'
  <2>1. \A b \in Live : arena'[b].chunks = arena[b].chunks
    BY <1>5 DEF Live, chunks
  <2>2. \A b \in Live : ChunksOf(b)' = ChunksOf(b)
    BY <2>1 DEF ChunksOf
  <2> QED  BY <2>1, <2>2, <1>3, <1>5 DEF Inv, ChunksOwnedOnce
<1>14. TypeOK'
  BY <1>3, <1>5, <1>6 DEF Inv, TypeOK, Structs
<1> QED  BY <1>5, <1>12, <1>13, <1>14 DEF Inv

LEMMA GrowKeeps ==
    ASSUME Inv, NEW a \in Live, NEW n \in Requests, ubel_arena_grow(a, n)
    PROVE  Inv'
<1> DEFINE old == Newest(a)  cur == arena[a].cur  top == Rounded(n)  payload == Payload(a, n)
           chunks == arena[a].chunks
<1>1. /\ a \in Arenas /\ chunks \in Seq(Chunks) /\ cur \in Nat
      /\ old \in ChunksOf(a) /\ old \in Chunks /\ ChunksOf(a) \subseteq Chunks
  BY LiveArena DEF Inv
<1>2. top \in Nat /\ payload \in Nat /\ top <= payload
  <2>1. top \in Nat
    BY ArenaAssumption, Rounding
  <2>2. arena[a].chunk_size \in Nat
    BY LiveArena DEF Inv
  <2> QED  BY <2>1, <2>2, TwoMax DEF Payload
<1>3. PICK c \in Chunks :
         /\ Install(c, payload)
         /\ arena' = [arena EXCEPT ![a].chunks = <<c>> \o chunks, ![a].cur = top]
         /\ NewObject(a, c, 0, n)
  BY DEF ubel_arena_grow
<1>4. scan_head' = scan_head /\ used' = [used EXCEPT ![old] = cur]
  BY DEF ubel_arena_grow, Retire
<1> HIDE DEF payload
<1>5. /\ \A b \in Live : c \notin ChunksOf(b)
      /\ chunk_cache' \in Seq(Chunks) /\ Len(chunk_cache') <= CacheMax
      /\ Range(chunk_cache') \subseteq Range(chunk_cache) /\ c \notin Range(chunk_cache')
      /\ IsInjective(chunk_cache')
      /\ size' \in [Chunks -> Nat] /\ size'[c] = payload
      /\ \A d \in Chunks \ {c} : size'[d] = size[d]
  BY <1>2, <1>3, Installed DEF Inv
<1>6. used' \in [Chunks -> Nat] /\ used'[old] = cur /\ \A d \in Chunks \ {old} : used'[d] = used[d]
  BY <1>1, <1>4 DEF Inv, TypeOK
<1> DEFINE mine == <<c>> \o chunks  k0 == Len(chunks)
<1>7. /\ mine \in Seq(Chunks) /\ Len(mine) = k0 + 1 /\ mine[1] = c /\ k0 \in Nat
      /\ \A k \in 1..k0 : mine[k + 1] = chunks[k]
  BY <1>1
<1>8. DOMAIN mine = 1..(k0 + 1) /\ DOMAIN chunks = 1..k0
  BY <1>1, <1>7
<1>9. ChunksOf(a) = Range(chunks) /\ \A j, k \in 1..k0 : chunks[j] = chunks[k] => j = k
  BY <1>8 DEF ChunksOf, Inv, ChunksOwnedOnce, IsInjective
<1> HIDE DEF mine, chunks, k0, top
<1>10. \A k \in 1..(k0 + 1) : k = 1 \/ (k - 1 \in 1..k0 /\ mine[k] = chunks[k - 1])
  <2> TAKE k \in 1..(k0 + 1)
  <2>1. k # 1 => k - 1 \in 1..k0 /\ (k - 1) + 1 = k
    BY <1>7
  <2> QED  BY <1>7, <2>1
<1>11. mine # <<>> /\ Head(mine) = c
  <2>1. Len(mine) # 0
    BY <1>7
  <2> QED  BY <1>7, <2>1
<1>12. Range(mine) = ChunksOf(a) \cup {c}
  <2>1. \A x : x \in Range(mine) <=> \E k \in 1..(k0 + 1) : x = mine[k]
    BY <1>8 DEF Range
  <2>2. \A x : x \in Range(chunks) <=> \E k \in 1..k0 : x = chunks[k]
    BY <1>8 DEF Range
  <2>3. \A k \in 1..k0 : k + 1 \in 1..(k0 + 1)
    BY <1>7
  <2>4. 1 \in 1..(k0 + 1)
    BY <1>7
  <2>5. ASSUME NEW x PROVE x \in Range(mine) <=> x \in Range(chunks) \/ x = c
    <3>1. ASSUME x \in Range(mine) PROVE x \in Range(chunks) \/ x = c
      <4>1. PICK k \in 1..(k0 + 1) : x = mine[k]
        BY <3>1, <2>1
      <4> QED  BY <4>1, <1>7, <1>10, <2>2
    <3>2. ASSUME x \in Range(chunks) PROVE x \in Range(mine)
      <4>1. PICK k \in 1..k0 : x = chunks[k]
        BY <3>2, <2>2
      <4> QED  BY <4>1, <1>7, <2>1, <2>3
    <3>3. c \in Range(mine)
      BY <1>7, <2>1, <2>4
    <3> QED  BY <3>1, <3>2, <3>3
  <2> QED  BY <2>5, <1>9
<1>13. IsInjective(mine)
  <2> SUFFICES ASSUME NEW j \in 1..(k0 + 1), NEW k \in 1..(k0 + 1), mine[j] = mine[k] PROVE j = k
    BY <1>8 DEF IsInjective
  <2>1. \A i \in 1..k0 : chunks[i] # c
    BY <1>5, <1>8, <1>9 DEF Range
  <2>2. CASE j = 1
    BY <1>7, <1>10, <2>1, <2>2
  <2>3. CASE k = 1
    BY <1>7, <1>10, <2>1, <2>3
  <2>4. CASE j # 1 /\ k # 1
    <3>1. j - 1 = k - 1
      BY <1>9, <1>10, <2>4
    <3> QED  BY <3>1, <1>7
  <2> QED  BY <2>2, <2>3, <2>4
<1>14. /\ arena' \in Structs /\ Registry' /\ Live' = Live
       /\ arena'[a].chunks = mine /\ arena'[a].cur = top
       /\ \A b \in Arenas \ {a} : arena'[b] = arena[b]
  <2>1. arena' = [arena EXCEPT ![a].chunks = mine, ![a].cur = top] /\ top \in Nat
    BY <1>2, <1>3 DEF mine, top
  <2> QED  BY <2>1, <1>4, <1>7, LinksKept DEF Inv
<1>15. /\ objects' \in [Arenas -> SUBSET Object]
       /\ objects'[a] = objects[a] \cup {[chunk |-> c, at |-> 0, n |-> n]}
       /\ \A b \in Arenas \ {a} : objects'[b] = objects[b]
  BY <1>1, <1>3, AllocTyped DEF Inv
<1>16. ChunksOf(a)' = ChunksOf(a) \cup {c} /\ Newest(a)' = c /\ c \notin ChunksOf(a)
  BY <1>5, <1>11, <1>12, <1>14 DEF ChunksOf, Newest
<1>17. /\ Fill(a, c)' = 0 + Rounded(n)
       /\ \A d \in ChunksOf(a) \ {c} : Fill(a, d)' = Fill(a, d)
  <2>1. Fill(a, c)' = top /\ top = 0 + Rounded(n)
    BY <1>2, <1>14, <1>16 DEF Fill, ScannedBelow, top
  <2>2. ASSUME NEW d \in ChunksOf(a), d # c PROVE Fill(a, d)' = Fill(a, d)
    <3>1. Fill(a, d)' = used'[d]
      BY <1>16, <2>2 DEF Fill, ScannedBelow
    <3>2. CASE d = old
      BY <3>1, <3>2, <1>6 DEF Fill, ScannedBelow
    <3>3. CASE d # old
      BY <3>1, <3>3, <1>1, <1>6 DEF Fill, ScannedBelow
    <3> QED  BY <3>2, <3>3
  <2> QED  BY <2>1, <2>2
<1>18. Packed(a)'
  <2> DEFINE at == 0
  <2>1. at \in Nat /\ at = IF c \in ChunksOf(a) THEN Fill(a, c) ELSE 0
    BY <1>16
  <2>2. /\ Fill(a, c)' = at + Rounded(n)
        /\ objects'[a] = objects[a] \cup {[chunk |-> c, at |-> at, n |-> n]}
    BY <1>15, <1>17
  <2> HIDE DEF at
  <2> QED  BY <2>1, <2>2, <1>16, <1>17, Added DEF Inv
<1>19. Chunked(a)'
  <2>1. \A d \in ChunksOf(a) : Fill(a, d) <= size[d]
    BY DEF Inv, Contents, Chunked
  <2>2. \A d \in ChunksOf(a)' : Fill(a, d)' <= size'[d]
    <3>1. Fill(a, c)' <= size'[c]
      BY <1>2, <1>5, <1>17 DEF top
    <3>2. \A d \in ChunksOf(a) : Fill(a, d)' <= size'[d]
      BY <1>1, <1>5, <1>16, <1>17, <2>1
    <3> QED  BY <3>1, <3>2, <1>16
  <2> QED  BY <2>2, <1>11, <1>14 DEF Chunked
<1>20. ASSUME NEW b \in Live, b # a PROVE Chunked(b)' /\ Packed(b)'
  <2>1. Alike(arena'[b], arena[b]) /\ objects'[b] = objects[b]
    BY <1>14, <1>15, <1>20 DEF Live, Alike
  <2>2. \A d \in ChunksOf(b) : d \in Chunks /\ d # c /\ d # old
    BY <1>1, <1>5, <1>20, LiveArena DEF Inv, ChunksOwnedOnce
  <2> QED  BY <2>1, <2>2, <1>5, <1>6, Untouched DEF Inv
<1>21. Contents'
  <2>1. \A b \in Arenas \ Live' : objects'[b] = {}
    BY <1>14, <1>15 DEF Inv, Contents
  <2> QED  BY <2>1, <1>14, <1>18, <1>19, <1>20 DEF Contents
<1>22. ChunksOwnedOnce'
  <2>1. \A b \in Live' : b # a => b \in Live /\ arena'[b].chunks = arena[b].chunks
    BY <1>14 DEF Live
  <2>2. /\ Range(mine) \cap Range(chunk_cache') = {}
        /\ \A b \in Live \ {a} : Range(mine) \cap ChunksOf(b) = {}
    BY <1>5, <1>12 DEF Inv, ChunksOwnedOnce
  <2>3. \A b \in Live \ {a} : ChunksOf(b) \cap Range(chunk_cache') = {}
    BY <1>5 DEF Inv, ChunksOwnedOnce
  <2>4. \A d \in Range(chunk_cache') : size'[d] = Default
    <3>1. Range(chunk_cache) \subseteq Chunks
      BY DEF Inv, TypeOK, Range
    <3> QED  BY <3>1, <1>5 DEF Inv, ChunksOwnedOnce
  <2> QED  BY <2>1, <2>2, <2>3, <2>4, <1>1, <1>5, <1>13, <1>14, OwnedOnce DEF Inv
<1>23. TypeOK'
  BY <1>4, <1>5, <1>6, <1>14, <1>15 DEF Inv, TypeOK, Structs
<1> QED  BY <1>14, <1>21, <1>22, <1>23 DEF Inv

\* Two lists of chunks without a common chunk, joined.
LEMMA Joined ==
    ASSUME NEW x \in Seq(Chunks), NEW y \in Seq(Chunks), IsInjective(x), IsInjective(y),
           Range(x) \cap Range(y) = {}
    PROVE  /\ x \o y \in Seq(Chunks) /\ Len(x \o y) = Len(x) + Len(y)
           /\ IsInjective(x \o y) /\ Range(x \o y) \subseteq Range(x) \cup Range(y)
<1> DEFINE z == x \o y  m == Len(x)  n == Len(y)
<1>1. /\ z \in Seq(Chunks) /\ Len(z) = m + n /\ m \in Nat /\ n \in Nat
      /\ \A k \in 1..(m + n) : z[k] = IF k <= m THEN x[k] ELSE y[k - m]
  OBVIOUS
<1>2. DOMAIN z = 1..(m + n) /\ DOMAIN x = 1..m /\ DOMAIN y = 1..n
  BY <1>1
<1> HIDE DEF z, m, n
<1>3. \A k \in 1..(m + n) : (k <= m => k \in 1..m) /\ (~(k <= m) => k - m \in 1..n)
  BY <1>1
<1>4. /\ \A j, k \in 1..m : x[j] = x[k] => j = k
      /\ \A j, k \in 1..n : y[j] = y[k] => j = k
      /\ \A j \in 1..m : \A k \in 1..n : x[j] # y[k]
      /\ \A j \in 1..m : x[j] \in Range(x)
      /\ \A j \in 1..n : y[j] \in Range(y)
  <2>1. \A j, k \in 1..m : x[j] = x[k] => j = k
    BY <1>2 DEF IsInjective
  <2>2. \A j, k \in 1..n : y[j] = y[k] => j = k
    BY <1>2 DEF IsInjective
  <2>3. (\A j \in 1..m : x[j] \in Range(x)) /\ \A j \in 1..n : y[j] \in Range(y)
    BY <1>2 DEF Range
  <2> QED  BY <2>1, <2>2, <2>3
<1>5. IsInjective(z)
  <2> SUFFICES ASSUME NEW j \in 1..(m + n), NEW k \in 1..(m + n), z[j] = z[k] PROVE j = k
    BY <1>2 DEF IsInjective
  <2>1. CASE j <= m
    BY <1>1, <1>3, <1>4, <2>1
  <2>2. CASE k <= m
    BY <1>1, <1>3, <1>4, <2>2
  <2>3. CASE ~(j <= m) /\ ~(k <= m)
    <3>1. j - m = k - m
      BY <1>1, <1>3, <1>4, <2>3
    <3> QED  BY <3>1, <1>1
  <2> QED  BY <2>1, <2>2, <2>3
<1>6. Range(z) \subseteq Range(x) \cup Range(y)
  BY <1>1, <1>2, <1>3, <1>4 DEF Range
<1> QED  BY <1>1, <1>5, <1>6 DEF z, m, n

\* What the cache takes of an arena that goes: chunks of its own, of the default
\* size, each once, and no more than there is room for.
LEMMA CachedChunks ==
    ASSUME Inv, NEW a \in Live, NEW at \in InListOrder(Defaults(a))
    PROVE  /\ Cached(a, at) \in Seq(Chunks) /\ IsInjective(Cached(a, at))
           /\ Range(Cached(a, at)) \subseteq ChunksOf(a)
           /\ \A c \in Range(Cached(a, at)) : size[c] = Default
           /\ Len(Cached(a, at)) + Len(chunk_cache) <= CacheMax
<1> DEFINE s == arena[a].chunks  d == Defaults(a)  n == Cardinality(d)
           room == CacheMax - Len(chunk_cache)
           taken == Min({n, room})
           x == Cached(a, at)
<1>1. /\ s \in Seq(Chunks) /\ DOMAIN s = 1..Len(s) /\ Len(s) \in Nat
      /\ IsInjective(s) /\ ChunksOf(a) = Range(s)
  BY LiveArena DEF Inv, ChunksOwnedOnce, ChunksOf
<1>2. d \subseteq 1..Len(s) /\ \A k \in d : size[s[k]] = Default
  BY <1>1 DEF Defaults
<1>3. n \in Nat
  <2>1. IsFiniteSet(1..Len(s))
    BY <1>1, FS_Interval
  <2> HIDE DEF d, s
  <2>2. IsFiniteSet(d)
    BY <1>2, <2>1, FS_Subset
  <2> QED  BY <2>2, FS_CardinalityType
<1>4. room \in Nat /\ Len(chunk_cache) \in Nat
  BY ArenaAssumption DEF Inv, TypeOK
<1> HIDE DEF room, n
<1>5. taken \in Nat /\ taken <= n /\ taken <= room
  BY <1>3, <1>4, TwoMin
<1>6. at \in Bijection(1..n, d)
  BY DEF InListOrder, n
<1>7. /\ \A k \in 1..n : at[k] \in d
      /\ \A j, k \in 1..n : at[j] = at[k] => j = k
  BY <1>6 DEF Bijection, Injection, IsInjective
<1>8. x = [k \in 1..taken |-> s[at[taken + 1 - k]]]
  BY DEF Cached, n, room
<1> HIDE DEF d, s, taken, x
<1>9. \A k \in 1..taken : taken + 1 - k \in 1..n
  BY <1>3, <1>5
<1>10. \A k \in 1..taken : x[k] = s[at[taken + 1 - k]] /\ at[taken + 1 - k] \in 1..Len(s)
                           /\ size[x[k]] = Default /\ x[k] \in Chunks /\ x[k] \in Range(s)
  <2> TAKE k \in 1..taken
  <2> DEFINE j == at[taken + 1 - k]
  <2>1. j \in 1..Len(s) /\ size[s[j]] = Default
    BY <1>2, <1>7, <1>9
  <2>2. x[k] = s[j]
    BY <1>8
  <2> HIDE DEF j
  <2>3. s[j] \in Chunks /\ s[j] \in Range(s)
    BY <2>1, <1>1 DEF Range
  <2> QED  BY <2>1, <2>2, <2>3 DEF j
<1>11. x \in Seq(Chunks) /\ Len(x) = taken /\ DOMAIN x = 1..taken
  <2>1. x \in [1..taken -> Chunks]
    BY <1>8, <1>10
  <2> QED  BY <2>1, <1>5
<1>12. IsInjective(x)
  <2> SUFFICES ASSUME NEW j \in 1..taken, NEW k \in 1..taken, x[j] = x[k] PROVE j = k
    BY <1>11 DEF IsInjective
  <2>1. at[taken + 1 - j] = at[taken + 1 - k]
    BY <1>1, <1>10 DEF IsInjective
  <2>2. taken + 1 - j = taken + 1 - k
    BY <2>1, <1>7, <1>9
  <2> QED  BY <2>2, <1>5
<1>13. Range(x) \subseteq Range(s) /\ \A c \in Range(x) : size[c] = Default
  BY <1>10, <1>11 DEF Range
<1>14. Len(x) + Len(chunk_cache) <= CacheMax
  BY <1>4, <1>5, <1>11, ArenaAssumption DEF room
<1> QED  BY <1>1, <1>11, <1>12, <1>13, <1>14 DEF x

LEMMA DestroyKeeps ==
    ASSUME Inv, NEW a \in Live, Destroy(a)
    PROVE  Inv'
<1>1. size' = size /\ used' = used /\ objects' = [objects EXCEPT ![a] = {}]
      /\ scan_head' = HeadWithout(a) /\ a \in Arenas
  BY DEF Destroy, Live
<1>2. PICK at \in InListOrder(Defaults(a)) : chunk_cache' = Cached(a, at) \o chunk_cache
  BY DEF Destroy
<1>3. /\ arena' \in Structs /\ Registry' /\ arena'[a] = Freed
      /\ \A b \in Arenas \ {a} : Alike(arena'[b], arena[b])
  <2>1. CASE arena[a].scannable
    <3>1. arena' = [Unregistered(a) EXCEPT ![a] = Freed]
      BY <2>1 DEF Destroy
    <3> QED  BY <1>1, <2>1, <3>1, FreeScan DEF Inv
  <2>2. CASE ~arena[a].scannable
    <3>1. arena' = [arena EXCEPT ![a] = Freed] /\ scan_head' = scan_head
      BY <1>1, <2>2 DEF Destroy, HeadWithout
    <3> QED  BY <2>2, <3>1, FreePlain DEF Inv
  <2> QED  BY <2>1, <2>2
<1>4. Live' = Live \ {a}
  BY <1>3 DEF Live, Alike, Freed
<1> DEFINE x == Cached(a, at)  y == chunk_cache
<1>5. /\ x \in Seq(Chunks) /\ IsInjective(x) /\ Range(x) \subseteq ChunksOf(a)
      /\ \A c \in Range(x) : size[c] = Default
      /\ Len(x) + Len(y) <= CacheMax
  BY CachedChunks
<1>6. /\ y \in Seq(Chunks) /\ IsInjective(y) /\ \A c \in Range(y) : size[c] = Default
      /\ \A b \in Live : ChunksOf(b) \cap Range(y) = {}
      /\ \A b \in Live \ {a} : ChunksOf(b) \cap ChunksOf(a) = {}
  BY DEF Inv, TypeOK, ChunksOwnedOnce
<1>7. chunk_cache' = x \o y
  BY <1>2
<1> HIDE DEF x, y
<1>8. /\ x \o y \in Seq(Chunks) /\ Len(x \o y) = Len(x) + Len(y)
      /\ IsInjective(x \o y) /\ Range(x \o y) \subseteq Range(x) \cup Range(y)
  <2>1. Range(x) \cap Range(y) = {}
    BY <1>5, <1>6
  <2> QED  BY <2>1, <1>5, <1>6, Joined
<1>9. ChunksOwnedOnce'
  <2>1. \A b \in Live' : b # a => b \in Live /\ arena'[b].chunks = arena[b].chunks
    BY <1>3, <1>4 DEF Alike, Live
  <2>2. a \notin Live'
    BY <1>4
  <2>3. \A b \in Live \ {a} : ChunksOf(b) \cap Range(chunk_cache') = {}
    BY <1>5, <1>6, <1>7, <1>8
  <2>4. IsInjective(chunk_cache') /\ Len(chunk_cache') <= CacheMax
    BY <1>5, <1>7, <1>8
  <2>5. \A c \in Range(chunk_cache') : size'[c] = Default
    BY <1>1, <1>5, <1>6, <1>7, <1>8
  <2> QED  BY <2>1, <2>2, <2>3, <2>4, <2>5, <1>1, OwnedOnce DEF Inv
<1>10. objects'[a] = {} /\ \A b \in Arenas \ {a} : objects'[b] = objects[b]
  BY <1>1 DEF Inv, TypeOK
<1>11. Contents'
  <2>1. ASSUME NEW b \in Live' PROVE Chunked(b)' /\ Packed(b)'
    <3>1. b \in Live /\ Alike(arena'[b], arena[b]) /\ objects'[b] = objects[b]
      BY <1>3, <1>4, <1>10 DEF Live
    <3> QED  BY <3>1, <1>1, Untouched DEF Inv
  <2>2. \A b \in Arenas \ Live' : objects'[b] = {}
    BY <1>4, <1>10 DEF Inv, Contents
  <2> QED  BY <2>1, <2>2 DEF Contents
<1>12. TypeOK'
  <2>1. objects' \in [Arenas -> SUBSET Object]
    BY <1>1 DEF Inv, TypeOK
  <2>2. scan_head' \in Link
    <3>1. arena[a] \in Struct
      BY LiveStructs DEF Inv, Live
    <3> QED  BY <3>1, <1>1 DEF HeadWithout, Inv, TypeOK, Struct
  <2>3. chunk_cache' \in Seq(Chunks) /\ Len(chunk_cache') <= CacheMax
    BY <1>5, <1>7, <1>8
  <2> QED  BY <2>1, <2>2, <2>3, <1>1, <1>3 DEF Inv, TypeOK, Structs
<1> QED  BY <1>3, <1>9, <1>11, <1>12 DEF Inv

LEMMA InitHolds == Init => Inv
<1> SUFFICES ASSUME Init PROVE Inv
  OBVIOUS
<1>1. Live = {} /\ \A a \in Arenas : ~arena[a].live
  BY DEF Init, Live, Freed
<1>2. TypeOK
  <2>1. chunk_cache \in Seq(Chunks) /\ Len(chunk_cache) <= CacheMax
    BY ArenaAssumption DEF Init
  <2>2. size \in [Chunks -> Nat] /\ used \in [Chunks -> Nat] /\ objects \in [Arenas -> SUBSET Object]
        /\ arena \in [Arenas -> Struct \cup {Freed}] /\ scan_head \in Link
    BY DEF Init, Link
  <2> QED  BY <2>1, <2>2 DEF TypeOK
<1>3. Lists(<<>>)
  <2>1. \A k : k \notin 1..0
    OBVIOUS
  <2> QED  BY <2>1, <1>1 DEF Lists, Nth, Init
<1>4. ChunksOwnedOnce
  <2>1. chunk_cache = <<>> /\ DOMAIN chunk_cache = {} /\ Len(chunk_cache) <= CacheMax
    BY ArenaAssumption DEF Init
  <2> QED  BY <1>1, <2>1 DEF ChunksOwnedOnce, IsInjective, Range
<1>5. Contents
  BY <1>1 DEF Contents, Init
<1> QED  BY <1>2, <1>3, <1>4, <1>5 DEF Inv, Registry

LEMMA NextKeeps ==
    ASSUME Inv, [Next]_vars
    PROVE  Inv'
<1>1. ASSUME NEW a \in Arenas, NEW asked \in Sizes, NEW scan \in BOOLEAN, Create(a, asked, scan)
      PROVE  Inv'
  BY <1>1, CreateKeeps
<1>2. ASSUME NEW a \in Arenas, NEW n \in Requests, Alloc(a, n) PROVE Inv'
  BY <1>2, BumpKeeps, GrowKeeps DEF Alloc
<1>3. ASSUME NEW a \in Arenas, Destroy(a) PROVE Inv'
  BY <1>3, DestroyKeeps DEF Destroy
<1>4. CASE UNCHANGED vars
  <2>1. TypeOK'
    BY <1>4 DEF vars, Inv, TypeOK
  <2>2. Registry'
    <3>1. PICK list : Lists(list)
      BY DEF Inv, Registry
    <3>2. arena' = arena /\ scan_head' = scan_head
      BY <1>4 DEF vars
    <3>3. Lists(list)'
      BY <3>1, <3>2, ListsNext DEF Lists
    <3> QED  BY <3>3 DEF Registry
  <2>3. ChunksOwnedOnce'
    BY <1>4 DEF vars, Inv, ChunksOwnedOnce, ChunksOf, Live
  <2>4. Contents'
    BY <1>4 DEF vars, Inv, Contents, Live, Chunked, Packed, Fill, ScannedBelow, Newest, ChunksOf
  <2> QED  BY <2>1, <2>2, <2>3, <2>4 DEF Inv
<1> QED  BY <1>1, <1>2, <1>3, <1>4 DEF Next

-----------------------------------------------------------------------------
(* Objects.                                                                 *)

LEMMA ExtentOf ==
    \A o : \A c, w : <<c, w>> \in Extent(o) <=> c = o.chunk /\ w \in o.at..(o.at + Rounded(o.n) - 1)
BY DEF Extent

LEMMA ObjectTypes ==
    ASSUME TypeOK, NEW a \in Live, NEW o \in objects[a]
    PROVE  o.at \in Nat /\ o.n \in Requests /\ Rounded(o.n) \in Nat /\ Rounded(o.n) >= 1
<1>1. o \in Object
  BY DEF TypeOK, Live
<1>2. o.at \in Nat /\ o.n \in Requests
  BY <1>1 DEF Object
<1>3. o.n \in Nat /\ o.n >= 1
  <2>1. \A r \in Nat \ {0} : r \in Nat /\ r >= 1
    OBVIOUS
  <2>2. Requests \subseteq Nat \ {0}
    BY ArenaAssumption
  <2> QED  BY <1>2, <2>1, <2>2
<1>4. Rounded(o.n) \in Nat /\ Rounded(o.n) >= o.n
  BY <1>3, Rounding
<1> QED  BY <1>2, <1>3, <1>4

LEMMA InvSeparates == Inv => ObjectsDisjoint
<1> SUFFICES ASSUME Inv PROVE ObjectsDisjoint
  OBVIOUS
<1>1. ASSUME NEW a \in Live, NEW o \in objects[a]
      PROVE  o.chunk \in ChunksOf(a) /\ o.at + Rounded(o.n) <= size[o.chunk]
  <2>1. o.chunk \in ChunksOf(a) /\ o.at + Rounded(o.n) <= Fill(a, o.chunk)
    BY DEF Inv, Contents, Packed
  <2>2. Fill(a, o.chunk) <= size[o.chunk] /\ Fill(a, o.chunk) \in Nat /\ size[o.chunk] \in Nat
    BY <2>1, LiveArena DEF Inv, Contents, Chunked, TypeOK
  <2>3. o.at + Rounded(o.n) \in Nat
    BY ObjectTypes DEF Inv
  <2> HIDE DEF Inv
  <2> QED  BY <2>1, <2>2, <2>3
<1>2. ASSUME NEW a \in Live, NEW b \in Live, NEW o \in objects[a], NEW p \in objects[b], o # p
      PROVE  Extent(o) \cap Extent(p) = {}
  <2>1. CASE o.chunk # p.chunk
    BY <2>1 DEF Extent
  <2>2. CASE o.chunk = p.chunk
    <3>1. a = b
      BY <1>1, <2>2 DEF Inv, ChunksOwnedOnce
    <3>2. o.at + Rounded(o.n) <= p.at \/ p.at + Rounded(p.n) <= o.at
      BY <1>2, <2>2, <3>1 DEF Inv, Contents, Packed
    <3>3. /\ o.at \in Nat /\ Rounded(o.n) \in Nat
          /\ p.at \in Nat /\ Rounded(p.n) \in Nat
      BY ObjectTypes DEF Inv
    <3>4. ~\E w : w \in o.at..(o.at + Rounded(o.n) - 1) /\ w \in p.at..(p.at + Rounded(p.n) - 1)
      BY <3>2, <3>3
    <3> QED  BY <3>4 DEF Extent
  <2> QED  BY <2>1, <2>2
<1>3. \A o, p \in ObjectsIn(Live) : o # p => Extent(o) \cap Extent(p) = {}
  BY <1>2 DEF ObjectsIn
<1> QED  BY <1>1, <1>3 DEF ObjectsDisjoint, Inv

-----------------------------------------------------------------------------
(* What a collection reads.                                                 *)

\* Induction, for a property given as a set.
LEMMA SetInduction ==
    ASSUME NEW S, 0 \in S, \A n \in Nat : n \in S => n + 1 \in S
    PROVE  Nat \subseteq S
<1> DEFINE R == OpToRel(<, Nat)
           T == {n \in Nat : n \notin S}
<1>1. IsWellFoundedOn(R, Nat)
  BY NatLessThanWellFounded
<1>2. \A x, y \in Nat : <<y, x>> \in R <=> y < x
  BY DEF OpToRel
<1> HIDE DEF R
<1> SUFFICES ASSUME T # {} PROVE FALSE
  OBVIOUS
<1>3. \E x \in T : \A y \in T : ~(<<y, x>> \in R)
  <2>1. T \subseteq Nat
    OBVIOUS
  <2> HIDE DEF T
  <2> QED  BY <1>1, <2>1, WFMin
<1>4. PICK x \in T : \A y \in T : ~(y < x)
  BY <1>2, <1>3
<1>5. x # 0 /\ x - 1 \in Nat /\ x - 1 < x /\ (x - 1) + 1 = x
  OBVIOUS
<1> QED  BY <1>4, <1>5

\* The walk along scan_next reaches the first entries of the registry, one more
\* with every step.
First(list, i) == {list[k] : k \in {k \in 1..Len(list) : k <= i + 1}}

\* The equation that defines Reached.
Walk(f) ==
    f = [i \in 0..Cardinality(Arenas) |->
            IF i = 0 THEN {scan_head} \ {NULL}
            ELSE f[i-1] \cup ({arena[a].scan_next : a \in f[i-1] \cap Live} \ {NULL})]

LEMMA FirstWalks ==
    ASSUME TypeOK, NEW list, Lists(list)
    PROVE  Walk([i \in 0..Cardinality(Arenas) |-> First(list, i)])
<1> DEFINE N == Cardinality(Arenas)  n == Len(list)
           f == [i \in 0..N |-> First(list, i)]
<1>1. n \in Nat /\ N \in Nat
  BY Entries, ArenaAssumption, FS_CardinalityType
<1>2. \A k \in 1..n : list[k] \in Live /\ list[k] # NULL /\ arena[list[k]].scan_next = Nth(list, k + 1)
  BY Entries, ArenaAssumption DEF Lists, Live
<1> HIDE DEF N
<1>3. \A i : \A x : x \in First(list, i) <=> \E k \in 1..n : k <= i + 1 /\ x = list[k]
  BY DEF First
<1> HIDE DEF n
<1>4. First(list, 0) = {scan_head} \ {NULL}
  <2>1. \A k \in 1..n : k <= 0 + 1 <=> k = 1
    BY <1>1
  <2>2. scan_head = IF 1 \in 1..n THEN list[1] ELSE NULL
    BY DEF Lists, Nth, n
  <2>3. \A x : x \in First(list, 0) <=> 1 \in 1..n /\ x = list[1]
    BY <1>3, <2>1
  <2> QED  BY <1>2, <2>2, <2>3
<1>5. ASSUME NEW i \in 0..N, i # 0
      PROVE  First(list, i) = First(list, i-1)
                                 \cup ({arena[a].scan_next : a \in First(list, i-1) \cap Live} \ {NULL})
  <2> DEFINE prior == First(list, i-1)
             more == {arena[a].scan_next : a \in prior \cap Live} \ {NULL}
  <2>1. i \in Nat /\ i >= 1
    BY <1>1, <1>5
  <2>2. \A x : x \in prior <=> \E k \in 1..n : k <= i /\ x = list[k]
    <3>1. \A x : x \in prior <=> \E k \in 1..n : k <= (i-1) + 1 /\ x = list[k]
      BY <1>3
    <3>2. (i-1) + 1 = i
      BY <2>1
    <3> HIDE DEF prior
    <3> QED  BY <3>1, <3>2
  <2> HIDE DEF prior
  <2>3. \A x : x \in more <=> \E k \in 1..n : k <= i /\ x = Nth(list, k + 1) /\ x # NULL
    BY <1>2, <2>2
  <2>4. \A x : x \in more <=> \E k \in 1..n : k + 1 \in 1..n /\ k <= i /\ x = list[k + 1]
    <3>1. \A k \in 1..n : Nth(list, k + 1) # NULL => k + 1 \in 1..n
      BY DEF Nth, n
    <3>2. \A k \in 1..n : k + 1 \in 1..n => Nth(list, k + 1) = list[k + 1] /\ list[k + 1] # NULL
      BY <1>2 DEF Nth, n
    <3> HIDE DEF more
    <3> QED  BY <2>3, <3>1, <3>2
  <2> HIDE DEF more
  <2>5. ASSUME NEW k \in 1..n PROVE k <= i + 1 <=> k <= i \/ (k - 1 \in 1..n /\ k - 1 <= i /\ (k - 1) + 1 = k)
    BY <1>1, <2>1
  <2>6. ASSUME NEW x, x \in First(list, i) PROVE x \in prior \cup more
    <3>1. PICK k \in 1..n : k <= i + 1 /\ x = list[k]
      BY <1>3, <2>6
    <3>2. CASE k <= i
      BY <2>2, <3>1, <3>2
    <3>3. CASE ~(k <= i)
      <4>1. k - 1 \in 1..n /\ k - 1 <= i /\ (k - 1) + 1 = k
        BY <2>5, <3>1, <3>3
      <4> QED  BY <2>4, <3>1, <4>1
    <3> QED  BY <3>2, <3>3
  <2>7. ASSUME NEW x, x \in prior \cup more PROVE x \in First(list, i)
    <3>1. CASE x \in prior
      <4>1. PICK k \in 1..n : k <= i /\ x = list[k]
        BY <2>2, <3>1
      <4>2. k <= i + 1
        BY <1>1, <2>1, <4>1
      <4> QED  BY <1>3, <4>1, <4>2
    <3>2. CASE x \in more
      <4>1. PICK k \in 1..n : k + 1 \in 1..n /\ k <= i /\ x = list[k + 1]
        BY <2>4, <3>2
      <4>2. k + 1 <= i + 1
        BY <1>1, <2>1, <4>1
      <4> QED  BY <1>3, <4>1, <4>2
    <3> QED  BY <2>7, <3>1, <3>2
  <2>8. First(list, i) = prior \cup more
    BY <2>6, <2>7
  <2> QED  BY <2>8 DEF prior, more
<1>6. \A i \in 0..N : i # 0 => i - 1 \in 0..N
  BY <1>1
<1>7. \A i \in 0..N : f[i] = IF i = 0 THEN {scan_head} \ {NULL}
                             ELSE f[i-1] \cup ({arena[a].scan_next : a \in f[i-1] \cap Live} \ {NULL})
  <2> TAKE i \in 0..N
  <2>1. CASE i = 0
    BY <1>4, <2>1
  <2>2. CASE i # 0
    <3>1. f[i] = First(list, i) /\ f[i-1] = First(list, i-1)
      BY <1>6, <2>2
    <3> HIDE DEF f
    <3> QED  BY <3>1, <1>5, <2>2
  <2> QED  BY <2>1, <2>2
<1>8. f = [i \in 0..N |-> f[i]]
  OBVIOUS
<1> HIDE DEF f
<1>9. Walk(f)
  BY <1>7, <1>8 DEF Walk, N
<1> QED  BY <1>9 DEF f, N

LEMMA ReachedIs ==
    ASSUME TypeOK, NEW list, Lists(list)
    PROVE  Scanned = {list[k] : k \in 1..Len(list)}
<1> DEFINE N == Cardinality(Arenas)  n == Len(list)
           first == [i \in 0..N |-> First(list, i)]
<1>1. n \in Nat /\ N \in Nat
  BY Entries, ArenaAssumption, FS_CardinalityType
<1>2. Walk(Reached)
  <2>1. Reached = CHOOSE f : Walk(f)
    BY DEF Reached, Walk
  <2>2. \E f : Walk(f)
    BY FirstWalks
  <2> QED  BY <2>1, <2>2
<1>3. Walk(first)
  BY FirstWalks
<1>4. \A f : Walk(f) =>
         /\ f[0] = {scan_head} \ {NULL}
         /\ \A i \in Nat : i + 1 \in 0..N =>
               f[i + 1] = f[i] \cup ({arena[a].scan_next : a \in f[i] \cap Live} \ {NULL})
  <2> SUFFICES ASSUME NEW f, Walk(f)
               PROVE  /\ f[0] = {scan_head} \ {NULL}
                      /\ \A i \in Nat : i + 1 \in 0..N =>
                            f[i + 1] = f[i] \cup ({arena[a].scan_next : a \in f[i] \cap Live} \ {NULL})
    OBVIOUS
  <2>1. \A i \in 0..N : f[i] = IF i = 0 THEN {scan_head} \ {NULL}
                               ELSE f[i-1] \cup ({arena[a].scan_next : a \in f[i-1] \cap Live} \ {NULL})
    BY DEF Walk
  <2>2. \A i \in Nat : i + 1 # 0 /\ (i + 1) - 1 = i
    OBVIOUS
  <2>3. 0 \in 0..N
    BY <1>1
  <2> HIDE DEF N
  <2> QED  BY <2>1, <2>2, <2>3
<1> DEFINE S == {i \in Nat : i \in 0..N => Reached[i] = first[i]}
<1>5. Nat \subseteq S
  <2>1. 0 \in S
    BY <1>2, <1>3, <1>4
  <2>2. ASSUME NEW i \in Nat, i \in S PROVE i + 1 \in S
    <3>1. i + 1 \in 0..N => i \in 0..N
      BY <1>1
    <3> HIDE DEF first, N
    <3>2. i + 1 \in 0..N => Reached[i + 1] = first[i + 1]
      BY <1>2, <1>3, <1>4, <2>2, <3>1
    <3> QED  BY <3>2
  <2> HIDE DEF S
  <2> QED  BY <2>1, <2>2, SetInduction
<1>6. Reached[N] = First(list, N)
  <2>1. N \in 0..N
    BY <1>1
  <2>2. Reached[N] = first[N]
    BY <1>1, <1>5, <2>1
  <2> QED  BY <2>1, <2>2
<1>7. n <= N
  <2>1. list \in Injection(1..n, Arenas)
    BY DEF Lists, Injection, IsInjective
  <2>2. Cardinality(1..n) <= N
    BY <2>1, ArenaAssumption, FS_Injection
  <2>3. Cardinality(1..n) = n
    <3> HIDE DEF n
    <3>1. 1 \in Int /\ n \in Int
      BY <1>1
    <3>2. Cardinality(1..n) = IF 1 > n THEN 0 ELSE n - 1 + 1
      BY <3>1, FS_Interval
    <3> QED  BY <1>1, <3>2
  <2> QED  BY <2>2, <2>3
<1>8. \A k \in 1..n : k <= N + 1
  BY <1>1, <1>7
<1> QED  BY <1>6, <1>8 DEF Scanned, First

\* The registry as the comment above scan_arena_roots takes it.
LEMMA InvRegistered == Inv => RegistryExact
<1> SUFFICES ASSUME Inv PROVE RegistryExact
  OBVIOUS
<1>1. PICK list : Lists(list)
  BY DEF Inv, Registry
<1> DEFINE n == Len(list)
<1>2. /\ n \in Nat /\ Scanned = {list[k] : k \in 1..n}
      /\ \A k \in 1..n : list[k] \in Live /\ list[k] \in Arenas /\ list[k] # NULL
  BY <1>1, Entries, ReachedIs, ArenaAssumption DEF Inv, Live
<1>3. /\ \A j, k \in 1..n : list[j] = list[k] => j = k
      /\ \A a \in Arenas : (\E k \in 1..n : list[k] = a) <=> arena[a].live /\ arena[a].scannable
      /\ scan_head = Nth(list, 1)
      /\ \A k \in 1..n : /\ arena[list[k]].scan_next = Nth(list, k + 1)
                         /\ arena[list[k]].scan_prev = Nth(list, k - 1)
  BY <1>1 DEF Lists
<1> HIDE DEF n
<1>4. Scanned = {a \in Live : arena[a].scannable}
  <2>1. \A a \in Arenas : a \in Live <=> arena[a].live
    BY DEF Live
  <2>2. \A a : a \in Scanned <=> \E k \in 1..n : list[k] = a
    BY <1>2
  <2>3. \A a : a \in Scanned => a \in Arenas
    BY <1>2
  <2>4. \A a : a \in Live => a \in Arenas
    BY DEF Live
  <2> QED  BY <1>3, <2>1, <2>2, <2>3, <2>4
<1>5. ASSUME NEW k \in 1..n
      PROVE  /\ arena[list[k]].scan_prev = NULL <=> scan_head = list[k]
             /\ arena[list[k]].scan_next # NULL
                   => arena[arena[list[k]].scan_next].scan_prev = list[k]
  <2>1. arena[list[k]].scan_prev = Nth(list, k - 1) /\ arena[list[k]].scan_next = Nth(list, k + 1)
    BY <1>3
  <2>2. Nth(list, k - 1) = NULL <=> k = 1
    <3>1. CASE k = 1
      <4>1. k - 1 \notin 1..n
        BY <3>1
      <4> QED  BY <3>1, <4>1 DEF Nth, n
    <3>2. CASE k # 1
      <4>1. k - 1 \in 1..n
        BY <1>2, <3>2
      <4> QED  BY <3>2, <4>1, <1>2 DEF Nth, n
    <3> QED  BY <3>1, <3>2
  <2>3. scan_head = list[k] <=> k = 1
    <3>1. 1 \in 1..n
      BY <1>2
    <3> QED  BY <3>1, <1>3 DEF Nth, n
  <2>4. ASSUME Nth(list, k + 1) # NULL PROVE arena[Nth(list, k + 1)].scan_prev = list[k]
    <3>1. k + 1 \in 1..n /\ Nth(list, k + 1) = list[k + 1]
      BY <2>4 DEF Nth, n
    <3>2. arena[list[k + 1]].scan_prev = Nth(list, (k + 1) - 1)
      BY <1>3, <3>1
    <3>3. (k + 1) - 1 = k
      BY <1>2
    <3>4. Nth(list, k) = list[k]
      BY DEF Nth, n
    <3> QED  BY <3>1, <3>2, <3>3, <3>4
  <2> QED  BY <2>1, <2>2, <2>3, <2>4
<1> QED  BY <1>2, <1>4, <1>5 DEF RegistryExact

LEMMA InvScans == Inv => ScanExact
<1> SUFFICES ASSUME Inv PROVE ScanExact
  OBVIOUS
<1> DEFINE scannable == {a \in Live : arena[a].scannable}
           words == UNION {Extent(o) : o \in ObjectsIn(scannable)}
<1>1. RegistryExact /\ Scanned = scannable
  BY InvRegistered DEF RegistryExact
<1>2. \A x : x \in WordsRead <=>
         \E a \in scannable : \E c \in ChunksOf(a) : \E w \in 0..(Fill(a, c) - 1) : x = <<c, w>>
  BY <1>1 DEF WordsRead, Fill
<1>3. \A x : x \in words <=>
         \E a \in scannable : \E o \in objects[a] :
            \E w \in o.at..(o.at + Rounded(o.n) - 1) : x = <<o.chunk, w>>
  BY DEF ObjectsIn, Extent
<1> HIDE DEF scannable, words
<1>4. \A a \in scannable : a \in Live
  BY DEF scannable
<1>5. ASSUME NEW a \in scannable, NEW c \in ChunksOf(a), NEW w \in 0..(Fill(a, c) - 1)
      PROVE  <<c, w>> \in words
  <2>1. w \in Nat /\ w < Fill(a, c)
    BY <1>4, LiveArena DEF Inv
  <2>2. PICK o \in objects[a] : o.chunk = c /\ o.at <= w /\ w < o.at + Rounded(o.n)
    BY <1>4, <2>1 DEF Inv, Contents, Packed
  <2>3. w \in o.at..(o.at + Rounded(o.n) - 1)
    <3>1. o.at \in Nat /\ Rounded(o.n) \in Nat
      BY <1>4, ObjectTypes DEF Inv
    <3> QED  BY <2>1, <2>2, <3>1
  <2> QED  BY <1>3, <2>2, <2>3
<1>6. ASSUME NEW a \in scannable, NEW o \in objects[a], NEW w \in o.at..(o.at + Rounded(o.n) - 1)
      PROVE  <<o.chunk, w>> \in WordsRead
  <2>1. o.chunk \in ChunksOf(a) /\ o.at + Rounded(o.n) <= Fill(a, o.chunk)
    BY <1>4 DEF Inv, Contents, Packed
  <2>2. w \in 0..(Fill(a, o.chunk) - 1)
    <3>1. o.at \in Nat /\ Rounded(o.n) \in Nat /\ Fill(a, o.chunk) \in Nat
      BY <1>4, <2>1, ObjectTypes, LiveArena DEF Inv
    <3> QED  BY <2>1, <3>1
  <2> QED  BY <1>2, <2>1, <2>2
<1>7. WordsRead = words
  <2>1. \A x \in WordsRead : x \in words
    BY <1>2, <1>5
  <2>2. \A x \in words : x \in WordsRead
    BY <1>3, <1>6
  <2> QED  BY <2>1, <2>2
<1> QED  BY <1>1, <1>7 DEF ScanExact, words, scannable

-----------------------------------------------------------------------------
(* The theorems.                                                            *)

LEMMA AlwaysInv == Spec => []Inv
<1>1. Inv /\ [Next]_vars => Inv'
  BY NextKeeps
<1> QED  BY <1>1, InitHolds, PTL DEF Spec

\* The structs, headers and lists of the arenas keep their types, and the cache
\* its length.
THEOREM ArenaTypeCorrect == Spec => []TypeOK
<1>1. Inv => TypeOK
  BY DEF Inv
<1> QED  BY <1>1, AlwaysInv, PTL

\* No chunk is in two arenas or in an arena and the cache, every object lies in a
\* chunk of its arena, and no two objects share a word: for any chunk and object
\* sizes, any cache, and any order of creation, growth and destruction
\* (arena_install_chunk, ubel_arena_grow, ubel_arena_destroy).
THEOREM NoObjectsOverlap == Spec => []ObjectsDisjoint
BY AlwaysInv, InvSeparates, PTL

\* The registry is the doubly linked list of the live scannable arenas, and a
\* collection that walks it reads every word of their objects and no other
\* (ubel_arena_create_scan, ubel_arena_destroy, scan_arena_roots).
THEOREM CollectionReadsArenas == Spec => []ScanExact
BY AlwaysInv, InvScans, PTL

=============================================================================
