------------------------------ MODULE MCGcHeap ------------------------------
(***************************************************************************)
(* Small heaps for TLC.  With spans of two words there is a class of one   *)
(* word and one of two, and a large object of three words leaves a word of *)
(* slack; with spans of one word every object of two words is large.       *)
(***************************************************************************)
EXTENDS GcHeap, TLC

TwoClasses == <<1, 2>>
OneClass   == <<1>>

Pointers(n)   == [words |-> n, ptrs |-> 0 .. n - 1]
NoPointers(n) == [words |-> n, ptrs |-> {}]

\* Objects of both classes: a word of data, and a word of data with a pointer.
SmallObjs == {NoPointers(1), [words |-> 2, ptrs |-> {1}]}
\* With spans of one word: a span, runs of two and three, and an object larger
\* than the whole heap.
UpToThree == {Pointers(1), Pointers(2), NoPointers(3)}
WithHuge  == {Pointers(1), NoPointers(2), NoPointers(9)}

\* An integer that is the address of a word.
LooksLikeAddress == {<<1, 0>>, Null}

VarSymmetry == Permutations(PtrVars)
=============================================================================
