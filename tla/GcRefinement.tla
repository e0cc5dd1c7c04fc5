----------------------------- MODULE GcRefinement -----------------------------
(***************************************************************************)
(* The collector implements the object store.  An object of the store is   *)
(* an allocated slot or large object, its fields are its pointer words,    *)
(* and the value of a field or variable is the object the word points      *)
(* into: interior pointers, size classes, marks and phases disappear.      *)
(***************************************************************************)
EXTENDS GcHeap

\* The object a word refers to.
Referent(p) == IF TargetOf(p) = {} THEN Null ELSE CHOOSE o \in TargetOf(p) : TRUE

Fields(o) == WordsOf(o) \cap ptr_bits
Graph     == [o \in Objects |-> [w \in Fields(o) |-> Referent(mem[w])]]
Variables == [r \in PtrVars |-> Referent(stack[r])]

Store_ == INSTANCE ObjectStore WITH
  Ids   <- Words,
  Slots <- Words,
  Vars  <- PtrVars,
  None  <- Null,
  heap  <- Graph,
  hold  <- Variables

\* The collector keeps the promise of the object store: no object a program
\* variable leads to is freed, moved, merged with another or altered by an
\* allocation or a collection, and a new object is empty and is nobody else's.
ImplementsObjectStore == Store_!Spec
=============================================================================
