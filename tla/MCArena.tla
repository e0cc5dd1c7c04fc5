------------------------------- MODULE MCArena -------------------------------
(* Arenas small enough to fill: chunks of four words by default, a cache of *)
(* one or two chunks, objects that fit, that do not, and that need a chunk  *)
(* of their own.  Addresses are interchangeable.                            *)
EXTENDS Arena, TLC
AnyAddress == Permutations(Arenas) \cup Permutations(Chunks)
=============================================================================
