------------------------------- MODULE MCPool -------------------------------
(* Small pools: one or two blocks of no, one or two slots, each released at *)
(* most MaxGeneration times.  The values are interchangeable.  Pools share  *)
(* nothing, so that one is enough for a program without stray handles.      *)
EXTENDS Pool, TLC
AnyValue == Permutations(Values)
=============================================================================
