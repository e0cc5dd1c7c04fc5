--------------------------- MODULE MCGcRefinement ---------------------------
(* The heaps of MCGcHeap in which the refinement is checked too.            *)
EXTENDS MCGcHeap, GcRefinement
=============================================================================
