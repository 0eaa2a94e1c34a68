------------------------------- MODULE MCHeap -------------------------------
(***************************************************************************)
(* Heap for TLC: two threads, which nothing tells apart.                   *)
(***************************************************************************)
EXTENDS Heap, TLC

CONSTANTS t1, t2

Symmetry == Permutations(Threads)
=============================================================================
