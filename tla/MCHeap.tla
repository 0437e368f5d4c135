------------------------------- MODULE MCHeap -------------------------------
(* Small instance of Heap for TLC.                                         *)
EXTENDS Heap
=============================================================================
