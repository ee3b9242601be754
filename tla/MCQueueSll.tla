----------------------------- MODULE MCQueueSll -----------------------------
(* A small instance of the list-based queue for TLC. *)
EXTENDS QueueSll, TLC

Symmetry == Permutations(Threads)
=============================================================================
