----------------------------- MODULE MCFcQueue ------------------------------
(* A small instance of the flat combining queue for TLC. *)
EXTENDS FcQueue, TLC

Symmetry == Permutations(Threads)
BothEnds == [s \in Structs |-> IF s = "enqueue" THEN {0, 3} ELSE {-1}]
TwoElements == <<1, 2>>
=============================================================================
