----------------------------- MODULE MCFcStack ------------------------------
(* A small instance of the flat combining stack for TLC. *)
EXTENDS FcStack

PushAndPop == [s \in Structs |-> {1, -1}]
=============================================================================
