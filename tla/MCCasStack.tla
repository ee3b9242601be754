----------------------------- MODULE MCCasStack -----------------------------
(* A small instance of the three stacks for TLC. *)
EXTENDS CasStack
=============================================================================
