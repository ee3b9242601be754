------------------------------- MODULE MCPsim -------------------------------
(* A small instance of Psim for TLC. *)
EXTENDS Psim
=============================================================================
