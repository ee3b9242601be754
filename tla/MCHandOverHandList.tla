------------------------- MODULE MCHandOverHandList -------------------------
(* A small instance of the hand-over-hand list for TLC. *)
EXTENDS HandOverHandList
=============================================================================
