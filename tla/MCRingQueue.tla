---------------------------- MODULE MCRingQueue -----------------------------
(* A small instance of the ring for TLC. *)
EXTENDS RingQueue

TwoSlots == Rounded(2)
=============================================================================
