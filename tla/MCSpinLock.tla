----------------------------- MODULE MCSpinLock -----------------------------
(* A small instance of the spin lock for TLC. *)
EXTENDS SpinLock
=============================================================================
