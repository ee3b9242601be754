------------------------------- MODULE Mutex -------------------------------
(***************************************************************************)
(* What a lock promises the lists that are built on it: one holder at a    *)
(* time, and a try that is refused only while somebody holds the lock.     *)
(***************************************************************************)
CONSTANT Threads

VARIABLE phase  \* what each thread does with the lock

Phases == {"out", "waiting", "trying", "holding", "refused"}

Init == phase = [t \in Threads |-> "out"]

Move(t, from, to) == phase[t] = from /\ phase' = [phase EXCEPT ![t] = to]

Held == \E t \in Threads : phase[t] = "holding"

Request(t) == Move(t, "out", "waiting") \/ Move(t, "out", "trying")
Acquire(t) == ~Held /\ (Move(t, "waiting", "holding") \/ Move(t, "trying", "holding"))
Refuse(t) == Held /\ Move(t, "trying", "refused")
GiveUp(t) == Move(t, "refused", "out")
Release(t) == Move(t, "holding", "out")

Next == \E t \in Threads :
  Request(t) \/ Acquire(t) \/ Refuse(t) \/ GiveUp(t) \/ Release(t)

Spec == Init /\ [][Next]_phase
=============================================================================
