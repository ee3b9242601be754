----------------------------- MODULE SortedSet -----------------------------
(***************************************************************************)
(* What a concurrent sorted list promises its callers                      *)
(* (src/lib/DS/SLLs/SLL.hpp): insert, remove and removeFirst each take     *)
(* effect at one instant of the call.  insert answers the value, or Empty  *)
(* (the code's false) if it was there already; remove and removeFirst      *)
(* answer the value they took, or Empty (the code's -1) if there was none. *)
(***************************************************************************)
EXTENDS Integers

CONSTANTS Threads, Values, Empty

VARIABLES
  elements,  \* the values in the list
  call       \* the call each thread is in: its operation, argument, answer

vars == <<elements, call>>

Call(op, v, ret) == [op |-> op, arg |-> v, ret |-> ret]
Idle == Call("none", Empty, Empty)
Returning(v) == Call("done", Empty, v)

\* What is in the list before the threads start is for the user to say.
Init ==
  /\ elements \in SUBSET Values
  /\ call = [t \in Threads |-> Idle]

Operations ==
  {Call(op, v, Empty) : op \in {"insert", "remove"}, v \in Values}
    \cup {Call("removeFirst", Empty, Empty), Call("empty", Empty, Empty)}

Invoke(t) ==
  /\ call[t] = Idle
  /\ \E c \in Operations : call' = [call EXCEPT ![t] = c]
  /\ UNCHANGED elements

Answer(t, v) == call' = [call EXCEPT ![t] = Returning(v)]

Insert(t) ==
  LET v == call[t].arg IN
  /\ call[t].op = "insert"
  /\ Answer(t, IF v \in elements THEN Empty ELSE v)
  /\ elements' = elements \cup {v}

Remove(t) ==
  LET v == call[t].arg IN
  /\ call[t].op = "remove"
  /\ Answer(t, IF v \in elements THEN v ELSE Empty)
  /\ elements' = elements \ {v}

IsLeast(v) == v \in elements /\ \A w \in elements : v <= w

RemoveFirst(t) ==
  /\ call[t].op = "removeFirst"
  /\ \E v \in elements :
       IsLeast(v) /\ elements' = elements \ {v} /\ Answer(t, v)

\* empty takes the least value again and again ...
Drain(t) ==
  /\ call[t].op = "empty"
  /\ \E v \in elements : IsLeast(v) /\ elements' = elements \ {v}
  /\ UNCHANGED call

\* ... until it finds none.
SeeEmpty(t) ==
  /\ call[t].op \in {"removeFirst", "empty"}
  /\ elements = {}
  /\ Answer(t, Empty)
  /\ UNCHANGED elements

Return(t) ==
  /\ call[t].op = "done"
  /\ call' = [call EXCEPT ![t] = Idle]
  /\ UNCHANGED elements

Next == \E t \in Threads :
  \/ Invoke(t) \/ Insert(t) \/ Remove(t) \/ RemoveFirst(t)
  \/ Drain(t) \/ SeeEmpty(t) \/ Return(t)

Spec == Init /\ [][Next]_vars
=============================================================================
