----------------------------- MODULE LifoStack -----------------------------
(***************************************************************************)
(* What a concurrent stack promises its callers                            *)
(* (src/lib/DS/Stacks/Stack.hpp): each push and each pop takes effect at   *)
(* one instant of its call, and a pop answers the value on top at that     *)
(* instant, or Empty when there is none.                                   *)
(***************************************************************************)
EXTENDS Naturals, Sequences

CONSTANTS Threads, Values, Empty,
  Starts  \* what may be on the stack at the start, top first

VARIABLES
  items,  \* the values on the stack, top first
  call    \* the call each thread is in, and its argument or its answer

vars == <<items, call>>

Call(phase, v) == [phase |-> phase, val |-> v]
Idle == Call("idle", Empty)

Init == items \in Starts /\ call = [t \in Threads |-> Idle]

InvokePush(t, v) ==
  /\ call[t] = Idle
  /\ call' = [call EXCEPT ![t] = Call("push", v)]
  /\ UNCHANGED items

InvokePop(t) ==
  /\ call[t] = Idle
  /\ call' = [call EXCEPT ![t] = Call("pop", Empty)]
  /\ UNCHANGED items

Push(t) ==
  /\ call[t].phase = "push"
  /\ items' = <<call[t].val>> \o items
  /\ call' = [call EXCEPT ![t] = Call("pushed", Empty)]

Pop(t) ==
  /\ call[t].phase = "pop"
  /\ items # <<>>
  /\ items' = Tail(items)
  /\ call' = [call EXCEPT ![t] = Call("popped", Head(items))]

SeeEmpty(t) ==
  /\ call[t].phase = "pop"
  /\ items = <<>>
  /\ call' = [call EXCEPT ![t] = Call("popped", Empty)]
  /\ UNCHANGED items

Return(t) ==
  /\ call[t].phase \in {"pushed", "popped"}
  /\ call' = [call EXCEPT ![t] = Idle]
  /\ UNCHANGED items

Next == \E t \in Threads :
  \/ \E v \in Values : InvokePush(t, v)
  \/ InvokePop(t) \/ Push(t) \/ Pop(t) \/ SeeEmpty(t) \/ Return(t)

Spec == Init /\ [][Next]_vars
=============================================================================
