-------------------------- MODULE CombinedObject ---------------------------
(***************************************************************************)
(* What FcApplyOp of src/lib/DS/FC promises its callers: a call takes      *)
(* effect at one instant, once, and gets the answer of that instant.  The  *)
(* operation it stands for is not its own but that of some call under way  *)
(* on the same structure: the combiner serves every request with the value *)
(* it was called with itself.                                              *)
(***************************************************************************)
CONSTANTS Threads, Structs, Arguments,
  Initial,      \* the object at the start
  Apply(_, _, _)  \* Apply(s, v, object): the object and the answer after value
                  \* v was applied by structure s

VARIABLES object, call

vars == <<object, call>>

Idle == [phase |-> "idle"]
Init == object = Initial /\ call = [t \in Threads |-> Idle]

Invoke(t, s, v) ==
  /\ call[t] = Idle
  /\ call' = [call EXCEPT ![t] = [phase |-> "busy", s |-> s, value |-> v]]
  /\ UNCHANGED object

Serve(t, u) ==
  /\ call[t].phase = "busy" /\ call[u] # Idle /\ call[u].s = call[t].s
  /\ LET after == Apply(call[t].s, call[u].value, object) IN
       /\ object' = after.object
       /\ call' = [call EXCEPT ![t] =
            [phase |-> "done", s |-> @.s, value |-> @.value, res |-> after.answer]]

Return(t) ==
  /\ call[t].phase = "done"
  /\ call' = [call EXCEPT ![t] = Idle]
  /\ UNCHANGED object

Next == \E t \in Threads :
  \/ \E s \in Structs : \E v \in Arguments[s] : Invoke(t, s, v)
  \/ \E u \in Threads : Serve(t, u)
  \/ Return(t)

Spec == Init /\ [][Next]_vars
=============================================================================
