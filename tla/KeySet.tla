------------------------------- MODULE KeySet -------------------------------
(***************************************************************************)
(* What a concurrent dictionary promises its callers                       *)
(* (src/lib/DS/Trees/Adapter.h): a successful insert or delete changes the *)
(* set at one instant of its call; a call that changes nothing answers     *)
(* what was true at some instant of its call.                              *)
(***************************************************************************)
CONSTANTS Threads, Keys, Prefill

VARIABLES
  keys,  \* the keys in the dictionary
  call   \* each thread's call; "seen" holds the answers its key has had since

vars == <<keys, call>>

Ops == {"insert", "delete", "find"}
Idle == [phase |-> "idle"]
Busy(op, k, seen) == [phase |-> op, key |-> k, seen |-> seen]
Done(res) == [phase |-> "done", res |-> res]

Init == keys = Prefill /\ call = [t \in Threads |-> Idle]

Invoke(t, op, k) ==
  /\ call[t] = Idle
  /\ call' = [call EXCEPT ![t] = Busy(op, k, {(k \in keys)})]
  /\ UNCHANGED keys

\* Every call under way on key k witnesses that its presence became b.
Witnessed(k, b) == [u \in Threads |->
  IF call[u].phase \in Ops /\ call[u].key = k
  THEN [call[u] EXCEPT !.seen = @ \cup {b}] ELSE call[u]]

Insert(t) ==
  /\ call[t].phase = "insert" /\ call[t].key \notin keys
  /\ keys' = keys \cup {call[t].key}
  /\ call' = [Witnessed(call[t].key, TRUE) EXCEPT ![t] = Done(TRUE)]

Delete(t) ==
  /\ call[t].phase = "delete" /\ call[t].key \in keys
  /\ keys' = keys \ {call[t].key}
  /\ call' = [Witnessed(call[t].key, FALSE) EXCEPT ![t] = Done(TRUE)]

\* find answers either way; insert refuses a key that was there, delete one
\* that was not.
Answer(t) ==
  /\ call[t].phase \in Ops
  /\ \E b \in call[t].seen :
       \/ call[t].phase = "find" /\ call' = [call EXCEPT ![t] = Done(b)]
       \/ /\ call[t].phase = (IF b THEN "insert" ELSE "delete")
          /\ call' = [call EXCEPT ![t] = Done(FALSE)]
  /\ UNCHANGED keys

Return(t) ==
  /\ call[t].phase = "done"
  /\ call' = [call EXCEPT ![t] = Idle]
  /\ UNCHANGED keys

Next == \E t \in Threads :
  \/ \E op \in Ops, k \in Keys : Invoke(t, op, k)
  \/ Insert(t) \/ Delete(t) \/ Answer(t) \/ Return(t)

Spec == Init /\ [][Next]_vars
=============================================================================
