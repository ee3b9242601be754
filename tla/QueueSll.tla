------------------------------ MODULE QueueSll ------------------------------
(***************************************************************************)
(* The list-based queue of src/lib/DS/Queues/QueueSLL/queueSLL.hpp, and of *)
(* QueueSLL_spin.hpp, whose enqueue and dequeue differ only in the lock    *)
(* type.                                                                   *)
(*                                                                         *)
(* Its node and its enqueue are the node and the insert of SLL_hand word   *)
(* for word, so the module extends HandOverHandList: the operation         *)
(* "insert" stands for enqueue and "removeFirst" for dequeue.  dequeue     *)
(* takes queueLock alone, not the lock of the node it unlinks.             *)
(***************************************************************************)
EXTENDS HandOverHandList

VARIABLES
  accepted,  \* history: how often each value's enqueue answered true
  taken      \* history: how often each value was dequeued

ledger == <<accepted, taken>>
qvars == <<vars, ledger>>

QInit ==
  /\ Init
  /\ accepted = [v \in Values |-> IF v \in Prefill THEN 1 ELSE 0]
  /\ taken = [v \in Values |-> 0]

Enqueue(t) ==
  /\ \/ InsertAtHead(t)
     \/ InsertHere(t)
     \/ InsertFinds(t)
  /\ accepted' = [accepted EXCEPT ![arg[t]] = IF ret'[t] = Empty THEN @ ELSE @ + 1]
  /\ UNCHANGED taken

\* Both branches of the code make head->next the new head, and neither waits
\* for the lock of the node it takes.
Dequeue(t) ==
  LET h == current[t] IN
  /\ op[t] = "removeFirst" /\ h \in Nodes
  /\ head' = NextOf(t) /\ live' = live \ {h}
  /\ FinishTop(t, data[h])
  /\ taken' = [taken EXCEPT ![data[h]] = @ + 1]
  /\ UNCHANGED <<nextNode, data, accepted>>

\* Waiting for a lock, walking, missing, crashing and returning.
Pass(t) ==
  /\ \/ LockList(t) \/ Hop(t) \/ Return(t)
     \/ pc[t] = "top" /\ (FindEmpty(t) \/ EnterList(t) \/ TopWild(t))
     \/ WalkWild(t)
  /\ UNCHANGED ledger

Call(t) ==
  /\ \/ \E v \in Values : RoomToInsert /\ Enter(t, "insert", v)
     \/ Enter(t, "removeFirst", Empty)
  /\ UNCHANGED ledger

QStep(t) == Dequeue(t) \/ Enqueue(t) \/ Pass(t)

QNext == \/ Finished /\ UNCHANGED qvars
         \/ ~Crashed /\ (\E t \in Threads : Call(t) \/ QStep(t)) /\ UNCHANGED scan

QSpec == QInit /\ [][QNext]_qvars
-----------------------------------------------------------------------------
Held(v) == IF v \in Elements THEN 1 ELSE 0

\* No value is dequeued twice or out of nothing: what was handed out and what
\* is still in the queue was enqueued, once for each time.
NothingTwice == \A v \in Values : taken[v] + Held(v) <= accepted[v]

\* What the validator's Test_2 and Test_5 compare after the threads have
\* finished: each accepted value was dequeued or is still there.
NothingLost ==
  (\A t \in Threads : pc[t] = "idle")
    => \A v \in Values : taken[v] + Held(v) = accepted[v]
=============================================================================
