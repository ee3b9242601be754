----------------------------- MODULE FifoQueue -----------------------------
(***************************************************************************)
(* What a concurrent FIFO queue promises its callers                       *)
(* (src/lib/DS/Queues/Queue.hpp).  The history of the queue is one         *)
(* sequence, log, of every value ever enqueued; the first taken of them    *)
(* have been dequeued.  Each call takes effect at one instant between its  *)
(* invocation and its return, so an implementation that refines Spec is    *)
(* linearizable: the n-th successful dequeue answers the n-th enqueue.     *)
(***************************************************************************)
EXTENDS Naturals, Sequences

CONSTANTS
  Threads,  \* callers of the queue
  Values,   \* what they enqueue
  Empty     \* what dequeue answers when it found nothing (-1 in the code)

VARIABLES
  log,      \* every value enqueued so far, in the order of the queue
  taken,    \* how many of them have been dequeued
  call      \* the call each thread is in, and its argument or its answer

vars == <<log, taken, call>>

Phases == {"idle", "enqueue", "enqueued", "dequeue", "dequeued", "sawEmpty"}

Call(phase, v) == [phase |-> phase, val |-> v]
Idle == Call("idle", Empty)

Init == log = <<>> /\ taken = 0 /\ call = [t \in Threads |-> Idle]

InvokeEnqueue(t, v) ==
  /\ call[t] = Idle
  /\ call' = [call EXCEPT ![t] = Call("enqueue", v)]
  /\ UNCHANGED <<log, taken>>

InvokeDequeue(t) ==
  /\ call[t] = Idle
  /\ call' = [call EXCEPT ![t] = Call("dequeue", Empty)]
  /\ UNCHANGED <<log, taken>>

Enqueue(t) ==
  /\ call[t].phase = "enqueue"
  /\ log' = Append(log, call[t].val)
  /\ call' = [call EXCEPT ![t] = Call("enqueued", Empty)]
  /\ UNCHANGED taken

Dequeue(t) ==
  /\ call[t].phase = "dequeue"
  /\ taken < Len(log)
  /\ taken' = taken + 1
  /\ call' = [call EXCEPT ![t] = Call("dequeued", log[taken + 1])]
  /\ UNCHANGED log

(***************************************************************************)
(* A dequeue may answer Empty only if the queue was empty at some instant  *)
(* of the call.  Having seen it empty it may still change its mind.        *)
(***************************************************************************)
SeeEmpty(t) ==
  /\ call[t].phase = "dequeue"
  /\ taken = Len(log)
  /\ call' = [call EXCEPT ![t] = Call("sawEmpty", Empty)]
  /\ UNCHANGED <<log, taken>>

Reconsider(t) ==
  /\ call[t].phase = "sawEmpty"
  /\ call' = [call EXCEPT ![t] = Call("dequeue", Empty)]
  /\ UNCHANGED <<log, taken>>

Return(t) ==
  /\ call[t].phase \in {"enqueued", "dequeued", "sawEmpty"}
  /\ call' = [call EXCEPT ![t] = Idle]
  /\ UNCHANGED <<log, taken>>

Next == \E t \in Threads :
  \/ \E v \in Values : InvokeEnqueue(t, v)
  \/ InvokeDequeue(t) \/ Enqueue(t) \/ Dequeue(t)
  \/ SeeEmpty(t) \/ Reconsider(t) \/ Return(t)

Spec == Init /\ [][Next]_vars
=============================================================================
