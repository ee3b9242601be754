-------------------------- MODULE MsQueueTraversal --------------------------
(***************************************************************************)
(* The other operations of MsQueue (queueMS.hpp): size and find, which     *)
(* walk the list without a lock or a CAS, and empty, which calls size once *)
(* and then dequeue one time more than size answered.  They run beside the *)
(* enqueues and dequeues of module MsQueue, one load per step.             *)
(***************************************************************************)
EXTENDS MsQueue

VARIABLES
  op,      \* the operation of this module a thread is in
  cur,     \* its local current
  cnt,     \* counter of size
  todo,    \* dequeues empty() still has to make
  target,  \* the argument of find
  from,    \* history: where current started in linked
  seen     \* history: the length of linked when size met NULL

walk == <<op, cur, cnt, todo, target, from, seen>>
allVars == <<vars, walk>>

Ops == {"none", "size", "emptySize", "drain", "find", "found"}
Free(t) == pc[t] = "idle" /\ op[t] = "none"

TraversalInit ==
  /\ Init
  /\ op = [t \in Threads |-> "none"]
  /\ cur = [t \in Threads |-> Null]
  /\ cnt = [t \in Threads |-> 0]
  /\ todo = [t \in Threads |-> 0]
  /\ target = [t \in Threads |-> Empty]
  /\ from = [t \in Threads |-> 0]
  /\ seen = [t \in Threads |-> 0]

\* current = this->head, the first load of all three.
StartAt(t, o) ==
  /\ Free(t) /\ Count(t)
  /\ op' = [op EXCEPT ![t] = o]
  /\ cur' = [cur EXCEPT ![t] = head]
  /\ from' = [from EXCEPT ![t] = hpos]
  /\ UNCHANGED <<shared, pc, locals, history, cnt, todo, seen>>

StartSize(t) == StartAt(t, "size") /\ UNCHANGED target
StartEmpty(t) == StartAt(t, "emptySize") /\ UNCHANGED target
StartFind(t, v) == StartAt(t, "find") /\ target' = [target EXCEPT ![t] = v]

SizeStep(t) ==
  /\ op[t] \in {"size", "emptySize"} /\ cur[t] # Null
  /\ cur' = [cur EXCEPT ![t] = next[cur[t]]]
  /\ cnt' = [cnt EXCEPT ![t] = @ + 1]
  /\ seen' = [seen EXCEPT ![t] = Len(linked)]
  /\ UNCHANGED <<vars, op, todo, target, from>>

Forget(t, f, v) == f' = [f EXCEPT ![t] = v]

\* Slip: the counter survives the call, as a static one would.
SizeReturnStatic(t) ==
  /\ op[t] = "size" /\ cur[t] = Null
  /\ Forget(t, op, "none") /\ Forget(t, from, 0) /\ Forget(t, seen, 0)
  /\ UNCHANGED <<vars, cur, cnt, todo, target>>

SizeReturn(t) ==
  /\ op[t] = "size" /\ cur[t] = Null
  /\ Forget(t, op, "none") /\ Forget(t, cnt, 0)
  /\ Forget(t, from, 0) /\ Forget(t, seen, 0)
  /\ UNCHANGED <<vars, cur, todo, target>>

\* for(int i=0;i<=size;i++) this->dequeue();
EmptyLoop(t) ==
  /\ op[t] = "emptySize" /\ cur[t] = Null
  /\ op' = [op EXCEPT ![t] = "drain"]
  /\ todo' = [todo EXCEPT ![t] = cnt[t] + 1]
  /\ cnt' = [cnt EXCEPT ![t] = 0]
  /\ UNCHANGED <<vars, cur, target, from, seen>>

EmptyDequeue(t) ==
  /\ op[t] = "drain" /\ todo[t] > 0
  /\ StartDequeue(t)
  /\ todo' = [todo EXCEPT ![t] = @ - 1]
  /\ UNCHANGED <<calls, op, cur, cnt, target, from, seen>>

Drained(t) == op[t] = "drain" /\ todo[t] = 0 /\ pc[t] = "idle"

EmptyReturn(t) ==
  /\ Drained(t)
  /\ Forget(t, op, "none") /\ Forget(t, from, 0) /\ Forget(t, seen, 0)
  /\ UNCHANGED <<vars, cur, cnt, todo, target>>

(***************************************************************************)
(* find never moves current: it answers from the node that was the head or *)
(* it loops for ever on that node.                                         *)
(***************************************************************************)
FindMatch(t) ==
  /\ op[t] = "find" /\ data[cur[t]] = target[t]
  /\ op' = [op EXCEPT ![t] = "found"]
  /\ UNCHANGED <<vars, cur, cnt, todo, target, from, seen>>

\* Slip: find walks on, so that it also answers from behind the dummy.
FindSpinOn(t) ==
  /\ op[t] = "find" /\ data[cur[t]] # target[t]
  /\ cur' = [cur EXCEPT ![t] = IF next[@] = Null THEN @ ELSE next[@]]
  /\ UNCHANGED <<vars, op, cnt, todo, target, from, seen>>

FindSpin(t) ==
  /\ op[t] = "find" /\ data[cur[t]] # target[t]
  /\ UNCHANGED allVars

FindReturn(t) ==
  /\ op[t] = "found"
  /\ Forget(t, op, "none") /\ Forget(t, cur, Null)
  /\ Forget(t, target, Empty) /\ Forget(t, from, 0)
  /\ UNCHANGED <<vars, cnt, todo, seen>>

TraversalStep(t) ==
  \/ StartSize(t) \/ StartEmpty(t)
  \/ \E v \in Values \cup {Empty} : StartFind(t, v)
  \/ SizeStep(t) \/ SizeReturn(t)
  \/ EmptyLoop(t) \/ EmptyDequeue(t) \/ EmptyReturn(t)
  \/ FindMatch(t) \/ FindSpin(t) \/ FindReturn(t)

QueueStep(t) == (Step(t) \/ (Free(t) /\ Invoke(t))) /\ UNCHANGED walk

AllReturned == Finished /\ \A t \in Threads : op[t] = "none"
TraversalTerminating == AllReturned /\ UNCHANGED allVars

TraversalNext ==
  TraversalTerminating \/ \E t \in Threads : TraversalStep(t) \/ QueueStep(t)

TraversalSpec == TraversalInit /\ [][TraversalNext]_allVars

\* The operating system runs every thread.
FairTraversalSpec == TraversalSpec /\ \A t \in Threads :
  WF_allVars(TraversalStep(t) \/ QueueStep(t))

-----------------------------------------------------------------------------
Sized(t) == op[t] \in {"size", "emptySize"} /\ cur[t] = Null

\* size counts the nodes from the head it started at to the end of the list
\* it met, the dummy included, also the ones dequeued while it walked: it is
\* the number of elements plus one only when nobody dequeues meanwhile.
SizeCountsOneWalk == \A t \in Threads :
  Sized(t) => cnt[t] = seen[t] - from[t] + 1

\* empty() dequeues at least everything that was in the queue when its size()
\* met the end of the list, however many dequeues race with it.
EmptyDrains == \A t \in Threads : Drained(t) => hpos >= seen[t]

\* A find that answers found its value in a node that had already left the
\* queue (or found -1 in the constructor's dummy): the value of an element
\* still in the queue, one behind the dummy, is never found.
FindAnswersRemoved == \A t \in Threads :
  op[t] = "found" => \E i \in 1..hpos : linked[i] = cur[t]

\* Every call returns when the number of calls is bounded, except a find that
\* loops on the node it began with: a failed CAS means another call went on,
\* and size and empty() come to an end although the list grows under them.
EveryCallReturnsButFind == <>(\A t \in Threads :
  op[t] = "find" \/ (Free(t) /\ calls[t] = MaxCalls))

(***************************************************************************)
(* The inductive invariant: where a traversal stands in linked.            *)
(***************************************************************************)
WalkTypes ==
  /\ op \in [Threads -> Ops]
  /\ cur \in [Threads -> NodeOrNull]
  /\ cnt \in [Threads -> Nat] /\ todo \in [Threads -> Nat]
  /\ from \in [Threads -> Nat] /\ seen \in [Threads -> Nat]
  /\ target \in [Threads -> ValueOrEmpty]

Counting(t) == op[t] \in {"size", "emptySize"}

\* size has counted the nodes from where it started to before current.
SizeView(t) == Counting(t) =>
  /\ from[t] \in 1..hpos
  /\ cur[t] = Null => from[t] + cnt[t] = seen[t] + 1
  /\ cur[t] # Null => /\ from[t] + cnt[t] \in DOMAIN linked
                      /\ cur[t] = linked[from[t] + cnt[t]]

FindView(t) == op[t] \in {"find", "found"} =>
  from[t] \in 1..hpos /\ cur[t] = linked[from[t]]

\* The dequeues empty() still owes, the one under way included, take the head
\* to the end that size() met; one that is about to answer -1 is there.
DrainView(t) == op[t] = "drain" =>
  /\ pc[t] \in DequeuePCs \cup {"idle", "deqDone"}
  /\ hpos + todo[t] + (IF pc[t] \in DequeuePCs THEN 1 ELSE 0) >= seen[t]
  /\ pc[t] = "deqCheck" /\ nxt[t] = Null => hpos >= seen[t]

WalkerView(t) ==
  /\ op[t] \notin {"none", "drain"} => pc[t] = "idle"
  /\ ~Counting(t) => cnt[t] = 0
  /\ seen[t] <= Len(linked)
  /\ SizeView(t) /\ FindView(t) /\ DrainView(t)

TraversalInv == IInv /\ WalkTypes /\ \A t \in Threads : WalkerView(t)
=============================================================================
