------------------------------ MODULE MsQueue ------------------------------
(***************************************************************************)
(* The Michael-Scott queue of src/lib/DS/Queues/Queue-Ms/queueMS.hpp.      *)
(*                                                                         *)
(* One action is one access to memory another thread can see: a load of    *)
(* head, tail or a next field, a load of data, or a CAS                    *)
(* (src/lib/includes/cas.hpp).  The code is built without optimisation for *)
(* x86, so every read of this->head and this->tail is a load of its own,   *)
(* loads keep their order, and all writes to shared memory are locked      *)
(* instructions: sequential consistency is what the build gives.  Nodes    *)
(* are never deleted, so an address is never used twice.                   *)
(*                                                                         *)
(* linked, hpos and tpos are history: every node ever linked, in order,    *)
(* and where head and tail stand in it.  No guard reads them but the one   *)
(* that picks a fresh address.                                             *)
(***************************************************************************)
EXTENDS Naturals, Sequences

CONSTANTS
  Threads,   \* threads that call the queue
  Values,    \* values they enqueue
  Nodes,     \* addresses of nodes; bounds how many nodes are ever allocated
  Null,      \* the NULL pointer
  Empty,     \* -1, the answer of dequeue on an empty queue
  MaxCalls   \* bound: how many calls each thread makes

ASSUME MsQueueAssumption ==
  /\ Null \notin Nodes
  /\ Empty \notin Values
  /\ Nodes # {}
  /\ MaxCalls \in Nat

VARIABLES
  head, tail,   \* this->head, this->tail
  next, data,   \* the fields of each node
  pc,           \* where each thread is
  node,         \* newnode of enqueue
  first, last,  \* locals of enqueue and dequeue
  nxt,          \* their local next
  ret,          \* ret_val of dequeue
  calls,        \* how many calls each thread has made
  linked, hpos, tpos

shared == <<head, tail, next, data>>
locals == <<node, first, last, nxt, ret>>
history == <<linked, hpos, tpos>>
vars == <<head, tail, next, data, pc, node, first, last, nxt, ret, calls,
          linked, hpos, tpos>>

EnqueuePCs == {"enqTail", "enqNext", "enqCheck", "enqLink", "enqSwing"}
DequeuePCs == {"deqHead", "deqTail", "deqNext", "deqCheck", "deqSwing",
               "deqData", "deqAdvance"}
PCs == {"idle", "enqDone", "deqDone"} \cup EnqueuePCs \cup DequeuePCs

LinkedNodes == {linked[i] : i \in DOMAIN linked}
Fresh == Nodes \ (LinkedNodes \cup {node[t] : t \in Threads})

(***************************************************************************)
(* The constructor: one dummy node, holding -1, is head and tail.          *)
(***************************************************************************)
Init ==
  /\ \E dummy \in Nodes :
       head = dummy /\ tail = dummy /\ linked = <<dummy>>
  /\ next = [n \in Nodes |-> Null]
  /\ data = [n \in Nodes |-> Empty]
  /\ hpos = 1 /\ tpos = 1
  /\ pc = [t \in Threads |-> "idle"]
  /\ node = [t \in Threads |-> Null]
  /\ first = [t \in Threads |-> Null]
  /\ last = [t \in Threads |-> Null]
  /\ nxt = [t \in Threads |-> Null]
  /\ ret = [t \in Threads |-> Empty]
  /\ calls = [t \in Threads |-> 0]

Goto(t, from, to) == pc[t] = from /\ pc' = [pc EXCEPT ![t] = to]

(***************************************************************************)
(* enqueue                                                                 *)
(***************************************************************************)
StartEnqueue(t, v) ==
  /\ Goto(t, "idle", "enqTail")
  /\ \E n \in Fresh :
       /\ node' = [node EXCEPT ![t] = n]
       /\ data' = [data EXCEPT ![n] = v]
       /\ next' = [next EXCEPT ![n] = Null]
  /\ UNCHANGED <<head, tail, first, last, nxt, ret, history>>

EnqReadTail(t) ==
  /\ Goto(t, "enqTail", "enqNext")
  /\ last' = [last EXCEPT ![t] = tail]
  /\ UNCHANGED <<shared, node, first, nxt, ret, calls, history>>

EnqReadNext(t) ==
  /\ Goto(t, "enqNext", "enqCheck")
  /\ nxt' = [nxt EXCEPT ![t] = next[last[t]]]
  /\ UNCHANGED <<shared, node, first, last, ret, calls, history>>

EnqCheck(t) ==
  /\ \/ Goto(t, "enqCheck", "enqTail") /\ last[t] # tail
     \/ Goto(t, "enqCheck", "enqLink") /\ last[t] = tail /\ nxt[t] = Null
     \/ Goto(t, "enqCheck", "enqSwing") /\ last[t] = tail /\ nxt[t] # Null
  /\ UNCHANGED <<shared, locals, calls, history>>

\* Slip: the node is linked by a plain store.
EnqLinkStore(t) ==
  /\ Goto(t, "enqLink", "enqDone")
  /\ next' = [next EXCEPT ![last[t]] = node[t]]
  /\ linked' = Append(linked, node[t])
  /\ UNCHANGED <<head, tail, data, locals, calls, hpos, tpos>>

EnqLink(t) ==
  /\ \/ /\ Goto(t, "enqLink", "enqDone")
        /\ next[last[t]] = nxt[t]
        /\ next' = [next EXCEPT ![last[t]] = node[t]]
        /\ linked' = Append(linked, node[t])
     \/ /\ Goto(t, "enqLink", "enqTail")
        /\ next[last[t]] # nxt[t]
        /\ UNCHANGED <<next, linked>>
  /\ UNCHANGED <<head, tail, data, locals, calls, hpos, tpos>>

\* Slip: the tail is moved by a plain store.
SwingTailStore(t) ==
  /\ tail' = nxt[t] /\ tpos' = tpos + 1
  /\ UNCHANGED <<head, next, data, locals, calls, linked, hpos>>

(***************************************************************************)
(* CAS(&this->tail, last, next): a thread helps a tail that lags behind.   *)
(***************************************************************************)
SwingTail(t) ==
  /\ \/ tail = last[t] /\ tail' = nxt[t] /\ tpos' = tpos + 1
     \/ tail # last[t] /\ UNCHANGED <<tail, tpos>>
  /\ UNCHANGED <<head, next, data, locals, calls, linked, hpos>>

\* Slip: enqueue waits for somebody else to move the tail.
EnqSwingNoHelp(t) ==
  Goto(t, "enqSwing", "enqTail") /\ UNCHANGED <<shared, locals, calls, history>>

EnqSwing(t) == Goto(t, "enqSwing", "enqTail") /\ SwingTail(t)

(***************************************************************************)
(* dequeue                                                                 *)
(***************************************************************************)
StartDequeue(t) ==
  /\ Goto(t, "idle", "deqHead")
  /\ UNCHANGED <<shared, locals, history>>

DeqReadHead(t) ==
  /\ Goto(t, "deqHead", "deqTail")
  /\ first' = [first EXCEPT ![t] = head]
  /\ UNCHANGED <<shared, node, last, nxt, ret, calls, history>>

DeqReadTail(t) ==
  /\ Goto(t, "deqTail", "deqNext")
  /\ last' = [last EXCEPT ![t] = tail]
  /\ UNCHANGED <<shared, node, first, nxt, ret, calls, history>>

DeqReadNext(t) ==
  /\ Goto(t, "deqNext", "deqCheck")
  /\ nxt' = [nxt EXCEPT ![t] = next[first[t]]]
  /\ UNCHANGED <<shared, node, first, last, ret, calls, history>>

\* Slip: first == last is taken for an empty queue without a look at next.
DeqCheckTailOnly(t) ==
  /\ \/ Goto(t, "deqCheck", "deqHead") /\ first[t] # head /\ UNCHANGED ret
     \/ /\ Goto(t, "deqCheck", "deqDone") /\ first[t] = head /\ first[t] = last[t]
        /\ ret' = [ret EXCEPT ![t] = Empty]
     \/ /\ Goto(t, "deqCheck", "deqData") /\ first[t] = head /\ first[t] # last[t]
        /\ UNCHANGED ret
  /\ UNCHANGED <<shared, node, first, last, nxt, calls, history>>

DeqCheck(t) ==
  /\ \/ /\ first[t] # head
        /\ Goto(t, "deqCheck", "deqHead")
        /\ UNCHANGED ret
     \/ /\ first[t] = head /\ first[t] = last[t] /\ nxt[t] = Null
        /\ Goto(t, "deqCheck", "deqDone")
        /\ ret' = [ret EXCEPT ![t] = Empty]
     \/ /\ first[t] = head /\ first[t] = last[t] /\ nxt[t] # Null
        /\ Goto(t, "deqCheck", "deqSwing")
        /\ UNCHANGED ret
     \/ /\ first[t] = head /\ first[t] # last[t]
        /\ Goto(t, "deqCheck", "deqData")
        /\ UNCHANGED ret
  /\ UNCHANGED <<shared, node, first, last, nxt, calls, history>>

DeqSwing(t) == Goto(t, "deqSwing", "deqHead") /\ SwingTail(t)

DeqReadData(t) ==
  /\ Goto(t, "deqData", "deqAdvance")
  /\ ret' = [ret EXCEPT ![t] = data[nxt[t]]]
  /\ UNCHANGED <<shared, node, first, last, nxt, calls, history>>

DeqAdvance(t) ==
  /\ \/ /\ head = first[t]
        /\ Goto(t, "deqAdvance", "deqDone")
        /\ head' = nxt[t]
        /\ hpos' = hpos + 1
     \/ /\ head # first[t]
        /\ Goto(t, "deqAdvance", "deqHead")
        /\ UNCHANGED <<head, hpos>>
  /\ UNCHANGED <<tail, next, data, locals, calls, linked, tpos>>

(***************************************************************************)
(* Either call returns; its locals go out of scope.                        *)
(***************************************************************************)
Return(t) ==
  /\ pc[t] \in {"enqDone", "deqDone"}
  /\ pc' = [pc EXCEPT ![t] = "idle"]
  /\ node' = [node EXCEPT ![t] = Null]
  /\ first' = [first EXCEPT ![t] = Null]
  /\ last' = [last EXCEPT ![t] = Null]
  /\ nxt' = [nxt EXCEPT ![t] = Null]
  /\ ret' = [ret EXCEPT ![t] = Empty]
  /\ UNCHANGED <<shared, calls, history>>

Step(t) ==
  \/ EnqReadTail(t) \/ EnqReadNext(t) \/ EnqCheck(t) \/ EnqLink(t) \/ EnqSwing(t)
  \/ DeqReadHead(t) \/ DeqReadTail(t) \/ DeqReadNext(t) \/ DeqCheck(t)
  \/ DeqSwing(t) \/ DeqReadData(t) \/ DeqAdvance(t)
  \/ Return(t)

Count(t) == calls[t] < MaxCalls /\ calls' = [calls EXCEPT ![t] = @ + 1]

Invoke(t) ==
  /\ Count(t)
  /\ StartDequeue(t) \/ \E v \in Values : StartEnqueue(t, v)

\* Every thread has made its calls and they have returned.
Finished == \A t \in Threads : pc[t] = "idle" /\ calls[t] = MaxCalls
Terminating == Finished /\ UNCHANGED vars

Next == Terminating \/ \E t \in Threads : Invoke(t) \/ Step(t)

Spec == Init /\ [][Next]_vars

\* The operating system runs every thread; a thread inside a call goes on.
Fairness == \A t \in Threads : WF_vars(Invoke(t)) /\ WF_vars(Step(t))
FairSpec == Spec /\ Fairness

-----------------------------------------------------------------------------
(***************************************************************************)
(* Properties.                                                             *)
(***************************************************************************)
NodeOrNull == Nodes \cup {Null}
ValueOrEmpty == Values \cup {Empty}

\* Type invariant of the queue's fields, the threads' locals and the history.
TypeOK ==
  /\ head \in Nodes /\ tail \in Nodes
  /\ next \in [Nodes -> NodeOrNull]
  /\ data \in [Nodes -> ValueOrEmpty]
  /\ pc \in [Threads -> PCs]
  /\ node \in [Threads -> NodeOrNull]
  /\ first \in [Threads -> NodeOrNull]
  /\ last \in [Threads -> NodeOrNull]
  /\ nxt \in [Threads -> NodeOrNull]
  /\ ret \in [Threads -> ValueOrEmpty]
  /\ calls \in [Threads -> 0..MaxCalls]
  /\ linked \in Seq(Nodes)
  /\ hpos \in Nat /\ tpos \in Nat

\* The list reached from the dummy by next pointers is exactly the nodes ever
\* linked, in the order of linking, without a repetition, and ends in NULL.
ChainIsHistory ==
  /\ \A i \in DOMAIN linked :
       next[linked[i]] = IF i = Len(linked) THEN Null ELSE linked[i + 1]
  /\ \A i, j \in DOMAIN linked : linked[i] = linked[j] => i = j

\* Head and tail stay on that list, the head never overtakes the tail (which
\* would let a dequeued node be linked to), and the tail lags by one at most.
HeadBehindTail ==
  /\ hpos \in 1..tpos
  /\ tpos \in 1..Len(linked) /\ Len(linked) <= tpos + 1
  /\ head = linked[hpos] /\ tail = linked[tpos]

\* No thread follows NULL: last->next and first->next are read from a node,
\* and next->data only when the list has a successor to the head.
NoNullDereference == \A t \in Threads :
  /\ pc[t] \in {"enqNext", "enqLink"} => last[t] # Null
  /\ pc[t] = "deqNext" => first[t] # Null
  /\ pc[t] = "deqData" => nxt[t] # Null

\* What the callers' interleavings must not break: the list, the place of head
\* and tail in it, and the pointers the threads are about to follow.
ListIsSound == ChainIsHistory /\ HeadBehindTail /\ NoNullDereference

WritesOnce ==
  /\ \A n \in LinkedNodes :
       data'[n] = data[n] /\ (next[n] # Null => next'[n] = next[n])
  /\ head' \in {head, next[head]} /\ tail' \in {tail, next[tail]}

\* A node of the list keeps its value and its successor for ever, and head
\* and tail only move to the next node: a thread that holds an old pointer
\* still walks the same list.
ListIsWriteOnce == [][WritesOnce]_vars

\* Every call returns when the number of calls is bounded: a CAS fails only
\* because another thread's CAS succeeded, so nobody can retry for ever.
EveryCallReturns == <>Finished

(***************************************************************************)
(* The inductive invariant: what a thread's locals still say about a list  *)
(* that other threads have changed since it read them.                     *)
(***************************************************************************)
ReadLast == {"enqNext", "enqCheck", "enqLink", "enqSwing"}
ReadFirst == {"deqTail", "deqNext", "deqCheck", "deqSwing", "deqData", "deqAdvance"}
ReadBoth == ReadFirst \ {"deqTail"}
ReadNext == ReadBoth \ {"deqNext"}

\* Every node but the first dummy carries a value.
LinkedCarryValues == \A i \in DOMAIN linked : i > 1 => data[linked[i]] \in Values

\* The new node of an enqueue is on no list, and no two threads share one.
NewNodesPrivate ==
  /\ \A t \in Threads : pc[t] \in EnqueuePCs =>
       /\ node[t] \in Nodes \ LinkedNodes
       /\ next[node[t]] = Null /\ data[node[t]] \in Values
  /\ \A t, u \in Threads : node[t] = node[u] /\ node[t] # Null => t = u

\* An enqueuer's last is on the list, not after the tail; what it read from
\* last->next is still there unless it was NULL.
EnqueuerView(t) ==
  /\ pc[t] \in ReadLast => \E i \in 1..tpos : last[t] = linked[i]
  /\ pc[t] \in {"enqCheck", "enqSwing"} => nxt[t] \in {Null, next[last[t]]}
  /\ pc[t] = "enqLink" => nxt[t] = Null
  /\ pc[t] = "enqSwing" => nxt[t] # Null

\* A dequeuer's first is on the list, not after the head, and its last not
\* before its first; so unless they are the same node first has a successor.
DequeuerView(t) ==
  /\ pc[t] \in ReadFirst => \E i \in 1..hpos :
       /\ first[t] = linked[i]
       /\ pc[t] \in ReadBoth => \E j \in i..tpos : last[t] = linked[j]
  /\ pc[t] \in ReadNext =>
       /\ nxt[t] \in {Null, next[first[t]]}
       /\ nxt[t] = Null => first[t] = last[t]
  /\ pc[t] = "deqSwing" => first[t] = last[t] /\ nxt[t] # Null
  /\ pc[t] \in {"deqData", "deqAdvance"} => first[t] # last[t]
  /\ pc[t] = "deqAdvance" => ret[t] = data[nxt[t]]

IInv ==
  /\ TypeOK /\ ChainIsHistory /\ HeadBehindTail
  /\ LinkedCarryValues /\ NewNodesPrivate
  /\ \A t \in Threads : EnqueuerView(t) /\ DequeuerView(t)

(***************************************************************************)
(* The refinement mapping: an enqueue takes effect when it links its node, *)
(* a dequeue when it moves the head, and an empty dequeue when it reads    *)
(* the NULL next of the node that was both head and tail.                  *)
(***************************************************************************)
SeesEmpty(t) ==
  \/ pc[t] = "deqCheck" /\ first[t] = last[t] /\ nxt[t] = Null
  \/ pc[t] = "deqDone" /\ ret[t] = Empty

CallOf(t) ==
  CASE pc[t] = "idle"        -> [phase |-> "idle", val |-> Empty]
    [] pc[t] \in EnqueuePCs  -> [phase |-> "enqueue", val |-> data[node[t]]]
    [] pc[t] = "enqDone"     -> [phase |-> "enqueued", val |-> Empty]
    [] SeesEmpty(t)          -> [phase |-> "sawEmpty", val |-> Empty]
    [] pc[t] = "deqDone" /\ ret[t] # Empty
                             -> [phase |-> "dequeued", val |-> ret[t]]
    [] pc[t] \in DequeuePCs /\ ~SeesEmpty(t)
                             -> [phase |-> "dequeue", val |-> Empty]

LogOfList == [i \in 1..(Len(linked) - 1) |-> data[linked[i + 1]]]
CallsOfThreads == [t \in Threads |-> CallOf(t)]

Fifo == INSTANCE FifoQueue WITH
  log <- LogOfList, taken <- hpos - 1, call <- CallsOfThreads

\* The queue is a linearizable FIFO: whatever the interleaving, the n-th
\* successful dequeue answers the value of the n-th node linked, and -1 is
\* answered only by a dequeue during which the queue was empty.
RefinesFifo == Fifo!Spec
=============================================================================
