---------------------------- MODULE MsQueueProofs ----------------------------
(***************************************************************************)
(* Proofs about the Michael-Scott queue, for any set of threads, values    *)
(* and nodes and any number of calls: its invariant, that it implements    *)
(* FifoQueue, and the same beside threads that walk along its list.        *)
(***************************************************************************)
EXTENDS MsQueueTraversal, TLAPS

USE DEF NodeOrNull, ValueOrEmpty

-----------------------------------------------------------------------------
(***************************************************************************)
(* What every step does to the list and to the threads that do not take    *)
(* it: the list only grows, head and tail only move forward, and the nodes *)
(* of the list keep their value and their successor.                       *)
(***************************************************************************)
ListGrows ==
  /\ Len(linked) <= Len(linked')
  /\ \A i \in DOMAIN linked : linked'[i] = linked[i]
  /\ hpos <= hpos' /\ tpos <= tpos'
  /\ \A n \in LinkedNodes :
       data'[n] = data[n] /\ (next[n] # Null => next'[n] = next[n])

LocalsKept(u) ==
  /\ pc'[u] = pc[u] /\ node'[u] = node[u] /\ ret'[u] = ret[u]
  /\ first'[u] = first[u] /\ last'[u] = last[u] /\ nxt'[u] = nxt[u]

\* The list part of the invariant.
ListInv == TypeOK /\ ChainIsHistory /\ HeadBehindTail

\* A thread that keeps its locals keeps its view of a list that grows.
LEMMA ViewsSurvive ==
  ASSUME IInv, ListInv', ListGrows, NEW u \in Threads, LocalsKept(u)
  PROVE  EnqueuerView(u)' /\ DequeuerView(u)'
<1> USE DEF IInv, ListInv, LocalsKept
<1>1. linked \in Seq(Nodes) /\ linked' \in Seq(Nodes) /\ hpos \in Nat /\ tpos \in Nat
      /\ hpos' \in Nat /\ tpos' \in Nat
  BY DEF TypeOK
<1>2. hpos <= tpos /\ tpos <= Len(linked) /\ hpos' <= tpos' /\ tpos' <= Len(linked')
  BY <1>1 DEF HeadBehindTail
<1>3. \A i \in 1..Len(linked) : linked[i] \in LinkedNodes /\ linked'[i] = linked[i]
  BY <1>1 DEF LinkedNodes, ListGrows
<1>4. \A n \in LinkedNodes :
        data'[n] = data[n] /\ (next[n] # Null => next'[n] = next[n])
  BY DEF ListGrows
<1>5. hpos <= hpos' /\ tpos <= tpos'
  BY DEF ListGrows
<1>6. EnqueuerView(u)'
  <2>1. pc[u] \in ReadLast => \E i \in 1..tpos : last[u] = linked[i]
    BY DEF EnqueuerView
  <2>2. pc[u] \in ReadLast => \E i \in 1..tpos' : last[u] = linked'[i]
    BY <2>1, <1>1, <1>2, <1>3, <1>5
  <2>3. pc[u] \in ReadLast => last[u] \in LinkedNodes
    BY <2>1, <1>1, <1>2, <1>3
  <2>4. pc[u] \in {"enqCheck", "enqSwing"} => nxt[u] \in {Null, next'[last[u]]}
    BY <2>3, <1>4 DEF EnqueuerView, ReadLast
  <2>5. QED
    BY <2>2, <2>4 DEF EnqueuerView
<1>7. DequeuerView(u)'
  <2>1. ASSUME pc[u] \in ReadFirst
        PROVE  /\ \E i \in 1..hpos' :
                    /\ first[u] = linked'[i]
                    /\ pc[u] \in ReadBoth => \E j \in i..tpos' : last[u] = linked'[j]
               /\ first[u] \in LinkedNodes
    <3>1. PICK i \in 1..hpos :
            /\ first[u] = linked[i]
            /\ pc[u] \in ReadBoth => \E j \in i..tpos : last[u] = linked[j]
      BY <2>1 DEF DequeuerView
    <3>2. i \in 1..hpos' /\ first[u] = linked'[i] /\ first[u] \in LinkedNodes
      BY <3>1, <1>1, <1>2, <1>3, <1>5
    <3>3. ASSUME pc[u] \in ReadBoth PROVE \E j \in i..tpos' : last[u] = linked'[j]
      BY <3>1, <3>3, <1>1, <1>2, <1>3, <1>5
    <3>4. QED
      BY <3>2, <3>3
  <2>2. ASSUME pc[u] \in ReadNext
        PROVE  nxt[u] \in {Null, next'[first[u]]} /\ (nxt[u] = Null => first[u] = last[u])
    BY <2>1, <2>2, <1>4 DEF DequeuerView, ReadNext, ReadBoth
  <2>3. ASSUME pc[u] = "deqAdvance" PROVE ret[u] = data'[nxt[u]]
    <3>1. PICK i \in 1..hpos : /\ first[u] = linked[i]
                               /\ \E j \in i..tpos : last[u] = linked[j]
      BY <2>3 DEF DequeuerView, ReadFirst, ReadBoth
    <3>2. i < Len(linked) /\ first[u] # last[u]
      BY <2>3, <3>1, <1>1, <1>2 DEF DequeuerView
    <3>3. next[first[u]] = linked[i + 1]
      BY <3>1, <3>2, <1>1 DEF ChainIsHistory
    <3>4. nxt[u] = linked[i + 1]
      BY <2>3, <3>2, <3>3 DEF DequeuerView, ReadNext, ReadBoth, ReadFirst
    <3>5. nxt[u] \in LinkedNodes
      BY <3>2, <3>4, <1>1, <1>3
    <3>6. QED
      BY <2>3, <3>5, <1>4 DEF DequeuerView
  <2>4. QED
    BY <2>1, <2>2, <2>3 DEF DequeuerView
<1>8. QED
  BY <1>6, <1>7

\* Init establishes the inductive invariant.
LEMMA InitInvariant == Init => IInv
<1> SUFFICES ASSUME Init PROVE IInv
  OBVIOUS
<1> USE MsQueueAssumption DEF Init
<1>1. TypeOK
  BY DEF TypeOK, PCs
<1>2. Len(linked) = 1 /\ DOMAIN linked = {1} /\ linked[1] = head /\ head = tail
  OBVIOUS
<1>3. ChainIsHistory
  BY <1>2, <1>1 DEF ChainIsHistory, TypeOK
<1>4. HeadBehindTail
  BY <1>2 DEF HeadBehindTail
<1>5. LinkedCarryValues /\ NewNodesPrivate
  BY <1>2 DEF LinkedCarryValues, NewNodesPrivate, EnqueuePCs
<1>6. ASSUME NEW t \in Threads PROVE EnqueuerView(t) /\ DequeuerView(t)
  BY DEF EnqueuerView, DequeuerView, ReadLast, ReadFirst, ReadBoth, ReadNext
<1>7. QED
  BY <1>1, <1>3, <1>4, <1>5, <1>6 DEF IInv

\* Most steps of a thread t write only its own locals.
LEMMA LocalStep ==
  ASSUME IInv, NEW t \in Threads,
         UNCHANGED <<shared, node, history>>, TypeOK',
         \A u \in Threads \ {t} : LocalsKept(u),
         pc'[t] \in EnqueuePCs => pc[t] \in EnqueuePCs,
         EnqueuerView(t)', DequeuerView(t)'
  PROVE  IInv'
<1> USE DEF shared, history
<1>1. ListInv' /\ ListGrows
  BY DEF IInv, ListInv, TypeOK, ChainIsHistory, HeadBehindTail, ListGrows
<1>2. LinkedCarryValues'
  BY DEF IInv, LinkedCarryValues
<1>3. NewNodesPrivate'
  BY DEF IInv, NewNodesPrivate, LinkedNodes, LocalsKept
<1>4. ASSUME NEW u \in Threads PROVE EnqueuerView(u)' /\ DequeuerView(u)'
  BY <1>1, ViewsSurvive
<1>5. QED
  BY <1>1, <1>2, <1>3, <1>4 DEF IInv, ListInv

LEMMA EnqReadTailStep ==
  ASSUME IInv, NEW t \in Threads, EnqReadTail(t) PROVE IInv'
<1> USE DEF EnqReadTail, Goto
<1>1. TypeOK'
  BY DEF IInv, TypeOK, PCs, EnqueuePCs, shared, history
<1>2. tail = linked[tpos] /\ tpos \in 1..tpos
  BY DEF IInv, HeadBehindTail
<1>3. EnqueuerView(t)' /\ DequeuerView(t)'
  BY <1>2 DEF IInv, TypeOK, EnqueuerView, DequeuerView,
              ReadLast, ReadFirst, ReadBoth, ReadNext, history
<1>4. \A u \in Threads \ {t} : LocalsKept(u)
  BY DEF LocalsKept, IInv, TypeOK
<1>5. QED
  BY <1>1, <1>3, <1>4, LocalStep DEF IInv, TypeOK, EnqueuePCs

LEMMA EnqReadNextStep ==
  ASSUME IInv, NEW t \in Threads, EnqReadNext(t) PROVE IInv'
<1> USE DEF EnqReadNext, Goto
<1>1. PICK i \in 1..tpos : last[t] = linked[i]
  BY DEF IInv, EnqueuerView, ReadLast
<1>2. last[t] \in Nodes
  BY <1>1 DEF IInv, TypeOK, HeadBehindTail
<1>3. TypeOK'
  BY <1>2 DEF IInv, TypeOK, PCs, EnqueuePCs, shared, history
<1>4. EnqueuerView(t)' /\ DequeuerView(t)'
  BY <1>1, <1>2 DEF IInv, TypeOK, EnqueuerView, DequeuerView,
                    ReadLast, ReadFirst, ReadBoth, ReadNext, history, shared
<1>5. \A u \in Threads \ {t} : LocalsKept(u)
  BY DEF LocalsKept, IInv, TypeOK
<1>6. QED
  BY <1>3, <1>4, <1>5, LocalStep DEF IInv, TypeOK, EnqueuePCs

LEMMA EnqCheckStep ==
  ASSUME IInv, NEW t \in Threads, EnqCheck(t) PROVE IInv'
<1> USE DEF EnqCheck, Goto
<1>1. TypeOK'
  BY DEF IInv, TypeOK, PCs, EnqueuePCs, shared, history, locals
<1>2. EnqueuerView(t)' /\ DequeuerView(t)'
  BY DEF IInv, TypeOK, EnqueuerView, DequeuerView,
         ReadLast, ReadFirst, ReadBoth, ReadNext, history, shared, locals
<1>3. \A u \in Threads \ {t} : LocalsKept(u)
  BY DEF LocalsKept, IInv, TypeOK, locals
<1>4. QED
  BY <1>1, <1>2, <1>3, LocalStep DEF IInv, TypeOK, EnqueuePCs, locals

LEMMA StartDequeueStep ==
  ASSUME IInv, NEW t \in Threads, StartDequeue(t), calls' \in [Threads -> 0..MaxCalls]
  PROVE  IInv'
<1> USE DEF StartDequeue, Goto
<1>1. TypeOK'
  BY DEF IInv, TypeOK, PCs, DequeuePCs, shared, history, locals
<1>2. EnqueuerView(t)' /\ DequeuerView(t)'
  BY DEF IInv, TypeOK, EnqueuerView, DequeuerView, ReadLast, ReadFirst, ReadBoth, ReadNext
<1>3. \A u \in Threads \ {t} : LocalsKept(u)
  BY DEF LocalsKept, IInv, TypeOK, locals
<1>4. QED
  BY <1>1, <1>2, <1>3, LocalStep DEF IInv, TypeOK, EnqueuePCs, locals

LEMMA DeqReadHeadStep ==
  ASSUME IInv, NEW t \in Threads, DeqReadHead(t) PROVE IInv'
<1> USE DEF DeqReadHead, Goto
<1>1. TypeOK'
  BY DEF IInv, TypeOK, PCs, DequeuePCs, shared, history
<1>2. head = linked[hpos] /\ hpos \in 1..hpos
  BY DEF IInv, HeadBehindTail, TypeOK
<1>3. EnqueuerView(t)' /\ DequeuerView(t)'
  BY <1>2 DEF IInv, TypeOK, EnqueuerView, DequeuerView,
              ReadLast, ReadFirst, ReadBoth, ReadNext, history
<1>4. \A u \in Threads \ {t} : LocalsKept(u)
  BY DEF LocalsKept, IInv, TypeOK
<1>5. QED
  BY <1>1, <1>3, <1>4, LocalStep DEF IInv, TypeOK, EnqueuePCs

LEMMA DeqReadTailStep ==
  ASSUME IInv, NEW t \in Threads, DeqReadTail(t) PROVE IInv'
<1> USE DEF DeqReadTail, Goto
<1>1. TypeOK'
  BY DEF IInv, TypeOK, PCs, DequeuePCs, shared, history
<1>2. PICK i \in 1..hpos : first[t] = linked[i]
  BY DEF IInv, DequeuerView, ReadFirst
<1>3. tail = linked[tpos] /\ tpos \in i..tpos
  BY DEF IInv, HeadBehindTail, TypeOK
<1>4. EnqueuerView(t)' /\ DequeuerView(t)'
  BY <1>2, <1>3 DEF IInv, TypeOK, EnqueuerView, DequeuerView,
                    ReadLast, ReadFirst, ReadBoth, ReadNext, history
<1>5. \A u \in Threads \ {t} : LocalsKept(u)
  BY DEF LocalsKept, IInv, TypeOK
<1>6. QED
  BY <1>1, <1>4, <1>5, LocalStep DEF IInv, TypeOK, EnqueuePCs

\* first->next is NULL only when first is the last node, so first == last.
LEMMA DeqReadNextStep ==
  ASSUME IInv, NEW t \in Threads, DeqReadNext(t) PROVE IInv'
<1> USE DEF DeqReadNext, Goto
<1>1. PICK i \in 1..hpos : first[t] = linked[i] /\ \E j \in i..tpos : last[t] = linked[j]
  BY DEF IInv, DequeuerView, ReadFirst, ReadBoth
<1>2. PICK j \in i..tpos : last[t] = linked[j]
  BY <1>1
<1>3. i \in DOMAIN linked /\ j \in DOMAIN linked /\ first[t] \in Nodes
  BY <1>1, <1>2 DEF IInv, TypeOK, HeadBehindTail
<1>4. next[first[t]] = Null => first[t] = last[t]
  <2>1. next[first[t]] = IF i = Len(linked) THEN Null ELSE linked[i + 1]
    BY <1>1, <1>3 DEF IInv, ChainIsHistory
  <2>2. i # Len(linked) => linked[i + 1] \in Nodes
    BY <1>3 DEF IInv, TypeOK
  <2>3. j \in i..Len(linked)
    BY <1>2 DEF IInv, TypeOK, HeadBehindTail
  <2>4. QED
    BY <1>1, <1>2, <2>1, <2>2, <2>3, MsQueueAssumption DEF IInv, TypeOK
<1>5. TypeOK'
  BY <1>3 DEF IInv, TypeOK, PCs, DequeuePCs, shared, history
<1>6. EnqueuerView(t)' /\ DequeuerView(t)'
  BY <1>1, <1>4 DEF IInv, TypeOK, EnqueuerView, DequeuerView,
                    ReadLast, ReadFirst, ReadBoth, ReadNext, history, shared
<1>7. \A u \in Threads \ {t} : LocalsKept(u)
  BY DEF LocalsKept, IInv, TypeOK
<1>8. QED
  BY <1>5, <1>6, <1>7, LocalStep DEF IInv, TypeOK, EnqueuePCs

LEMMA DeqCheckStep ==
  ASSUME IInv, NEW t \in Threads, DeqCheck(t) PROVE IInv'
<1> USE DEF DeqCheck, Goto
<1>1. TypeOK'
  BY DEF IInv, TypeOK, PCs, DequeuePCs, shared, history
<1>2. EnqueuerView(t)'
  BY DEF IInv, TypeOK, EnqueuerView, ReadLast
<1>3. DequeuerView(t)'
  <2>1. PICK i \in 1..hpos : first[t] = linked[i] /\ \E j \in i..tpos : last[t] = linked[j]
    BY DEF IInv, DequeuerView, ReadFirst, ReadBoth
  <2>2. nxt[t] \in {Null, next[first[t]]} /\ (nxt[t] = Null => first[t] = last[t])
    BY DEF IInv, DequeuerView, ReadFirst, ReadBoth, ReadNext
  <2>3. UNCHANGED <<first, last, nxt, next, linked, hpos, tpos>>
    BY DEF history, shared
  <2>4. pc'[t] \in {"deqHead", "deqDone", "deqSwing", "deqData"}
    BY DEF IInv, TypeOK
  <2>5. /\ pc'[t] = "deqSwing" => first[t] = last[t] /\ nxt[t] # Null
        /\ pc'[t] = "deqData" => first[t] # last[t]
    BY DEF IInv, TypeOK
  <2>6. QED
    BY <2>1, <2>2, <2>3, <2>4, <2>5 DEF DequeuerView, ReadFirst, ReadBoth, ReadNext
<1>4. \A u \in Threads \ {t} : LocalsKept(u)
  BY DEF LocalsKept, IInv, TypeOK
<1>5. QED
  BY <1>1, <1>2, <1>3, <1>4, LocalStep DEF IInv, TypeOK, EnqueuePCs

\* What a dequeuer that found first # last knows about its nodes.
LEMMA SuccessorKnown ==
  ASSUME IInv, NEW t \in Threads, pc[t] \in {"deqData", "deqAdvance"}
  PROVE  \E i \in 1..hpos : /\ i < tpos
                            /\ first[t] = linked[i] /\ nxt[t] = linked[i + 1]
<1>1. PICK i \in 1..hpos : first[t] = linked[i] /\ \E j \in i..tpos : last[t] = linked[j]
  BY DEF IInv, DequeuerView, ReadFirst, ReadBoth
<1>2. first[t] # last[t]
  BY DEF IInv, DequeuerView
<1>3. i < tpos /\ i < Len(linked)
  BY <1>1, <1>2 DEF IInv, TypeOK, HeadBehindTail
<1>4. next[first[t]] = linked[i + 1]
  BY <1>1, <1>3 DEF IInv, ChainIsHistory, TypeOK
<1>5. nxt[t] = linked[i + 1]
  BY <1>2, <1>4 DEF IInv, DequeuerView, ReadNext, ReadBoth, ReadFirst
<1>6. QED
  BY <1>1, <1>3, <1>5

LEMMA DeqReadDataStep ==
  ASSUME IInv, NEW t \in Threads, DeqReadData(t) PROVE IInv'
<1> USE DEF DeqReadData, Goto
<1>1. nxt[t] \in Nodes
  <2>1. PICK i \in 1..hpos : i < tpos /\ nxt[t] = linked[i + 1]
    BY SuccessorKnown
  <2>2. QED
    BY <2>1 DEF IInv, TypeOK, HeadBehindTail
<1>2. TypeOK'
  BY <1>1 DEF IInv, TypeOK, PCs, DequeuePCs, shared, history
<1>3. EnqueuerView(t)'
  BY DEF IInv, TypeOK, EnqueuerView, ReadLast
<1>4. DequeuerView(t)'
  <2>1. PICK i \in 1..hpos : first[t] = linked[i] /\ \E j \in i..tpos : last[t] = linked[j]
    BY DEF IInv, DequeuerView, ReadFirst, ReadBoth
  <2>2. nxt[t] \in {Null, next[first[t]]} /\ first[t] # last[t]
        /\ (nxt[t] = Null => first[t] = last[t])
    BY DEF IInv, DequeuerView, ReadFirst, ReadBoth, ReadNext
  <2>3. UNCHANGED <<first, last, nxt, next, data, linked, hpos, tpos>>
    BY DEF history, shared
  <2>4. pc'[t] = "deqAdvance" /\ ret'[t] = data[nxt[t]]
    BY DEF IInv, TypeOK
  <2>5. QED
    BY <2>1, <2>2, <2>3, <2>4 DEF DequeuerView, ReadFirst, ReadBoth, ReadNext
<1>5. \A u \in Threads \ {t} : LocalsKept(u)
  BY DEF LocalsKept, IInv, TypeOK
<1>6. QED
  BY <1>2, <1>3, <1>4, <1>5, LocalStep DEF IInv, TypeOK, EnqueuePCs

-----------------------------------------------------------------------------
(***************************************************************************)
(* The steps that write shared memory.                                     *)
(***************************************************************************)

\* Whoever keeps its locals keeps its view; what is left to show of a step
\* of thread t is the list, the private nodes and the view of t itself.
LEMMA SharedStep ==
  ASSUME IInv, NEW t \in Threads, ListInv', ListGrows,
         \A u \in Threads \ {t} : LocalsKept(u),
         LinkedCarryValues', NewNodesPrivate',
         EnqueuerView(t)', DequeuerView(t)'
  PROVE  IInv'
<1>1. ASSUME NEW u \in Threads PROVE EnqueuerView(u)' /\ DequeuerView(u)'
  BY ViewsSurvive
<1>2. QED
  BY <1>1 DEF IInv, ListInv

LEMMA StartEnqueueStep ==
  ASSUME IInv, NEW t \in Threads, NEW v \in Values, StartEnqueue(t, v),
         calls' \in [Threads -> 0..MaxCalls]
  PROVE  IInv'
<1> USE DEF Goto
<1>1. PICK n \in Fresh : /\ node' = [node EXCEPT ![t] = n]
                         /\ data' = [data EXCEPT ![n] = v]
                         /\ next' = [next EXCEPT ![n] = Null]
  BY DEF StartEnqueue
<1>2. /\ pc[t] = "idle" /\ pc' = [pc EXCEPT ![t] = "enqTail"]
      /\ UNCHANGED <<head, tail, first, last, nxt, ret, linked, hpos, tpos>>
  BY DEF StartEnqueue, history
<1>3. n \in Nodes /\ n \notin LinkedNodes /\ \A u \in Threads : node[u] # n
  BY DEF Fresh
<1>4. \A i \in DOMAIN linked : linked[i] # n /\ linked[i] \in Nodes
  BY <1>3 DEF LinkedNodes, IInv, TypeOK
<1>5. TypeOK'
  BY <1>1, <1>2, <1>3 DEF IInv, TypeOK, PCs, EnqueuePCs
<1>6. ChainIsHistory' /\ LinkedCarryValues'
  BY <1>1, <1>2, <1>4 DEF IInv, TypeOK, ChainIsHistory, LinkedCarryValues
<1>7. HeadBehindTail'
  BY <1>2 DEF IInv, HeadBehindTail
<1>8. ListGrows
  BY <1>1, <1>2, <1>3 DEF ListGrows, IInv, TypeOK, LinkedNodes
<1>9. NewNodesPrivate'
  <2>1. ASSUME NEW u \in Threads, pc'[u] \in EnqueuePCs
        PROVE  /\ node'[u] \in Nodes /\ node'[u] \notin LinkedNodes'
               /\ next'[node'[u]] = Null /\ data'[node'[u]] \in Values
    <3>1. CASE u = t
      BY <3>1, <1>1, <1>2, <1>3 DEF IInv, TypeOK, LinkedNodes
    <3>2. CASE u # t
      <4>1. /\ node[u] \in Nodes /\ node[u] \notin LinkedNodes
            /\ next[node[u]] = Null /\ data[node[u]] \in Values
        BY <3>2, <2>1, <1>2 DEF IInv, TypeOK, NewNodesPrivate
      <4>2. QED
        BY <4>1, <3>2, <1>1, <1>2, <1>3 DEF IInv, TypeOK, LinkedNodes
    <3>3. QED
      BY <3>1, <3>2
  <2>2. \A u, w \in Threads : node'[u] = node'[w] /\ node'[u] # Null => u = w
    BY <1>1, <1>3 DEF IInv, TypeOK, NewNodesPrivate
  <2>3. QED
    BY <2>1, <2>2 DEF NewNodesPrivate
<1>10. EnqueuerView(t)' /\ DequeuerView(t)'
  BY <1>2 DEF EnqueuerView, DequeuerView, ReadLast, ReadFirst, ReadBoth, ReadNext,
              IInv, TypeOK
<1>11. \A u \in Threads \ {t} : LocalsKept(u)
  BY <1>1, <1>2 DEF LocalsKept, IInv, TypeOK
<1>12. QED
  BY <1>5, <1>6, <1>7, <1>8, <1>9, <1>10, <1>11, SharedStep DEF ListInv

LEMMA ReturnStep ==
  ASSUME IInv, NEW t \in Threads, Return(t) PROVE IInv'
<1> USE DEF Return, shared, history
<1>1. TypeOK'
  BY DEF IInv, TypeOK, PCs
<1>2. ListInv' /\ ListGrows /\ LinkedCarryValues'
  BY <1>1 DEF IInv, ListInv, TypeOK, ChainIsHistory, HeadBehindTail, ListGrows,
              LinkedCarryValues
<1>3. NewNodesPrivate'
  BY DEF IInv, TypeOK, NewNodesPrivate, LinkedNodes, EnqueuePCs
<1>4. EnqueuerView(t)' /\ DequeuerView(t)'
  BY DEF EnqueuerView, DequeuerView, ReadLast, ReadFirst, ReadBoth, ReadNext,
         IInv, TypeOK
<1>5. \A u \in Threads \ {t} : LocalsKept(u)
  BY DEF LocalsKept, IInv, TypeOK
<1>6. QED
  BY <1>2, <1>3, <1>4, <1>5, SharedStep

\* A successful CAS on last->next finds last at the end of the list, and then
\* the tail, which is not before last, is there as well.
LEMMA EnqLinkStep ==
  ASSUME IInv, NEW t \in Threads, EnqLink(t) PROVE IInv'
<1> USE DEF Goto
<1>1. CASE next[last[t]] # nxt[t]
  <2>1. /\ pc[t] = "enqLink" /\ pc' = [pc EXCEPT ![t] = "enqTail"]
        /\ UNCHANGED <<shared, locals, calls, history>>
    BY <1>1 DEF EnqLink, shared, locals, history
  <2>2. TypeOK'
    BY <2>1 DEF IInv, TypeOK, PCs, EnqueuePCs, shared, locals, history
  <2>3. EnqueuerView(t)' /\ DequeuerView(t)'
    BY <2>1 DEF EnqueuerView, DequeuerView, ReadLast, ReadFirst, ReadBoth, ReadNext,
                IInv, TypeOK
  <2>4. \A u \in Threads \ {t} : LocalsKept(u)
    BY <2>1 DEF LocalsKept, IInv, TypeOK, locals
  <2>5. QED
    BY <2>1, <2>2, <2>3, <2>4, LocalStep DEF IInv, TypeOK, EnqueuePCs, locals
<1>2. CASE next[last[t]] = nxt[t]
  <2>1. /\ pc[t] = "enqLink" /\ pc' = [pc EXCEPT ![t] = "enqDone"]
        /\ next' = [next EXCEPT ![last[t]] = node[t]]
        /\ linked' = Append(linked, node[t])
        /\ UNCHANGED <<head, tail, data, node, first, last, nxt, ret, calls, hpos, tpos>>
    BY <1>2 DEF EnqLink, locals
  <2>2. PICK i \in 1..tpos : last[t] = linked[i]
    BY <2>1 DEF IInv, EnqueuerView, ReadLast
  <2>3. next[linked[i]] = Null
    BY <1>2, <2>1, <2>2 DEF IInv, EnqueuerView
  <2>4. i = Len(linked) /\ tpos = Len(linked)
    <3>1. i \in 1..Len(linked) /\ i <= tpos /\ tpos <= Len(linked)
      BY <2>2 DEF IInv, TypeOK, HeadBehindTail
    <3>2. i # Len(linked) => next[linked[i]] = linked[i + 1] /\ linked[i + 1] \in Nodes
      BY <3>1 DEF IInv, TypeOK, ChainIsHistory
    <3>3. QED
      BY <3>1, <3>2, <2>3, MsQueueAssumption DEF IInv, TypeOK
  <2>5. /\ node[t] \in Nodes /\ node[t] \notin LinkedNodes
        /\ next[node[t]] = Null /\ data[node[t]] \in Values
    BY <2>1 DEF IInv, NewNodesPrivate, EnqueuePCs
  <2>6. last[t] \in Nodes /\ last[t] # node[t] /\ last[t] = linked[Len(linked)]
    BY <2>2, <2>4, <2>5 DEF IInv, TypeOK, LinkedNodes
  <2>7. /\ linked' \in Seq(Nodes) /\ Len(linked') = Len(linked) + 1
        /\ \A k \in 1..Len(linked) : linked'[k] = linked[k]
        /\ linked'[Len(linked) + 1] = node[t]
    BY <2>1, <2>5 DEF IInv, TypeOK
  <2>8. TypeOK'
    BY <2>1, <2>5, <2>6, <2>7 DEF IInv, TypeOK, PCs
  <2>9. \A k \in 1..Len(linked) : linked[k] \in LinkedNodes /\ linked[k] # node[t]
    BY <2>5 DEF IInv, TypeOK, LinkedNodes
  <2>10. ChainIsHistory'
    <3>1. ASSUME NEW k \in 1..Len(linked')
          PROVE  next'[linked'[k]] = IF k = Len(linked') THEN Null ELSE linked'[k + 1]
      <4>1. CASE k = Len(linked')
        BY <4>1, <2>1, <2>5, <2>6, <2>7 DEF IInv, TypeOK
      <4>2. CASE k = Len(linked)
        BY <4>2, <2>1, <2>6, <2>7 DEF IInv, TypeOK
      <4>3. CASE k < Len(linked)
        <5>1. linked[k] # last[t] /\ linked[k] \in Nodes
          BY <4>3, <2>6 DEF IInv, TypeOK, ChainIsHistory
        <5>2. next[linked[k]] = linked[k + 1]
          BY <4>3 DEF IInv, TypeOK, ChainIsHistory
        <5>3. QED
          BY <4>3, <5>1, <5>2, <2>1, <2>7 DEF IInv, TypeOK
      <4>4. QED
        BY <4>1, <4>2, <4>3, <2>7 DEF IInv, TypeOK
    <3>2. \A k, m \in 1..Len(linked') : linked'[k] = linked'[m] => k = m
      <4>1. \A k, m \in 1..Len(linked) : linked[k] = linked[m] => k = m
        BY DEF IInv, TypeOK, ChainIsHistory
      <4>2. \A k \in 1..Len(linked') : k \in 1..Len(linked) \/ k = Len(linked) + 1
        BY <2>7 DEF IInv, TypeOK
      <4>3. QED
        BY <4>1, <4>2, <2>7, <2>9
    <3>3. QED
      BY <3>1, <3>2, <2>7 DEF ChainIsHistory
  <2>11. HeadBehindTail'
    BY <2>1, <2>4, <2>7 DEF IInv, TypeOK, HeadBehindTail
  <2>12. LinkedCarryValues'
    BY <2>1, <2>5, <2>7 DEF IInv, TypeOK, LinkedCarryValues
  <2>13. ListGrows
    <3>1. \A n \in LinkedNodes : next[n] # Null => next'[n] = next[n]
      BY <2>1, <2>2, <2>3, <2>6 DEF IInv, TypeOK, LinkedNodes
    <3>2. QED
      BY <3>1, <2>1, <2>7 DEF ListGrows, IInv, TypeOK
  <2>14. NewNodesPrivate'
    <3>1. ASSUME NEW u \in Threads, pc'[u] \in EnqueuePCs
          PROVE  /\ node'[u] \in Nodes /\ node'[u] \notin LinkedNodes'
                 /\ next'[node'[u]] = Null /\ data'[node'[u]] \in Values
      <4>1. u # t /\ pc[u] \in EnqueuePCs
        BY <3>1, <2>1 DEF EnqueuePCs, IInv, TypeOK
      <4>2. /\ node[u] \in Nodes /\ node[u] \notin LinkedNodes
            /\ next[node[u]] = Null /\ data[node[u]] \in Values
        BY <4>1 DEF IInv, NewNodesPrivate
      <4>3. node[u] # node[t] /\ node[u] # last[t]
        BY <4>1, <4>2, <2>5, <2>2, <2>4, <2>9, MsQueueAssumption
           DEF IInv, NewNodesPrivate, TypeOK
      <4>4. LinkedNodes' = LinkedNodes \cup {node[t]}
        <5>1. DOMAIN linked = 1..Len(linked) /\ DOMAIN linked' = 1..(Len(linked) + 1)
          BY <2>7 DEF IInv, TypeOK
        <5>2. ASSUME NEW n \in LinkedNodes' PROVE n \in LinkedNodes \cup {node[t]}
          <6>1. PICK k \in 1..(Len(linked) + 1) : n = linked'[k]
            BY <5>1, <5>2 DEF LinkedNodes
          <6>2. Len(linked) \in Nat
            BY DEF IInv, TypeOK
          <6>3. CASE k \in 1..Len(linked)
            BY <6>1, <6>3, <2>7, <2>9
          <6>4. CASE k = Len(linked) + 1
            BY <6>1, <6>4, <2>7
          <6>5. QED
            BY <6>1, <6>2, <6>3, <6>4
        <5>3. LinkedNodes \subseteq LinkedNodes'
          BY <5>1, <2>7 DEF LinkedNodes, IInv, TypeOK
        <5>4. node[t] \in LinkedNodes'
          <6>1. Len(linked) + 1 \in 1..(Len(linked) + 1)
            BY DEF IInv, TypeOK
          <6>2. QED
            BY <6>1, <5>1, <2>7 DEF LinkedNodes
        <5>5. QED
          BY <5>2, <5>3, <5>4
      <4>5. QED
        BY <4>2, <4>3, <4>4, <2>1, <2>6 DEF IInv, TypeOK
    <3>2. \A u, w \in Threads : node'[u] = node'[w] /\ node'[u] # Null => u = w
      BY <2>1 DEF IInv, NewNodesPrivate
    <3>3. QED
      BY <3>1, <3>2 DEF NewNodesPrivate
  <2>15. EnqueuerView(t)' /\ DequeuerView(t)'
    BY <2>1 DEF EnqueuerView, DequeuerView, ReadLast, ReadFirst, ReadBoth, ReadNext,
                IInv, TypeOK
  <2>16. \A u \in Threads \ {t} : LocalsKept(u)
    BY <2>1 DEF LocalsKept, IInv, TypeOK
  <2>17. QED
    BY <2>8, <2>10, <2>11, <2>12, <2>13, <2>14, <2>15, <2>16, SharedStep DEF ListInv
<1>3. QED
  BY <1>1, <1>2

\* A helper moves the tail from node i to node i + 1 of the list.
LEMMA SwingTailStep ==
  ASSUME IInv, NEW t \in Threads, SwingTail(t),
         \/ pc[t] = "enqSwing" /\ pc' = [pc EXCEPT ![t] = "enqTail"]
         \/ pc[t] = "deqSwing" /\ pc' = [pc EXCEPT ![t] = "deqHead"]
  PROVE  IInv'
<1> USE DEF SwingTail
<1>1. UNCHANGED <<head, next, data, node, first, last, nxt, ret, calls, linked, hpos>>
  BY DEF locals
<1>2. last[t] \in LinkedNodes /\ nxt[t] # Null /\ nxt[t] = next[last[t]]
      /\ \E i \in 1..tpos : last[t] = linked[i]
  <2>1. CASE pc[t] = "enqSwing"
    BY <2>1 DEF IInv, TypeOK, HeadBehindTail, EnqueuerView, ReadLast, LinkedNodes
  <2>2. CASE pc[t] = "deqSwing"
    <3>1. PICK i \in 1..hpos : first[t] = linked[i]
      BY <2>2 DEF IInv, DequeuerView, ReadFirst
    <3>2. first[t] = last[t] /\ nxt[t] # Null /\ nxt[t] = next[last[t]]
      BY <2>2 DEF IInv, DequeuerView, ReadNext, ReadBoth, ReadFirst
    <3>3. i \in 1..tpos /\ i \in DOMAIN linked
      BY DEF IInv, TypeOK, HeadBehindTail
    <3>4. QED
      BY <3>1, <3>2, <3>3 DEF LinkedNodes
  <2>3. QED
    BY <2>1, <2>2
<1>3. PICK i \in 1..tpos : last[t] = linked[i]
  BY <1>2
<1>4. i \in 1..Len(linked) /\ i < Len(linked) /\ nxt[t] = linked[i + 1]
  <2>1. i \in 1..Len(linked)
    BY DEF IInv, TypeOK, HeadBehindTail
  <2>2. next[linked[i]] = IF i = Len(linked) THEN Null ELSE linked[i + 1]
    BY <2>1 DEF IInv, TypeOK, ChainIsHistory
  <2>3. QED
    BY <2>1, <2>2, <1>2, <1>3 DEF IInv, TypeOK
<1>5. /\ \/ tail' = tail /\ tpos' = tpos
         \/ i = tpos /\ tail' = linked[tpos + 1] /\ tpos' = tpos + 1
      /\ tpos' \in Nat /\ tpos <= tpos' /\ tpos' <= Len(linked)
      /\ tail' = linked[tpos'] /\ tail' \in Nodes
  <2>1. CASE tail # last[t]
    BY <2>1 DEF IInv, TypeOK, HeadBehindTail
  <2>2. CASE tail = last[t]
    <3>1. linked[tpos] = linked[i] /\ tpos \in 1..Len(linked)
      BY <2>2, <1>3 DEF IInv, TypeOK, HeadBehindTail
    <3>2. i = tpos
      BY <3>1, <1>4 DEF IInv, TypeOK, ChainIsHistory
    <3>3. QED
      BY <3>2, <2>2, <1>4 DEF IInv, TypeOK, HeadBehindTail
  <2>3. QED
    BY <2>1, <2>2
<1>6. TypeOK'
  BY <1>1, <1>5 DEF IInv, TypeOK, PCs, EnqueuePCs, DequeuePCs
<1>7. ChainIsHistory' /\ LinkedCarryValues'
  BY <1>1 DEF IInv, ChainIsHistory, LinkedCarryValues
<1>8. HeadBehindTail'
  BY <1>1, <1>5 DEF IInv, TypeOK, HeadBehindTail
<1>9. ListGrows
  BY <1>1, <1>5 DEF IInv, TypeOK, ListGrows
<1>10. NewNodesPrivate'
  BY <1>1 DEF IInv, TypeOK, NewNodesPrivate, LinkedNodes, EnqueuePCs
<1>11. EnqueuerView(t)' /\ DequeuerView(t)'
  BY DEF EnqueuerView, DequeuerView, ReadLast, ReadFirst, ReadBoth, ReadNext,
         IInv, TypeOK
<1>12. \A u \in Threads \ {t} : LocalsKept(u)
  BY <1>1 DEF LocalsKept, IInv, TypeOK
<1>13. QED
  BY <1>6, <1>7, <1>8, <1>9, <1>10, <1>11, <1>12, SharedStep DEF ListInv

\* The head moves to its successor, which is not behind the tail.
LEMMA DeqAdvanceStep ==
  ASSUME IInv, NEW t \in Threads, DeqAdvance(t) PROVE IInv'
<1> USE DEF Goto
<1>1. PICK i \in 1..hpos : i < tpos /\ first[t] = linked[i] /\ nxt[t] = linked[i + 1]
  BY SuccessorKnown DEF DeqAdvance
<1>2. /\ pc[t] = "deqAdvance"
      /\ \/ pc' = [pc EXCEPT ![t] = "deqDone"]
         \/ pc' = [pc EXCEPT ![t] = "deqHead"]
      /\ UNCHANGED <<tail, next, data, node, first, last, nxt, ret, calls, linked, tpos>>
  BY DEF DeqAdvance, locals
<1>3. /\ hpos' \in Nat /\ hpos <= hpos' /\ hpos' <= tpos
      /\ head' = linked[hpos'] /\ head' \in Nodes
  <2>1. CASE head # first[t]
    BY <2>1 DEF DeqAdvance, IInv, TypeOK, HeadBehindTail
  <2>2. CASE head = first[t]
    <3>1. linked[hpos] = linked[i] /\ hpos \in 1..Len(linked) /\ i \in 1..Len(linked)
      BY <2>2, <1>1 DEF IInv, TypeOK, HeadBehindTail
    <3>2. i = hpos
      BY <3>1 DEF IInv, TypeOK, ChainIsHistory
    <3>3. QED
      BY <3>2, <2>2, <1>1 DEF DeqAdvance, IInv, TypeOK, HeadBehindTail
  <2>3. QED
    BY <2>1, <2>2
<1>4. TypeOK'
  BY <1>2, <1>3 DEF IInv, TypeOK, PCs, DequeuePCs
<1>5. ChainIsHistory' /\ LinkedCarryValues'
  BY <1>2 DEF IInv, ChainIsHistory, LinkedCarryValues
<1>6. HeadBehindTail'
  BY <1>2, <1>3 DEF IInv, TypeOK, HeadBehindTail
<1>7. ListGrows
  BY <1>2, <1>3 DEF IInv, TypeOK, ListGrows
<1>8. NewNodesPrivate'
  BY <1>2 DEF IInv, TypeOK, NewNodesPrivate, LinkedNodes, EnqueuePCs
<1>9. EnqueuerView(t)' /\ DequeuerView(t)'
  BY <1>2 DEF EnqueuerView, DequeuerView, ReadLast, ReadFirst, ReadBoth, ReadNext,
              IInv, TypeOK
<1>10. \A u \in Threads \ {t} : LocalsKept(u)
  BY <1>2 DEF LocalsKept, IInv, TypeOK
<1>11. QED
  BY <1>4, <1>5, <1>6, <1>7, <1>8, <1>9, <1>10, SharedStep DEF ListInv

-----------------------------------------------------------------------------
\* Every step of the queue preserves the inductive invariant.
LEMMA NextInvariant == IInv /\ [Next]_vars => IInv'
<1> SUFFICES ASSUME IInv, [Next]_vars PROVE IInv'
  OBVIOUS
<1>1. CASE UNCHANGED vars
  <2>1. TypeOK' /\ ChainIsHistory' /\ HeadBehindTail' /\ LinkedCarryValues'
    BY <1>1 DEF IInv, vars, TypeOK, ChainIsHistory, HeadBehindTail, LinkedCarryValues
  <2>2. NewNodesPrivate'
    BY <1>1 DEF IInv, vars, NewNodesPrivate, LinkedNodes
  <2>3. ASSUME NEW t \in Threads PROVE EnqueuerView(t)' /\ DequeuerView(t)'
    BY <1>1 DEF IInv, vars, EnqueuerView, DequeuerView
  <2>4. QED
    BY <2>1, <2>2, <2>3 DEF IInv
<1>2. ASSUME NEW t \in Threads, Invoke(t) PROVE IInv'
  <2>1. calls' \in [Threads -> 0..MaxCalls]
    BY <1>2, MsQueueAssumption DEF Invoke, Count, IInv, TypeOK
  <2>2. CASE StartDequeue(t)
    BY <2>1, <2>2, StartDequeueStep
  <2>3. CASE \E v \in Values : StartEnqueue(t, v)
    BY <2>1, <2>3, StartEnqueueStep
  <2>4. QED
    BY <1>2, <2>2, <2>3 DEF Invoke
<1>3. ASSUME NEW t \in Threads, Step(t) PROVE IInv'
  <2>1. CASE EnqSwing(t) \/ DeqSwing(t)
    BY <2>1, SwingTailStep DEF EnqSwing, DeqSwing, Goto
  <2>2. QED
    BY <1>3, <2>1, EnqReadTailStep, EnqReadNextStep, EnqCheckStep, EnqLinkStep,
       DeqReadHeadStep, DeqReadTailStep, DeqReadNextStep, DeqCheckStep,
       DeqReadDataStep, DeqAdvanceStep, ReturnStep DEF Step
<1>4. QED
  BY <1>1, <1>2, <1>3 DEF Next, Terminating

THEOREM InductiveInvariant == Spec => []IInv
<1>1. QED
  BY InitInvariant, NextInvariant, PTL DEF Spec

\* The fields, the locals and the history always have their types.
THEOREM TypeCorrect == Spec => []TypeOK
<1>1. IInv => TypeOK
  BY DEF IInv
<1>2. QED
  BY <1>1, InductiveInvariant, PTL

\* The list is exactly the nodes ever linked, in the order of linking.
THEOREM ListIsHistory == Spec => []ChainIsHistory
<1>1. IInv => ChainIsHistory
  BY DEF IInv
<1>2. QED
  BY <1>1, InductiveInvariant, PTL

\* The head never overtakes the tail and the tail lags by at most one node.
THEOREM HeadNeverOvertakesTail == Spec => []HeadBehindTail
<1>1. IInv => HeadBehindTail
  BY DEF IInv
<1>2. QED
  BY <1>1, InductiveInvariant, PTL

LEMMA NoNullFromInv ==
  ASSUME IInv
  PROVE  NoNullDereference
<1>1. Null \notin LinkedNodes /\ \A i \in 1..Len(linked) : linked[i] \in LinkedNodes
  BY MsQueueAssumption DEF IInv, TypeOK, LinkedNodes
<1>2. hpos <= tpos /\ tpos <= Len(linked) /\ hpos \in Nat /\ tpos \in Nat
  BY DEF IInv, TypeOK, HeadBehindTail
<1>3. ASSUME NEW t \in Threads, pc[t] \in {"enqNext", "enqLink"} PROVE last[t] # Null
  <2>1. PICK i \in 1..tpos : last[t] = linked[i]
    BY <1>3 DEF IInv, EnqueuerView, ReadLast
  <2>2. QED
    BY <2>1, <1>1, <1>2 DEF IInv, TypeOK
<1>4. ASSUME NEW t \in Threads, pc[t] = "deqNext" PROVE first[t] # Null
  <2>1. PICK i \in 1..hpos : first[t] = linked[i]
    BY <1>4 DEF IInv, DequeuerView, ReadFirst
  <2>2. QED
    BY <2>1, <1>1, <1>2 DEF IInv, TypeOK
<1>5. ASSUME NEW t \in Threads, pc[t] = "deqData" PROVE nxt[t] # Null
  BY <1>5 DEF IInv, DequeuerView, ReadNext, ReadBoth, ReadFirst
<1>6. QED
  BY <1>3, <1>4, <1>5 DEF NoNullDereference

\* No thread ever follows a NULL pointer.
THEOREM NeverDereferencesNull == Spec => []NoNullDereference
<1>1. ASSUME IInv PROVE NoNullDereference
  BY <1>1, NoNullFromInv
<1>2. QED
  BY <1>1, InductiveInvariant, PTL

QueueSteps(t) == Step(t) \/ StartDequeue(t) \/ \E v \in Values : StartEnqueue(t, v)

LEMMA InvokeIsQueueStep ==
  ASSUME NEW t \in Threads, Invoke(t) PROVE QueueSteps(t)
BY DEF Invoke, QueueSteps

LEMMA QueueStepsWriteOnce ==
  ASSUME IInv, NEW t \in Threads, QueueSteps(t) PROVE WritesOnce
<1> USE DEF Goto
<1>1. ASSUME data' = data, next' = next, head' = head, tail' = tail PROVE WritesOnce
  BY <1>1 DEF WritesOnce
<1>2. ASSUME NEW v \in Values, StartEnqueue(t, v) PROVE WritesOnce
  BY <1>2 DEF StartEnqueue, Fresh, WritesOnce, IInv, TypeOK, LinkedNodes
<1>3. ASSUME EnqLink(t) PROVE WritesOnce
  <2>1. pc[t] = "enqLink" /\ nxt[t] = Null
    BY <1>3 DEF EnqLink, IInv, EnqueuerView
  <2>2. \/ UNCHANGED next
        \/ next[last[t]] = Null /\ next' = [next EXCEPT ![last[t]] = node[t]]
    BY <1>3, <2>1 DEF EnqLink
  <2>3. QED
    BY <1>3, <2>2 DEF EnqLink, WritesOnce, IInv, TypeOK, LinkedNodes
<1>4. ASSUME EnqSwing(t) \/ DeqSwing(t) PROVE WritesOnce
  <2>1. nxt[t] = next[last[t]]
    BY <1>4 DEF EnqSwing, DeqSwing, IInv, EnqueuerView, DequeuerView,
                      ReadNext, ReadBoth, ReadFirst
  <2>2. QED
    BY <1>4, <2>1 DEF EnqSwing, DeqSwing, SwingTail, WritesOnce
<1>5. ASSUME DeqAdvance(t) PROVE WritesOnce
  <2>1. nxt[t] = next[first[t]]
    BY <1>5 DEF DeqAdvance, IInv, DequeuerView, ReadNext, ReadBoth, ReadFirst
  <2>2. QED
    BY <1>5, <2>1 DEF DeqAdvance, WritesOnce
<1>6. ASSUME StartDequeue(t) PROVE WritesOnce
  <2>1. data' = data /\ next' = next /\ head' = head /\ tail' = tail
    BY <1>6 DEF StartDequeue, shared
  <2>2. QED
    BY <2>1, <1>1
<1>7. ASSUME Step(t) PROVE WritesOnce
  <2>1. ASSUME EnqReadTail(t) \/ EnqReadNext(t) \/ EnqCheck(t) \/ Return(t)
        PROVE  WritesOnce
    <3>1. data' = data /\ next' = next /\ head' = head /\ tail' = tail
      BY <2>1 DEF EnqReadTail, EnqReadNext, EnqCheck, Return, shared
    <3>2. QED
      BY <3>1, <1>1
  <2>2. ASSUME \/ DeqReadHead(t) \/ DeqReadTail(t) \/ DeqReadNext(t)
               \/ DeqCheck(t) \/ DeqReadData(t)
        PROVE  WritesOnce
    <3>1. data' = data /\ next' = next /\ head' = head /\ tail' = tail
      BY <2>2 DEF DeqReadHead, DeqReadTail, DeqReadNext, DeqCheck, DeqReadData, shared
    <3>2. QED
      BY <3>1, <1>1
  <2>3. QED
    BY <1>3, <1>4, <1>5, <1>7, <2>1, <2>2 DEF Step
<1>8. QED
  BY <1>2, <1>6, <1>7 DEF QueueSteps

\* A node of the list never changes again, except that the last one gets a
\* successor once; head and tail move from a node to its successor.
THEOREM ListWritesOnce == Spec => ListIsWriteOnce
<1>1. ASSUME IInv, Next PROVE WritesOnce \/ UNCHANGED vars
  BY <1>1, QueueStepsWriteOnce, InvokeIsQueueStep DEF Next, Terminating, QueueSteps
<1>2. IInv /\ [Next]_vars => [WritesOnce]_vars
  BY <1>1
<1>3. QED
  BY <1>2, InductiveInvariant, PTL DEF Spec, ListIsWriteOnce

\* The three together.
THEOREM ListStaysSound == Spec => []ListIsSound
<1>1. ChainIsHistory /\ HeadBehindTail /\ NoNullDereference => ListIsSound
  BY DEF ListIsSound
<1>2. QED
  BY <1>1, ListIsHistory, HeadNeverOvertakesTail, NeverDereferencesNull, PTL

-----------------------------------------------------------------------------
(***************************************************************************)
(* The queue implements the FIFO queue: every step of a thread maps to a   *)
(* step of FifoQueue or leaves it unchanged.                               *)
(***************************************************************************)
\* What the mapping shows of a thread at each place of its call.
Shows(t) ==
  /\ pc[t] = "idle" => CallOf(t) = [phase |-> "idle", val |-> Empty]
  /\ pc[t] \in EnqueuePCs => CallOf(t) = [phase |-> "enqueue", val |-> data[node[t]]]
  /\ pc[t] = "enqDone" => CallOf(t) = [phase |-> "enqueued", val |-> Empty]
  /\ SeesEmpty(t) => CallOf(t) = [phase |-> "sawEmpty", val |-> Empty]
  /\ pc[t] = "deqDone" /\ ret[t] # Empty
       => CallOf(t) = [phase |-> "dequeued", val |-> ret[t]]
  /\ pc[t] \in DequeuePCs /\ ~SeesEmpty(t)
       => CallOf(t) = [phase |-> "dequeue", val |-> Empty]

\* The arms of the mapping exclude each other, before and after a step.
LEMMA CallByPC ==
  ASSUME NEW t \in Threads
  PROVE  Shows(t) /\ Shows(t)'
<1>1. Shows(t)
  BY DEF Shows, CallOf, SeesEmpty, EnqueuePCs, DequeuePCs
<1>2. Shows(t)'
  BY DEF Shows, CallOf, SeesEmpty, EnqueuePCs, DequeuePCs
<1>3. QED
  BY <1>1, <1>2

\* The threads that do not take the step show the same call as before.
LEMMA OthersShowTheSame ==
  ASSUME IInv, NEW t \in Threads,
         \A u \in Threads \ {t} : LocalsKept(u),
         \A u \in Threads \ {t} :
           pc[u] \in EnqueuePCs => data'[node[u]] = data[node[u]]
  PROVE  CallsOfThreads' = [CallsOfThreads EXCEPT ![t] = CallOf(t)']
<1>1. ASSUME NEW u \in Threads \ {t} PROVE CallOf(u)' = CallOf(u)
  <2>1. LocalsKept(u) /\ (pc[u] \in EnqueuePCs => data'[node[u]] = data[node[u]])
    OBVIOUS
  <2>2. SeesEmpty(u)' = SeesEmpty(u)
    BY <2>1 DEF SeesEmpty, LocalsKept
  <2>3. pc[u] \in PCs
    BY DEF IInv, TypeOK
  <2>4. Shows(u) /\ Shows(u)'
    BY CallByPC
  <2>5. pc[u] = "deqDone" /\ ret[u] = Empty => SeesEmpty(u)
    BY DEF SeesEmpty
  <2>6. QED
    BY <2>1, <2>2, <2>3, <2>4, <2>5 DEF Shows, LocalsKept, PCs
<1>2. QED
  BY <1>1 DEF CallsOfThreads

\* A step that leaves the list alone leaves the log alone.
LEMMA LogUnchanged ==
  ASSUME UNCHANGED <<linked, data>>
  PROVE  LogOfList' = LogOfList
BY DEF LogOfList

\* A step that changes neither the list nor what its thread shows is a stutter.
LEMMA StutterStep ==
  ASSUME IInv, NEW t \in Threads, UNCHANGED <<linked, data, hpos>>,
         \A u \in Threads \ {t} : LocalsKept(u),
         CallOf(t)' = CallOf(t)
  PROVE  UNCHANGED Fifo!vars
<1>1. CallsOfThreads' = CallsOfThreads
  BY OthersShowTheSame DEF CallsOfThreads
<1>2. QED
  BY <1>1, LogUnchanged DEF Fifo!vars

LEMMA InitRefines == Init => Fifo!Init
<1> SUFFICES ASSUME Init PROVE Fifo!Init
  OBVIOUS
<1>1. Len(linked) = 1 /\ hpos = 1
  BY DEF Init
<1>2. LogOfList = <<>>
  BY <1>1 DEF LogOfList
<1>3. \A t \in Threads : CallOf(t) = Fifo!Idle
  BY CallByPC DEF Shows, Init, Fifo!Idle, Fifo!Call
<1>4. QED
  BY <1>1, <1>2, <1>3 DEF Fifo!Init, CallsOfThreads

\* Steps that only read into locals, or help the tail, do not show.
LEMMA QuietSteps ==
  ASSUME IInv, NEW t \in Threads,
         \/ EnqReadTail(t) \/ EnqReadNext(t) \/ EnqCheck(t) \/ EnqSwing(t)
         \/ DeqReadHead(t) \/ DeqReadTail(t) \/ DeqSwing(t) \/ DeqReadData(t)
  PROVE  UNCHANGED Fifo!vars
<1> USE DEF Goto, IInv, TypeOK
<1>1. UNCHANGED <<linked, data, hpos, node>> /\ \A u \in Threads \ {t} : LocalsKept(u)
  BY DEF EnqReadTail, EnqReadNext, EnqCheck, EnqSwing, DeqReadHead, DeqReadTail, DeqSwing,
         DeqReadData, SwingTail, shared, locals, history, LocalsKept
<1>2. \/ pc[t] \in EnqueuePCs /\ pc'[t] \in EnqueuePCs
      \/ /\ pc[t] \in DequeuePCs \ {"deqCheck"} /\ pc'[t] \in DequeuePCs \ {"deqCheck"}
  BY DEF EnqReadTail, EnqReadNext, EnqCheck, EnqSwing, DeqReadHead, DeqReadTail, DeqSwing,
         DeqReadData, EnqueuePCs, DequeuePCs
<1>3. CallOf(t)' = CallOf(t)
  <2>1. CASE pc[t] \in EnqueuePCs /\ pc'[t] \in EnqueuePCs
    BY <1>1, <2>1, CallByPC DEF Shows
  <2>2. CASE pc[t] \in DequeuePCs \ {"deqCheck"} /\ pc'[t] \in DequeuePCs \ {"deqCheck"}
    <3>1. ~SeesEmpty(t) /\ ~SeesEmpty(t)'
      BY <2>2 DEF SeesEmpty, DequeuePCs
    <3>2. QED
      BY <2>2, <3>1, CallByPC DEF Shows
  <2>3. QED
    BY <1>2, <2>1, <2>2
<1>4. QED
  BY <1>1, <1>3, StutterStep

\* Reading NULL from a node that was both head and tail is seeing the queue
\* empty: that node is the last of the list and the head is still there.
LEMMA DeqReadNextRefines ==
  ASSUME IInv, NEW t \in Threads, DeqReadNext(t)
  PROVE  Fifo!SeeEmpty(t) \/ UNCHANGED Fifo!vars
<1> USE DEF Goto
<1>1. UNCHANGED <<linked, data, hpos, tpos, node>> /\ \A u \in Threads \ {t} : LocalsKept(u)
  BY DEF DeqReadNext, shared, history, LocalsKept, IInv, TypeOK
<1>2. pc[t] = "deqNext" /\ pc'[t] = "deqCheck" /\ nxt'[t] = next[first[t]]
      /\ UNCHANGED <<first, last>>
  BY DEF DeqReadNext, IInv, TypeOK
<1>3. CallOf(t) = [phase |-> "dequeue", val |-> Empty]
  BY <1>2, CallByPC DEF Shows, SeesEmpty, DequeuePCs
<1>4. CASE SeesEmpty(t)'
  <2>1. CallOf(t)' = [phase |-> "sawEmpty", val |-> Empty]
    BY <1>4, CallByPC DEF Shows
  <2>2. next[first[t]] = Null
    BY <1>2, <1>4 DEF SeesEmpty
  <2>3. PICK i \in 1..hpos : first[t] = linked[i]
    BY <1>2 DEF IInv, DequeuerView, ReadFirst
  <2>4. hpos = Len(linked)
    <3>1. i \in 1..Len(linked) /\ hpos <= Len(linked) /\ hpos \in Nat
      BY DEF IInv, TypeOK, HeadBehindTail
    <3>2. i # Len(linked) => next[linked[i]] \in Nodes
      BY <3>1 DEF IInv, TypeOK, ChainIsHistory
    <3>3. QED
      BY <2>2, <2>3, <3>1, <3>2, MsQueueAssumption DEF IInv, TypeOK
  <2>5. Len(LogOfList) = hpos - 1
    BY <2>4 DEF LogOfList, IInv, TypeOK
  <2>6. CallsOfThreads' = [CallsOfThreads EXCEPT ![t] = CallOf(t)']
    BY <1>1, OthersShowTheSame
  <2>7. QED
    BY <1>1, <1>3, <2>1, <2>5, <2>6, LogUnchanged
       DEF Fifo!SeeEmpty, Fifo!Call, CallsOfThreads
<1>5. CASE ~SeesEmpty(t)'
  <2>1. CallOf(t)' = CallOf(t)
    BY <1>2, <1>3, <1>5, CallByPC DEF Shows, DequeuePCs
  <2>2. QED
    BY <1>1, <2>1, StutterStep
<1>6. QED
  BY <1>4, <1>5

\* The recheck of head either confirms what was seen or makes the thread
\* reconsider.
LEMMA DeqCheckRefines ==
  ASSUME IInv, NEW t \in Threads, DeqCheck(t)
  PROVE  Fifo!Reconsider(t) \/ UNCHANGED Fifo!vars
<1> USE DEF Goto
<1>1. UNCHANGED <<linked, data, hpos, tpos, node>> /\ \A u \in Threads \ {t} : LocalsKept(u)
  BY DEF DeqCheck, shared, history, LocalsKept, IInv, TypeOK
<1>2. CASE SeesEmpty(t) /\ first[t] # head
  <2>1. pc[t] = "deqCheck" /\ pc'[t] = "deqHead"
    BY <1>2 DEF DeqCheck, IInv, TypeOK
  <2>2. CallOf(t) = [phase |-> "sawEmpty", val |-> Empty]
        /\ CallOf(t)' = [phase |-> "dequeue", val |-> Empty]
    BY <1>2, <2>1, CallByPC DEF Shows, SeesEmpty, DequeuePCs
  <2>3. CallsOfThreads' = [CallsOfThreads EXCEPT ![t] = CallOf(t)']
    BY <1>1, OthersShowTheSame
  <2>4. QED
    BY <1>1, <2>2, <2>3, LogUnchanged DEF Fifo!Reconsider, Fifo!Call, CallsOfThreads
<1>3. CASE SeesEmpty(t) /\ first[t] = head
  <2>1. pc[t] = "deqCheck" /\ pc'[t] = "deqDone" /\ ret'[t] = Empty
    BY <1>3 DEF DeqCheck, SeesEmpty, IInv, TypeOK
  <2>2. SeesEmpty(t)'
    BY <2>1 DEF SeesEmpty
  <2>3. CallOf(t)' = CallOf(t)
    BY <1>3, <2>2, CallByPC DEF Shows
  <2>4. QED
    BY <1>1, <2>3, StutterStep
<1>4. CASE ~SeesEmpty(t)
  <2>1. pc[t] = "deqCheck" /\ pc'[t] \in {"deqHead", "deqSwing", "deqData"}
    BY <1>4 DEF DeqCheck, SeesEmpty, IInv, TypeOK
  <2>2. ~SeesEmpty(t)'
    BY <2>1 DEF SeesEmpty
  <2>3. CallOf(t)' = CallOf(t)
    BY <1>4, <2>1, <2>2, CallByPC DEF Shows, DequeuePCs
  <2>4. QED
    BY <1>1, <2>3, StutterStep
<1>5. QED
  BY <1>2, <1>3, <1>4

LEMMA StartEnqueueRefines ==
  ASSUME IInv, NEW t \in Threads, NEW v \in Values, StartEnqueue(t, v)
  PROVE  Fifo!InvokeEnqueue(t, v)
<1> USE DEF Goto
<1>1. PICK n \in Fresh : /\ node' = [node EXCEPT ![t] = n]
                         /\ data' = [data EXCEPT ![n] = v]
  BY DEF StartEnqueue
<1>2. /\ pc[t] = "idle" /\ pc' = [pc EXCEPT ![t] = "enqTail"]
      /\ UNCHANGED <<first, last, nxt, ret, linked, hpos>>
  BY DEF StartEnqueue, history
<1>3. n \in Nodes /\ n \notin LinkedNodes /\ \A u \in Threads : node[u] # n
  BY DEF Fresh
<1>4. LogOfList' = LogOfList
  <2>1. \A i \in 1..(Len(linked) - 1) : linked[i + 1] \in LinkedNodes /\ linked[i + 1] \in Nodes
    BY DEF LinkedNodes, IInv, TypeOK
  <2>2. QED
    BY <1>1, <1>2, <1>3, <2>1 DEF LogOfList, IInv, TypeOK
<1>5. \A u \in Threads \ {t} : LocalsKept(u)
  BY <1>1, <1>2 DEF LocalsKept, IInv, TypeOK
<1>6. ASSUME NEW u \in Threads \ {t}, pc[u] \in EnqueuePCs PROVE data'[node[u]] = data[node[u]]
  BY <1>1, <1>3, <1>6 DEF IInv, TypeOK, NewNodesPrivate
<1>7. CallsOfThreads' = [CallsOfThreads EXCEPT ![t] = CallOf(t)']
  BY <1>5, <1>6, OthersShowTheSame
<1>8. CallOf(t) = [phase |-> "idle", val |-> Empty]
      /\ CallOf(t)' = [phase |-> "enqueue", val |-> v]
  <2>1. pc'[t] \in EnqueuePCs /\ data'[node'[t]] = v
    BY <1>1, <1>2, <1>3 DEF EnqueuePCs, IInv, TypeOK
  <2>2. QED
    BY <1>2, <2>1, CallByPC DEF Shows
<1>9. QED
  BY <1>2, <1>4, <1>7, <1>8 DEF Fifo!InvokeEnqueue, Fifo!Call, Fifo!Idle, CallsOfThreads

LEMMA StartDequeueRefines ==
  ASSUME IInv, NEW t \in Threads, StartDequeue(t)
  PROVE  Fifo!InvokeDequeue(t)
<1> USE DEF Goto
<1>1. UNCHANGED <<linked, data, hpos, node>> /\ \A u \in Threads \ {t} : LocalsKept(u)
  BY DEF StartDequeue, shared, locals, history, LocalsKept, IInv, TypeOK
<1>2. pc[t] = "idle" /\ pc'[t] = "deqHead"
  BY DEF StartDequeue, IInv, TypeOK
<1>3. CallOf(t) = [phase |-> "idle", val |-> Empty]
      /\ CallOf(t)' = [phase |-> "dequeue", val |-> Empty]
  BY <1>2, CallByPC DEF Shows, SeesEmpty, DequeuePCs
<1>4. CallsOfThreads' = [CallsOfThreads EXCEPT ![t] = CallOf(t)']
  BY <1>1, OthersShowTheSame
<1>5. QED
  BY <1>1, <1>3, <1>4, LogUnchanged
     DEF Fifo!InvokeDequeue, Fifo!Call, Fifo!Idle, CallsOfThreads

\* A successful link appends the new node's value to the log.
LEMMA EnqLinkRefines ==
  ASSUME IInv, NEW t \in Threads, EnqLink(t)
  PROVE  Fifo!Enqueue(t) \/ UNCHANGED Fifo!vars
<1> USE DEF Goto
<1>1. pc[t] = "enqLink" /\ UNCHANGED <<data, hpos, node>>
      /\ \A u \in Threads \ {t} : LocalsKept(u)
  BY DEF EnqLink, locals, LocalsKept, IInv, TypeOK
<1>2. CallOf(t) = [phase |-> "enqueue", val |-> data[node[t]]]
  BY <1>1, CallByPC DEF Shows, EnqueuePCs
<1>3. CASE next[last[t]] # nxt[t]
  <2>1. pc'[t] = "enqTail" /\ UNCHANGED linked
    BY <1>3 DEF EnqLink, IInv, TypeOK
  <2>2. CallOf(t)' = CallOf(t)
    BY <1>1, <1>2, <2>1, CallByPC DEF Shows, EnqueuePCs
  <2>3. QED
    BY <1>1, <2>1, <2>2, StutterStep
<1>4. CASE next[last[t]] = nxt[t]
  <2>1. pc'[t] = "enqDone" /\ linked' = Append(linked, node[t])
    BY <1>4 DEF EnqLink, IInv, TypeOK
  <2>2. CallOf(t)' = [phase |-> "enqueued", val |-> Empty]
    BY <2>1, CallByPC DEF Shows
  <2>3. node[t] \in Nodes /\ linked \in Seq(Nodes) /\ Len(linked) \in Nat /\ Len(linked) >= 1
    BY <1>1 DEF IInv, NewNodesPrivate, EnqueuePCs, TypeOK, HeadBehindTail
  <2>4. LogOfList' = Append(LogOfList, data[node[t]])
    <3>1. /\ Len(linked') = Len(linked) + 1
          /\ \A k \in 1..Len(linked) : linked'[k] = linked[k]
          /\ linked'[Len(linked) + 1] = node[t]
      BY <2>1, <2>3
    <3>2. \A k \in 1..(Len(linked) - 1) : k + 1 \in 1..Len(linked)
      BY <2>3
    <3>3. Len(LogOfList) = Len(linked) - 1
      BY <2>3 DEF LogOfList
    <3>4. LogOfList' = [k \in 1..Len(linked) |-> data[linked'[k + 1]]]
      BY <3>1, <2>3, <1>1 DEF LogOfList
    <3>5. LogOfList \in Seq(ValueOrEmpty) /\ data[node[t]] \in ValueOrEmpty
      BY <2>3, <3>2 DEF LogOfList, IInv, TypeOK
    <3>6. \A k \in 1..(Len(linked) - 1) : LogOfList[k] = data[linked'[k + 1]]
      BY <3>1, <3>2 DEF LogOfList
    <3>7. Append(LogOfList, data[node[t]])
            = [k \in 1..Len(linked) |-> IF k = Len(linked) THEN data[node[t]] ELSE LogOfList[k]]
      BY <3>3, <3>5, <2>3
    <3>8. \A k \in 1..Len(linked) : data[linked'[k + 1]]
            = IF k = Len(linked) THEN data[node[t]] ELSE LogOfList[k]
      BY <3>1, <3>6, <2>3
    <3>9. QED
      BY <3>4, <3>7, <3>8
  <2>5. CallsOfThreads' = [CallsOfThreads EXCEPT ![t] = CallOf(t)']
    BY <1>1, OthersShowTheSame
  <2>6. QED
    BY <1>1, <1>2, <2>2, <2>4, <2>5 DEF Fifo!Enqueue, Fifo!Call, CallsOfThreads
<1>5. QED
  BY <1>3, <1>4

\* A successful move of the head hands out the first value not yet taken.
LEMMA DeqAdvanceRefines ==
  ASSUME IInv, NEW t \in Threads, DeqAdvance(t)
  PROVE  Fifo!Dequeue(t) \/ UNCHANGED Fifo!vars
<1> USE DEF Goto
<1>1. pc[t] = "deqAdvance" /\ UNCHANGED <<linked, data, node, ret>>
      /\ \A u \in Threads \ {t} : LocalsKept(u)
  BY DEF DeqAdvance, locals, LocalsKept, IInv, TypeOK
<1>2. CallOf(t) = [phase |-> "dequeue", val |-> Empty]
  BY <1>1, CallByPC DEF Shows, SeesEmpty, DequeuePCs
<1>3. CASE head # first[t]
  <2>1. pc'[t] = "deqHead" /\ UNCHANGED hpos
    BY <1>3 DEF DeqAdvance, IInv, TypeOK
  <2>2. CallOf(t)' = CallOf(t)
    BY <1>2, <2>1, CallByPC DEF Shows, SeesEmpty, DequeuePCs
  <2>3. QED
    BY <1>1, <2>1, <2>2, StutterStep
<1>4. CASE head = first[t]
  <2>1. pc'[t] = "deqDone" /\ hpos' = hpos + 1
    BY <1>4 DEF DeqAdvance, IInv, TypeOK
  <2>2. PICK i \in 1..hpos : i < tpos /\ first[t] = linked[i] /\ nxt[t] = linked[i + 1]
    BY <1>1, SuccessorKnown
  <2>3. i = hpos /\ hpos \in Nat /\ hpos >= 1 /\ hpos < Len(linked) /\ Len(linked) \in Nat
    <3>1. linked[hpos] = linked[i] /\ hpos \in 1..Len(linked) /\ i \in 1..Len(linked)
          /\ tpos <= Len(linked) /\ tpos \in Nat
      BY <2>2, <1>4 DEF IInv, TypeOK, HeadBehindTail
    <3>2. i = hpos
      BY <3>1 DEF IInv, TypeOK, ChainIsHistory
    <3>3. QED
      BY <3>1, <3>2, <2>2
  <2>4. ret[t] = data[linked[hpos + 1]] /\ ret[t] \in Values
    BY <1>1, <2>2, <2>3 DEF IInv, DequeuerView, LinkedCarryValues, TypeOK
  <2>5. CallOf(t)' = [phase |-> "dequeued", val |-> ret[t]]
    BY <1>1, <2>1, <2>4, MsQueueAssumption, CallByPC DEF Shows
  <2>6. Len(LogOfList) = Len(linked) - 1 /\ LogOfList[hpos] = ret[t]
    BY <2>3, <2>4 DEF LogOfList
  <2>7. CallsOfThreads' = [CallsOfThreads EXCEPT ![t] = CallOf(t)']
    BY <1>1, OthersShowTheSame
  <2>8. hpos - 1 < Len(LogOfList) /\ hpos' - 1 = (hpos - 1) + 1
        /\ LogOfList[(hpos - 1) + 1] = ret[t]
    BY <2>1, <2>3, <2>6
  <2>9. QED
    BY <1>1, <1>2, <2>5, <2>7, <2>8, LogUnchanged DEF Fifo!Dequeue, Fifo!Call, CallsOfThreads
<1>5. QED
  BY <1>3, <1>4

LEMMA ReturnRefines ==
  ASSUME IInv, NEW t \in Threads, Return(t)
  PROVE  Fifo!Return(t)
<1>1. UNCHANGED <<linked, data, hpos>> /\ \A u \in Threads \ {t} : LocalsKept(u)
  BY DEF Return, shared, history, LocalsKept, IInv, TypeOK
<1>2. CallOf(t).phase \in {"enqueued", "dequeued", "sawEmpty"}
  BY CallByPC DEF Return, Shows, SeesEmpty
<1>3. CallOf(t)' = [phase |-> "idle", val |-> Empty]
  BY CallByPC DEF Return, Shows, IInv, TypeOK
<1>4. CallsOfThreads' = [CallsOfThreads EXCEPT ![t] = CallOf(t)']
  BY <1>1, OthersShowTheSame
<1>5. QED
  BY <1>1, <1>2, <1>3, <1>4, LogUnchanged
     DEF Fifo!Return, Fifo!Call, Fifo!Idle, CallsOfThreads

-----------------------------------------------------------------------------
LEMMA NextRefines == IInv /\ [Next]_vars => [Fifo!Next]_(Fifo!vars)
<1> SUFFICES ASSUME IInv, [Next]_vars PROVE [Fifo!Next]_(Fifo!vars)
  OBVIOUS
<1>1. CASE UNCHANGED vars
  <2>1. \A t \in Threads : CallOf(t)' = CallOf(t)
    BY <1>1 DEF vars, CallOf, SeesEmpty
  <2>2. QED
    BY <1>1, <2>1, LogUnchanged DEF vars, Fifo!vars, CallsOfThreads
<1>2. ASSUME NEW t \in Threads, Invoke(t) PROVE Fifo!Next
  BY <1>2, StartEnqueueRefines, StartDequeueRefines DEF Invoke, Fifo!Next
<1>3. ASSUME NEW t \in Threads, Step(t) PROVE Fifo!Next \/ UNCHANGED Fifo!vars
  BY <1>3, QuietSteps, DeqReadNextRefines, DeqCheckRefines, EnqLinkRefines,
     DeqAdvanceRefines, ReturnRefines DEF Step, Fifo!Next
<1>4. QED
  BY <1>1, <1>2, <1>3 DEF Next, Terminating

\* The Michael-Scott queue is a linearizable FIFO queue.
THEOREM Linearizable == Spec => RefinesFifo
<1>1. Spec => Fifo!Spec
  BY InitRefines, NextRefines, InductiveInvariant, PTL DEF Spec, Fifo!Spec
<1>2. QED
  BY <1>1 DEF RefinesFifo

-----------------------------------------------------------------------------
(***************************************************************************)
(* size, empty and find, which walk the list beside the queue's calls.     *)
(***************************************************************************)
\* What a traversal needs to know of every other step.
Longer ==
  /\ Len(linked) <= Len(linked') /\ hpos <= hpos'
  /\ \A i \in DOMAIN linked : i \in DOMAIN linked' /\ linked'[i] = linked[i]

\* A step of the queue makes the list longer, and other threads do not notice.
LEMMA QueueStepGrows ==
  ASSUME IInv, NEW t \in Threads, QueueSteps(t)
  PROVE  Longer /\ \A u \in Threads \ {t} : pc'[u] = pc[u] /\ nxt'[u] = nxt[u]
<1>1. linked \in Seq(Nodes) /\ hpos \in Nat /\ node \in [Threads -> NodeOrNull]
      /\ pc \in [Threads -> PCs] /\ nxt \in [Threads -> NodeOrNull]
  BY DEF IInv, TypeOK
<1>2. pc[t] \in EnqueuePCs => node[t] \in Nodes
  BY DEF IInv, NewNodesPrivate
<1>3. ASSUME linked' = linked, hpos' \in {hpos, hpos + 1} PROVE Longer
  BY <1>1, <1>3 DEF Longer
<1>4. ASSUME EnqLink(t) PROVE Longer
  <2>1. CASE linked' = linked
    BY <1>3, <1>4, <2>1 DEF EnqLink
  <2>2. CASE linked' = Append(linked, node[t])
    <3>1. node[t] \in Nodes /\ hpos' = hpos
      BY <1>2, <1>4 DEF EnqLink, Goto, EnqueuePCs
    <3>2. QED
      BY <1>1, <2>2, <3>1 DEF Longer
  <2>3. QED
    BY <1>4, <2>1, <2>2 DEF EnqLink
<1>5. Longer
  BY <1>3, <1>4 DEF QueueSteps, Step, StartDequeue, StartEnqueue, EnqReadTail,
     EnqReadNext, EnqCheck, EnqSwing, SwingTail, DeqReadHead, DeqReadTail,
     DeqReadNext, DeqCheck, DeqSwing, DeqReadData, DeqAdvance, Return, history
<1>6. \A u \in Threads \ {t} : pc'[u] = pc[u]
  BY <1>1 DEF QueueSteps, Step, StartDequeue, StartEnqueue, EnqReadTail, Goto,
     EnqReadNext, EnqCheck, EnqLink, EnqSwing, DeqReadHead, DeqReadTail,
     DeqReadNext, DeqCheck, DeqSwing, DeqReadData, DeqAdvance, Return
<1>7. \A u \in Threads \ {t} : nxt'[u] = nxt[u]
  BY <1>1 DEF QueueSteps, Step, StartDequeue, StartEnqueue, EnqReadTail, locals,
     EnqReadNext, EnqCheck, EnqLink, EnqSwing, SwingTail, DeqReadHead, DeqReadTail,
     DeqReadNext, DeqCheck, DeqSwing, DeqReadData, DeqAdvance, Return
<1>8. QED
  BY <1>5, <1>6, <1>7

\* Every step of the queue preserves its invariant, whoever counts the calls.
LEMMA QueueStepKeepsInv ==
  ASSUME IInv, NEW t \in Threads, QueueSteps(t), calls' \in [Threads -> 0..MaxCalls]
  PROVE  IInv'
<1>1. CASE StartDequeue(t)
  BY <1>1, StartDequeueStep
<1>2. CASE \E v \in Values : StartEnqueue(t, v)
  BY <1>2, StartEnqueueStep
<1>3. CASE Step(t)
  BY <1>3, NextInvariant DEF Next
<1>4. QED
  BY <1>1, <1>2, <1>3 DEF QueueSteps

\* A step that only reads, or only counts a call, keeps the queue's invariant.
LEMMA QuietQueue ==
  ASSUME IInv, UNCHANGED <<shared, pc, locals, history>>,
         calls' \in [Threads -> 0..MaxCalls]
  PROVE  IInv'
<1> USE DEF shared, locals, history
<1>1. TypeOK' /\ ChainIsHistory' /\ HeadBehindTail' /\ LinkedCarryValues'
  BY DEF IInv, TypeOK, ChainIsHistory, HeadBehindTail, LinkedCarryValues
<1>2. NewNodesPrivate'
  BY DEF IInv, NewNodesPrivate, LinkedNodes
<1>3. ASSUME NEW t \in Threads PROVE EnqueuerView(t)' /\ DequeuerView(t)'
  BY DEF IInv, EnqueuerView, DequeuerView
<1>4. QED
  BY <1>1, <1>2, <1>3 DEF IInv

WalkKept(u) ==
  /\ op'[u] = op[u] /\ cur'[u] = cur[u] /\ cnt'[u] = cnt[u] /\ todo'[u] = todo[u]
  /\ from'[u] = from[u] /\ seen'[u] = seen[u]

\* A walk that does not step itself keeps its place while the list grows.
LEMMA WalkerSurvives ==
  ASSUME IInv, IInv', WalkTypes, Longer, NEW u \in Threads, WalkerView(u),
         WalkKept(u), pc'[u] = pc[u], nxt'[u] = nxt[u]
  PROVE  WalkerView(u)'
<1> USE DEF WalkKept
<1>1. /\ linked \in Seq(Nodes) /\ linked' \in Seq(Nodes) /\ hpos \in Nat /\ hpos' \in Nat
      /\ from[u] \in Nat /\ cnt[u] \in Nat /\ seen[u] \in Nat /\ todo[u] \in Nat
  BY DEF IInv, TypeOK, WalkTypes
<1>2. /\ Len(linked) <= Len(linked') /\ hpos <= hpos' /\ hpos <= Len(linked)
      /\ \A i \in 1..Len(linked) : linked'[i] = linked[i]
  <2>1. hpos \in 1..tpos /\ tpos \in 1..Len(linked)
    BY DEF IInv, HeadBehindTail
  <2>2. hpos <= Len(linked)
    BY <2>1
  <2>3. DOMAIN linked = 1..Len(linked)
    BY <1>1
  <2>4. QED
    BY <2>2, <2>3 DEF Longer
<1>3. SizeView(u)'
  <2>1. ASSUME Counting(u)
        PROVE  /\ from[u] \in 1..hpos
               /\ cur[u] = Null => from[u] + cnt[u] = seen[u] + 1
               /\ cur[u] # Null => /\ from[u] + cnt[u] \in 1..Len(linked)
                                   /\ cur[u] = linked[from[u] + cnt[u]]
    BY <1>1, <2>1 DEF WalkerView, SizeView
  <2>2. \A i \in 1..Len(linked) : i \in DOMAIN linked'
    BY <1>1, <1>2
  <2>3. ASSUME Counting(u), cur[u] # Null
        PROVE  from[u] + cnt[u] \in DOMAIN linked' /\ cur[u] = linked'[from[u] + cnt[u]]
    BY <1>2, <2>1, <2>2, <2>3
  <2>4. Counting(u) => from[u] \in 1..hpos'
    BY <1>1, <1>2, <2>1
  <2>5. QED
    BY <2>1, <2>3, <2>4 DEF SizeView, Counting
<1>4. FindView(u)'
  BY <1>1, <1>2 DEF WalkerView, FindView
<1>5. DrainView(u)'
  <2> DEFINE under == IF pc[u] \in DequeuePCs THEN 1 ELSE 0
  <2>1. ASSUME op[u] = "drain"
        PROVE  /\ pc[u] \in DequeuePCs \cup {"idle", "deqDone"}
               /\ hpos + todo[u] + under >= seen[u]
               /\ pc[u] = "deqCheck" /\ nxt[u] = Null => hpos >= seen[u]
    BY <2>1 DEF WalkerView, DrainView
  <2>2. under \in Nat
    OBVIOUS
  <2> HIDE DEF under
  <2>3. ASSUME op[u] = "drain"
        PROVE  /\ hpos' + todo[u] + under >= seen[u]
               /\ pc[u] = "deqCheck" /\ nxt[u] = Null => hpos' >= seen[u]
    <3>1. hpos <= hpos'
      BY <1>2
    <3>2. hpos + todo[u] + under >= seen[u] => hpos' + todo[u] + under >= seen[u]
      <4>1. hpos \in Nat /\ hpos' \in Nat /\ todo[u] \in Nat /\ seen[u] \in Nat
        BY <1>1
      <4>2. QED
        BY <2>2, <3>1, <4>1
    <3>3. hpos >= seen[u] => hpos' >= seen[u]
      BY <1>1, <3>1
    <3>4. QED
      BY <2>1, <2>3, <3>2, <3>3
  <2>4. QED
    BY <2>1, <2>3 DEF DrainView, under
<1>6. (op[u] \notin {"none", "drain"} => pc[u] = "idle") /\ (~Counting(u) => cnt[u] = 0)
      /\ seen[u] <= Len(linked)
  BY DEF WalkerView
<1>7. QED
  BY <1>1, <1>2, <1>3, <1>4, <1>5, <1>6 DEF WalkerView, Counting

\* A dequeue that empty() makes moves the head, or answers -1 because the
\* head was the last node of the list, the end that size() met or a later one.
LEMMA DrainStep ==
  ASSUME IInv, IInv', WalkTypes, NEW t \in Threads, WalkerView(t), op[t] = "drain",
         Step(t), UNCHANGED walk
  PROVE  DrainView(t)'
<1> DEFINE Under(c) == IF c \in DequeuePCs THEN 1 ELSE 0
<1>1. /\ hpos \in Nat /\ todo[t] \in Nat /\ seen[t] \in Nat /\ seen[t] <= Len(linked)
      /\ linked \in Seq(Nodes) /\ pc \in [Threads -> PCs] /\ nxt \in [Threads -> NodeOrNull]
  BY DEF IInv, TypeOK, WalkTypes, WalkerView
<1>2. /\ pc[t] \in DequeuePCs \cup {"idle", "deqDone"}
      /\ hpos + todo[t] + Under(pc[t]) >= seen[t]
      /\ pc[t] = "deqCheck" /\ nxt[t] = Null => hpos >= seen[t]
  BY DEF WalkerView, DrainView
<1>3. todo' = todo /\ seen' = seen /\ op' = op
  BY DEF walk
<1>4. ASSUME pc[t] \in DequeuePCs, pc'[t] \in DequeuePCs \ {"deqCheck"}, hpos' = hpos
      PROVE  DrainView(t)'
  BY <1>1, <1>2, <1>3, <1>4 DEF DrainView, DequeuePCs
<1>5. CASE DeqReadNext(t)
  <2>1. pc[t] = "deqNext" /\ pc'[t] = "deqCheck" /\ nxt'[t] = next[first[t]] /\ hpos' = hpos
    BY <1>1, <1>5 DEF DeqReadNext, Goto, history
  <2>2. PICK i \in 1..hpos : first[t] = linked[i]
    BY <2>1 DEF IInv, DequeuerView, ReadFirst
  <2>3. hpos <= Len(linked)
    BY <1>1 DEF IInv, TypeOK, HeadBehindTail
  <2>4. next[first[t]] = IF i = Len(linked) THEN Null ELSE linked[i + 1]
    BY <1>1, <2>2, <2>3 DEF IInv, ChainIsHistory
  <2>5. i # Len(linked) => linked[i + 1] \in Nodes
    BY <1>1, <2>2, <2>3
  <2>6. nxt'[t] = Null => hpos = Len(linked)
    BY <1>1, <2>1, <2>2, <2>3, <2>4, <2>5, MsQueueAssumption
  <2>7. QED
    BY <1>1, <1>2, <1>3, <2>1, <2>6 DEF DrainView, DequeuePCs
<1>6. CASE DeqCheck(t)
  <2>1. hpos' = hpos /\ pc[t] = "deqCheck"
        /\ (\/ pc'[t] \in {"deqHead", "deqSwing", "deqData"}
            \/ (pc'[t] = "deqDone" /\ nxt[t] = Null))
    BY <1>1, <1>6 DEF DeqCheck, Goto, history
  <2>2. CASE pc'[t] = "deqDone" /\ nxt[t] = Null
    BY <1>1, <1>2, <1>3, <2>1, <2>2 DEF DrainView, DequeuePCs
  <2>3. QED
    BY <1>4, <2>1, <2>2 DEF DequeuePCs
<1>7. CASE DeqAdvance(t)
  <2>1. CASE pc'[t] = "deqDone" /\ hpos' = hpos + 1
    BY <1>1, <1>2, <1>3, <2>1 DEF DrainView, DequeuePCs
  <2>2. CASE pc'[t] = "deqHead" /\ hpos' = hpos /\ pc[t] = "deqAdvance"
    BY <1>4, <2>2 DEF DequeuePCs
  <2>3. QED
    BY <1>1, <1>7, <2>1, <2>2 DEF DeqAdvance, Goto
<1>8. CASE DeqReadHead(t) \/ DeqReadTail(t) \/ DeqSwing(t) \/ DeqReadData(t)
  <2>1. hpos' = hpos /\ pc[t] \in DequeuePCs /\ pc'[t] \in DequeuePCs \ {"deqCheck"}
    BY <1>1, <1>8 DEF DeqReadHead, DeqReadTail, DeqSwing, SwingTail, DeqReadData, Goto,
                      history, DequeuePCs
  <2>2. QED
    BY <1>4, <2>1
<1>9. CASE Return(t)
  <2>1. pc[t] = "deqDone" /\ pc'[t] = "idle" /\ hpos' = hpos
    BY <1>1, <1>2, <1>9 DEF Return, history, DequeuePCs
  <2>2. QED
    BY <1>1, <1>2, <1>3, <2>1 DEF DrainView, DequeuePCs
<1>10. ~(EnqReadTail(t) \/ EnqReadNext(t) \/ EnqCheck(t) \/ EnqLink(t) \/ EnqSwing(t))
  BY <1>2 DEF EnqReadTail, EnqReadNext, EnqCheck, EnqLink, EnqSwing, Goto, DequeuePCs
<1>11. QED
  BY <1>5, <1>6, <1>7, <1>8, <1>9, <1>10 DEF Step

\* The steps of the queue, beside the walks or as part of empty().
LEMMA QueueStepKeepsWalks ==
  ASSUME TraversalInv, NEW t \in Threads, QueueStep(t)
  PROVE  TraversalInv'
<1> USE DEF TraversalInv
<1>1. QueueSteps(t) /\ UNCHANGED walk
  BY InvokeIsQueueStep DEF QueueStep, QueueSteps
<1>2. calls' \in [Threads -> 0..MaxCalls]
  <2>1. calls \in [Threads -> 0..MaxCalls]
    BY DEF IInv, TypeOK
  <2>2. CASE Invoke(t)
    BY <2>1, <2>2, MsQueueAssumption DEF Invoke, Count
  <2>3. CASE Step(t)
    <3>1. calls' = calls
      BY <2>3 DEF Step, EnqReadTail,
         EnqReadNext, EnqCheck, EnqLink, EnqSwing, SwingTail, DeqReadHead, DeqReadTail,
         DeqReadNext, DeqCheck, DeqSwing, DeqReadData, DeqAdvance, Return
    <3>2. QED
      BY <2>1, <3>1
  <2>4. QED
    BY <2>2, <2>3 DEF QueueStep
<1>3. IInv' /\ Longer
  BY <1>1, <1>2, QueueStepKeepsInv, QueueStepGrows
<1>4. WalkTypes'
  BY <1>1 DEF WalkTypes, walk
<1>5. ASSUME NEW u \in Threads \ {t} PROVE WalkerView(u)'
  <2>1. pc'[u] = pc[u] /\ nxt'[u] = nxt[u] /\ WalkKept(u)
    BY <1>1, QueueStepGrows DEF WalkKept, walk
  <2>2. QED
    BY <1>3, <2>1, WalkerSurvives
<1>6. WalkerView(t)'
  <2>1. /\ WalkerView(t) /\ seen[t] \in Nat /\ linked \in Seq(Nodes) /\ linked' \in Seq(Nodes)
        /\ Len(linked) <= Len(linked') /\ op'[t] = op[t] /\ cnt'[t] = cnt[t]
        /\ seen'[t] = seen[t]
    BY <1>1, <1>3 DEF WalkTypes, Longer, IInv, TypeOK, walk
  <2>2. op[t] \in {"none", "drain"}
    <3>1. pc[t] # "idle" \/ op[t] = "none"
      BY DEF QueueStep, Free, Step, Goto, EnqReadTail,
         EnqReadNext, EnqCheck, EnqLink, EnqSwing, SwingTail, DeqReadHead, DeqReadTail,
         DeqReadNext, DeqCheck, DeqSwing, DeqReadData, DeqAdvance, Return
    <3>2. QED
      BY <2>1, <3>1 DEF WalkerView
  <2>3. op[t] = "drain" => DrainView(t)'
    <3>1. op[t] = "drain" => Step(t)
      BY DEF QueueStep, Free
    <3>2. QED
      BY <1>1, <1>3, <2>1, <3>1, DrainStep
  <2>4. QED
    BY <2>1, <2>2, <2>3 DEF WalkerView, SizeView, FindView, DrainView, Counting
<1>7. QED
  BY <1>3, <1>4, <1>5, <1>6

LEMMA EmptyDequeueKeeps ==
  ASSUME TraversalInv, NEW t \in Threads, EmptyDequeue(t)
  PROVE  TraversalInv'
<1> USE DEF TraversalInv
<1>1. StartDequeue(t) /\ QueueSteps(t) /\ calls' = calls
  BY DEF EmptyDequeue, QueueSteps
<1>2. IInv' /\ Longer
  BY <1>1, QueueStepKeepsInv, QueueStepGrows DEF IInv, TypeOK
<1>3. WalkTypes'
  BY DEF WalkTypes, EmptyDequeue
<1>4. ASSUME NEW u \in Threads \ {t} PROVE WalkerView(u)'
  <2>1. pc'[u] = pc[u] /\ nxt'[u] = nxt[u] /\ WalkKept(u)
    BY <1>1, QueueStepGrows DEF WalkKept, EmptyDequeue, WalkTypes
  <2>2. QED
    BY <1>2, <2>1, WalkerSurvives
<1>5. WalkerView(t)'
  <2>1. /\ op[t] = "drain" /\ op'[t] = "drain" /\ cnt'[t] = cnt[t] /\ seen'[t] = seen[t]
        /\ todo[t] \in Nat /\ todo[t] > 0 /\ todo'[t] = todo[t] - 1
        /\ seen[t] \in Nat /\ hpos \in Nat /\ hpos' = hpos /\ linked' = linked
        /\ pc[t] = "idle" /\ pc'[t] = "deqHead"
    BY DEF EmptyDequeue, StartDequeue, Goto, history, WalkTypes, IInv, TypeOK
  <2>2. cnt[t] = 0 /\ seen[t] <= Len(linked) /\ hpos + todo[t] + 0 >= seen[t]
    BY <2>1 DEF WalkerView, Counting, DrainView, DequeuePCs
  <2>3. hpos + (todo[t] - 1) + 1 >= seen[t]
    <3>1. hpos \in Nat /\ todo[t] \in Nat /\ seen[t] \in Nat /\ hpos + todo[t] + 0 >= seen[t]
      BY <2>1, <2>2
    <3>2. QED
      BY <3>1
  <2>4. QED
    BY <2>1, <2>2, <2>3
       DEF WalkerView, Counting, SizeView, FindView, DrainView, DequeuePCs
<1>6. QED
  BY <1>2, <1>3, <1>4, <1>5

\* A step of a walk that leaves the queue alone: only its thread can notice.
LEMMA QuietWalk ==
  ASSUME TraversalInv, NEW t \in Threads,
         UNCHANGED <<shared, pc, locals, history>>, calls' \in [Threads -> 0..MaxCalls],
         WalkTypes', \A u \in Threads \ {t} : WalkKept(u), WalkerView(t)'
  PROVE  TraversalInv'
<1> USE DEF TraversalInv
<1>1. IInv'
  BY QuietQueue
<1>2. Longer
  BY DEF Longer, history, IInv, TypeOK
<1>3. ASSUME NEW u \in Threads \ {t} PROVE WalkerView(u)'
  <2>1. pc'[u] = pc[u] /\ nxt'[u] = nxt[u]
    BY DEF locals
  <2>2. QED
    BY <1>1, <1>2, <2>1, WalkerSurvives
<1>4. QED
  BY <1>1, <1>3

LEMMA StartAtKeeps ==
  ASSUME TraversalInv, NEW t \in Threads, NEW o \in {"size", "emptySize", "find"},
         StartAt(t, o), target' \in [Threads -> ValueOrEmpty]
  PROVE  TraversalInv'
<1> USE DEF TraversalInv
<1>1. UNCHANGED <<shared, pc, locals, history, cnt, todo, seen>> /\ pc[t] = "idle"
      /\ op[t] = "none"
  BY DEF StartAt, Free
<1>2. calls' \in [Threads -> 0..MaxCalls]
  BY MsQueueAssumption DEF StartAt, Count, IInv, TypeOK
<1>3. head \in Nodes /\ hpos \in 1..Len(linked) /\ head = linked[hpos] /\ hpos \in Nat
      /\ linked \in Seq(Nodes)
  BY DEF IInv, TypeOK, HeadBehindTail
<1>4. op'[t] = o /\ cur'[t] = head /\ from'[t] = hpos /\ cnt'[t] = cnt[t]
      /\ seen'[t] = seen[t] /\ pc'[t] = "idle" /\ linked' = linked /\ hpos' = hpos
  BY <1>1 DEF StartAt, WalkTypes, history
<1>5. WalkTypes'
  BY <1>1, <1>3 DEF StartAt, WalkTypes, Ops
<1>6. cnt[t] = 0 /\ seen[t] <= Len(linked) /\ hpos + 0 = hpos
  BY <1>1, <1>3 DEF WalkerView, Counting
<1>7. head # Null
  BY <1>3, MsQueueAssumption
<1>8. WalkerView(t)'
  BY <1>3, <1>4, <1>6, <1>7
     DEF WalkerView, Counting, SizeView, FindView, DrainView
<1>9. \A u \in Threads \ {t} : WalkKept(u)
  BY <1>1 DEF StartAt, WalkKept, WalkTypes
<1>10. QED
  BY <1>1, <1>2, <1>5, <1>8, <1>9, QuietWalk

LEMMA SizeStepKeeps ==
  ASSUME TraversalInv, NEW t \in Threads, SizeStep(t)
  PROVE  TraversalInv'
<1> USE DEF TraversalInv
<1> DEFINE p == from[t] + cnt[t]
<1>1. UNCHANGED <<shared, pc, locals, history>> /\ calls' \in [Threads -> 0..MaxCalls]
  BY DEF SizeStep, vars, shared, locals, history, IInv, TypeOK
<1>2. linked \in Seq(Nodes) /\ hpos \in Nat /\ from[t] \in Nat /\ cnt[t] \in Nat
      /\ linked' = linked /\ hpos' = hpos /\ pc' = pc
  BY <1>1 DEF IInv, TypeOK, WalkTypes, history
<1>3. Counting(t) /\ cur[t] # Null /\ from[t] \in 1..hpos /\ p \in 1..Len(linked)
      /\ cur[t] = linked[p] /\ pc[t] = "idle"
  BY <1>2 DEF SizeStep, Counting, WalkerView, SizeView
<1>4. next[cur[t]] = IF p = Len(linked) THEN Null ELSE linked[p + 1]
  BY <1>2, <1>3 DEF IInv, ChainIsHistory
<1>5. /\ op' = op /\ from' = from /\ cur'[t] = next[cur[t]] /\ cnt'[t] = cnt[t] + 1
      /\ seen'[t] = Len(linked)
  BY DEF SizeStep, WalkTypes
<1>6. next[cur[t]] \in NodeOrNull
  BY <1>2, <1>3 DEF IInv, TypeOK
<1>7. WalkTypes'
  BY <1>2, <1>6 DEF SizeStep, WalkTypes
<1>8. from[t] + cnt'[t] = p + 1
  <2>1. from[t] \in Nat /\ cnt[t] \in Nat /\ cnt'[t] = cnt[t] + 1
    BY <1>2, <1>5
  <2>2. QED
    BY <2>1
<1>9. SizeView(t)'
  <2>1. CASE p = Len(linked)
    <3>1. cur'[t] = Null /\ p + 1 = seen'[t] + 1
      BY <1>4, <1>5, <2>1
    <3>2. QED
      BY <1>2, <1>3, <1>5, <1>8, <3>1 DEF SizeView, Counting
  <2>2. CASE p # Len(linked)
    <3>1. p + 1 \in 1..Len(linked) /\ cur'[t] = linked[p + 1]
      <4>1. p \in 1..Len(linked) /\ Len(linked) \in Nat
        BY <1>2, <1>3
      <4>2. cur'[t] = linked[p + 1]
        BY <1>4, <1>5, <2>2
      <4> HIDE DEF p
      <4>3. p + 1 \in 1..Len(linked)
        BY <4>1, <2>2
      <4>4. QED
        BY <4>2, <4>3
    <3>2. linked[p + 1] # Null
      BY <1>2, <3>1, MsQueueAssumption
    <3>3. QED
      BY <1>2, <1>3, <1>5, <1>8, <3>1, <3>2 DEF SizeView, Counting
  <2>3. QED
    BY <2>1, <2>2
<1>10. WalkerView(t)'
  BY <1>2, <1>3, <1>5, <1>9 DEF WalkerView, FindView, DrainView, Counting
<1>11. \A u \in Threads \ {t} : WalkKept(u)
  BY DEF SizeStep, WalkKept, WalkTypes
<1>12. QED
  BY <1>1, <1>7, <1>10, <1>11, QuietWalk

\* size returns, empty() begins to dequeue, empty() returns, find answers.
LEMMA WalkEndKeeps ==
  ASSUME TraversalInv, NEW t \in Threads,
         \/ SizeReturn(t) \/ EmptyLoop(t) \/ EmptyReturn(t)
         \/ FindMatch(t) \/ FindSpin(t) \/ FindReturn(t)
  PROVE  TraversalInv'
<1> USE DEF TraversalInv
<1>1. UNCHANGED vars
  BY DEF SizeReturn, EmptyLoop, EmptyReturn, FindMatch, FindSpin, FindReturn, allVars
<1>2. UNCHANGED <<shared, pc, locals, history>> /\ calls' \in [Threads -> 0..MaxCalls]
  BY <1>1 DEF vars, shared, locals, history, IInv, TypeOK
<1>3. WalkTypes'
  <2>1. CASE EmptyLoop(t)
    BY <2>1 DEF EmptyLoop, WalkTypes, Ops
  <2>2. CASE ~EmptyLoop(t)
    BY <2>2 DEF SizeReturn, EmptyReturn, FindMatch, FindSpin, FindReturn, Forget,
                WalkTypes, Ops, allVars, walk
  <2>3. QED
    BY <2>1, <2>2
<1>4. \A u \in Threads \ {t} : WalkKept(u)
  BY DEF SizeReturn, EmptyLoop, EmptyReturn, FindMatch, FindSpin, FindReturn, Forget,
         WalkTypes, WalkKept, allVars, walk
<1>5. linked \in Seq(Nodes) /\ hpos \in Nat /\ from[t] \in Nat /\ cnt[t] \in Nat
      /\ seen[t] \in Nat /\ todo[t] \in Nat
      /\ linked' = linked /\ hpos' = hpos /\ pc' = pc /\ nxt' = nxt
  BY <1>2 DEF IInv, TypeOK, WalkTypes, history, locals
<1>6. CASE EmptyLoop(t)
  <2>1. /\ op[t] = "emptySize" /\ cur[t] = Null /\ op'[t] = "drain" /\ cnt'[t] = 0
        /\ todo'[t] = cnt[t] + 1 /\ seen'[t] = seen[t] /\ pc[t] = "idle"
    BY <1>6 DEF EmptyLoop, WalkTypes, WalkerView
  <2>2. from[t] \in 1..hpos /\ from[t] + cnt[t] = seen[t] + 1 /\ seen[t] <= Len(linked)
    BY <2>1 DEF WalkerView, SizeView, Counting
  <2>3. hpos + (cnt[t] + 1) >= seen[t]
    <3>1. from[t] <= hpos /\ from[t] + cnt[t] = seen[t] + 1
      BY <1>5, <2>2
    <3>2. from[t] \in Nat /\ hpos \in Nat /\ cnt[t] \in Nat /\ seen[t] \in Nat
      BY <1>5
    <3>3. QED
      BY <3>1, <3>2
  <2>4. WalkerView(t)'
    BY <1>5, <2>1, <2>2, <2>3
       DEF WalkerView, SizeView, FindView, DrainView, Counting, DequeuePCs
  <2>5. QED
    BY <1>2, <1>3, <1>4, <2>4, QuietWalk
<1>7. CASE FindMatch(t) \/ FindSpin(t)
  <2>1. /\ op[t] = "find" /\ op'[t] \in {"find", "found"} /\ cur' = cur /\ cnt' = cnt
        /\ from' = from /\ seen' = seen
    BY <1>7 DEF FindMatch, FindSpin, WalkTypes, allVars, walk
  <2>2. WalkerView(t)'
    BY <1>5, <2>1 DEF WalkerView, SizeView, FindView, DrainView, Counting
  <2>3. QED
    BY <1>2, <1>3, <1>4, <2>2, QuietWalk
<1>8. CASE SizeReturn(t) \/ EmptyReturn(t) \/ FindReturn(t)
  <2>1. op'[t] = "none" /\ cnt'[t] = 0 /\ seen'[t] <= Len(linked)
    BY <1>5, <1>8 DEF SizeReturn, EmptyReturn, Drained, FindReturn, Forget, WalkTypes,
                      WalkerView, Counting
  <2>2. WalkerView(t)'
    BY <1>5, <2>1 DEF WalkerView, SizeView, FindView, DrainView, Counting
  <2>3. QED
    BY <1>2, <1>3, <1>4, <2>2, QuietWalk
<1>9. QED
  BY <1>6, <1>7, <1>8

LEMMA TraversalInitInvariant == TraversalInit => TraversalInv
<1> SUFFICES ASSUME TraversalInit PROVE TraversalInv
  OBVIOUS
<1>1. IInv /\ linked \in Seq(Nodes)
  BY InitInvariant DEF TraversalInit, IInv, TypeOK
<1>2. WalkTypes
  BY DEF TraversalInit, WalkTypes, Ops
<1>3. ASSUME NEW t \in Threads PROVE WalkerView(t)
  BY <1>1 DEF TraversalInit, WalkerView, SizeView, FindView, DrainView, Counting
<1>4. QED
  BY <1>1, <1>2, <1>3 DEF TraversalInv

LEMMA TraversalNextInvariant == TraversalInv /\ [TraversalNext]_allVars => TraversalInv'
<1> SUFFICES ASSUME TraversalInv, [TraversalNext]_allVars PROVE TraversalInv'
  OBVIOUS
<1>1. CASE UNCHANGED allVars
  <2>1. IInv'
    BY <1>1, NextInvariant DEF allVars, TraversalInv
  <2>2. WalkTypes'
    BY <1>1 DEF allVars, walk, WalkTypes, TraversalInv
  <2>3. ASSUME NEW t \in Threads PROVE WalkerView(t)'
    BY <1>1 DEF allVars, vars, walk, TraversalInv, WalkerView, SizeView, FindView,
                DrainView, Counting
  <2>4. QED
    BY <2>1, <2>2, <2>3 DEF TraversalInv
<1>2. ASSUME NEW t \in Threads, TraversalStep(t) PROVE TraversalInv'
  <2>1. CASE StartSize(t) \/ StartEmpty(t)
    BY <2>1, StartAtKeeps DEF StartSize, StartEmpty, TraversalInv, WalkTypes
  <2>2. ASSUME NEW v \in Values \cup {Empty}, StartFind(t, v) PROVE TraversalInv'
    <3>1. target' \in [Threads -> ValueOrEmpty]
      BY <2>2 DEF StartFind, TraversalInv, WalkTypes
    <3>2. QED
      BY <2>2, <3>1, StartAtKeeps DEF StartFind
  <2>3. QED
    BY <1>2, <2>1, <2>2, SizeStepKeeps, WalkEndKeeps, EmptyDequeueKeeps DEF TraversalStep
<1>3. QED
  BY <1>1, <1>2, QueueStepKeepsWalks DEF TraversalNext, TraversalTerminating

THEOREM TraversalInvariant == TraversalSpec => []TraversalInv
<1>1. QED
  BY TraversalInitInvariant, TraversalNextInvariant, PTL DEF TraversalSpec

\* size answers the length of the walk from the head it began at to the end
\* of the list it met, whatever the other threads do meanwhile.
THEOREM SizeIsOneWalk == TraversalSpec => []SizeCountsOneWalk
<1>1. ASSUME TraversalInv PROVE SizeCountsOneWalk
  <2>1. ASSUME NEW t \in Threads, Sized(t) PROVE cnt[t] = seen[t] - from[t] + 1
    <3>1. from[t] + cnt[t] = seen[t] + 1
      BY <1>1, <2>1 DEF Sized, TraversalInv, WalkerView, SizeView, Counting
    <3>2. from[t] \in Nat /\ cnt[t] \in Nat /\ seen[t] \in Nat
      BY <1>1 DEF TraversalInv, WalkTypes
    <3>3. QED
      BY <3>1, <3>2
  <2>2. QED
    BY <2>1 DEF SizeCountsOneWalk
<1>2. QED
  BY <1>1, TraversalInvariant, PTL

\* empty() does not return before everything that was in the queue when its
\* size() met the end of the list is dequeued.
THEOREM EmptyDrainsAll == TraversalSpec => []EmptyDrains
<1>1. ASSUME TraversalInv PROVE EmptyDrains
  <2>1. ASSUME NEW t \in Threads, Drained(t) PROVE hpos >= seen[t]
    <3>1. op[t] = "drain" /\ todo[t] = 0 /\ pc[t] \notin DequeuePCs
      BY <2>1 DEF Drained, DequeuePCs
    <3>2. hpos + 0 + 0 >= seen[t]
      BY <1>1, <3>1 DEF TraversalInv, WalkerView, DrainView
    <3>3. hpos \in Nat /\ seen[t] \in Nat
      BY <1>1 DEF TraversalInv, WalkTypes, IInv, TypeOK
    <3>4. QED
      BY <3>2, <3>3
  <2>2. QED
    BY <2>1 DEF EmptyDrains
<1>2. QED
  BY <1>1, TraversalInvariant, PTL

\* find answers only from a node whose element has left the queue.
THEOREM FindAnswersOnlyRemoved == TraversalSpec => []FindAnswersRemoved
<1>1. ASSUME TraversalInv PROVE FindAnswersRemoved
  BY <1>1 DEF FindAnswersRemoved, TraversalInv, WalkerView, FindView
<1>2. QED
  BY <1>1, TraversalInvariant, PTL

\* The list stays as sound, and is written as rarely, when size, empty and find
\* run beside the enqueues and dequeues, and empty() makes dequeues of its own.
THEOREM ListStaysSoundBesideWalks == TraversalSpec => []ListIsSound
<1>1. TraversalInv => ListIsSound
  BY NoNullFromInv DEF TraversalInv, IInv, ListIsSound
<1>2. QED
  BY <1>1, TraversalInvariant, PTL

\* What a traversal does to the queue: nothing, or empty() begins a dequeue.
LEMMA TraversalStepOfQueue ==
  ASSUME NEW t \in Threads, TraversalStep(t)
  PROVE  UNCHANGED <<shared, pc, locals, history>> \/ StartDequeue(t)
<1>1. ASSUME UNCHANGED vars PROVE UNCHANGED <<shared, pc, locals, history>>
  BY <1>1 DEF vars, shared, locals, history
<1>2. SizeStep(t) \/ SizeReturn(t) \/ EmptyLoop(t) \/ EmptyReturn(t)
      \/ FindMatch(t) \/ FindSpin(t) \/ FindReturn(t) => UNCHANGED vars
  BY DEF SizeStep, SizeReturn, EmptyLoop, EmptyReturn, FindMatch, FindSpin, FindReturn,
         allVars
<1>3. QED
  BY <1>1, <1>2 DEF TraversalStep, StartSize, StartEmpty, StartFind, StartAt, EmptyDequeue

THEOREM ListWritesOnceBesideWalks == TraversalSpec => ListIsWriteOnce
<1>1. ASSUME TraversalInv, [TraversalNext]_allVars PROVE [WritesOnce]_vars
  <2>1. CASE UNCHANGED allVars
    BY <2>1 DEF allVars
  <2>2. ASSUME NEW t \in Threads, QueueStep(t) PROVE WritesOnce
    BY <1>1, <2>2, QueueStepsWriteOnce, InvokeIsQueueStep
       DEF QueueStep, QueueSteps, TraversalInv
  <2>3. ASSUME NEW t \in Threads, TraversalStep(t) PROVE WritesOnce
    <3>1. CASE UNCHANGED <<shared, pc, locals, history>>
      BY <3>1 DEF WritesOnce, shared
    <3>2. CASE StartDequeue(t)
      BY <1>1, <3>2, QueueStepsWriteOnce DEF QueueSteps, TraversalInv
    <3>3. QED
      BY <2>3, <3>1, <3>2, TraversalStepOfQueue
  <2>4. QED
    BY <1>1, <2>1, <2>2, <2>3 DEF TraversalNext, TraversalTerminating
<1>2. QED
  BY <1>1, TraversalInvariant, PTL DEF TraversalSpec, ListIsWriteOnce

\* The queue is a linearizable FIFO beside the traversals too: each dequeue of
\* empty() is a dequeue like any other.
THEOREM LinearizableBesideWalks == TraversalSpec => RefinesFifo
<1>1. ASSUME TraversalInv, [TraversalNext]_allVars PROVE [Fifo!Next]_(Fifo!vars)
  <2>1. ASSUME UNCHANGED <<pc, node, data, ret, first, last, nxt, linked, hpos>>
        PROVE  UNCHANGED Fifo!vars
    <3>1. \A t \in Threads : CallOf(t)' = CallOf(t)
      BY <2>1 DEF CallOf, SeesEmpty
    <3>2. QED
      BY <2>1, <3>1, LogUnchanged DEF Fifo!vars, CallsOfThreads
  <2>2. CASE UNCHANGED allVars
    BY <2>1, <2>2 DEF allVars, vars
  <2>3. ASSUME NEW t \in Threads, QueueStep(t) PROVE [Fifo!Next]_(Fifo!vars)
    BY <1>1, <2>3, NextRefines DEF QueueStep, Next, TraversalInv
  <2>4. ASSUME NEW t \in Threads, TraversalStep(t) PROVE [Fifo!Next]_(Fifo!vars)
    <3>1. CASE UNCHANGED <<shared, pc, locals, history>>
      BY <2>1, <3>1 DEF shared, locals, history
    <3>2. CASE StartDequeue(t)
      BY <1>1, <3>2, StartDequeueRefines DEF TraversalInv, Fifo!Next
    <3>3. QED
      BY <2>4, <3>1, <3>2, TraversalStepOfQueue
  <2>5. QED
    BY <1>1, <2>2, <2>3, <2>4 DEF TraversalNext, TraversalTerminating
<1>2. TraversalInit => Fifo!Init
  BY InitRefines DEF TraversalInit
<1>3. TraversalSpec => Fifo!Spec
  BY <1>1, <1>2, TraversalInvariant, PTL DEF TraversalSpec, Fifo!Spec
<1>4. QED
  BY <1>3 DEF RefinesFifo
=============================================================================
