-------------------------- MODULE HandOverHandList --------------------------
(***************************************************************************)
(* The sorted list with hand-over-hand locking of                          *)
(* src/lib/DS/SLLs/SLL_HOHL/SLL_HOHL.hpp (SLL_hand), and of its twin       *)
(* SLL_HOHL_spin.hpp, which differs only in the lock type.                 *)
(*                                                                         *)
(* A thread blocks only where it takes a lock, and what a lock guards is   *)
(* read and written by its holder alone: one action is the stretch from    *)
(* taking one lock to waiting for the next, with at most one write that a  *)
(* thread without locks can see.  search and size take no lock; each of    *)
(* their loads is an action.                                               *)
(*                                                                         *)
(* The constructor of Node leaves nextNode uninitialised.  insert sets it, *)
(* except for the first node of an empty list: FreshNext says what may     *)
(* stand there, Null or an address that is no node (Wild).  Following Wild *)
(* ends the process.  Nodes are never deleted.                             *)
(***************************************************************************)
EXTENDS Integers, FiniteSets

CONSTANTS
  Threads, Values,
  Nodes,      \* addresses of nodes, used in their order, which decides nothing;
              \* bounds how many values are inserted
  Null, Wild, Empty, NoThread,
  FreshNext,  \* what nextNode holds in a new node
  Prefill,    \* the values inserted before the threads start
  MaxCalls    \* bound: how many calls each thread makes

ASSUME HandOverHandAssumption ==
  /\ Values \subseteq Int /\ Nodes \subseteq Int /\ IsFiniteSet(Nodes) /\ Empty \notin Values /\ Prefill \subseteq Values
  /\ Null \notin Nodes /\ Wild \notin Nodes /\ Null # Wild
  /\ NoThread \notin Threads
  /\ FreshNext \subseteq {Null, Wild} /\ MaxCalls \in Nat

VARIABLES
  head,
  nextNode, data,  \* fields of each node; data is Empty before its insertion
  listLock,        \* the thread that holds the list's mutex
  nodeLock,        \* the thread that holds each node's mutex
  pc,
  op, arg,         \* the operation each thread is in, and its argument
  current,         \* current of insert, remove, search and size
  nxt,             \* current->nextNode, once current's lock is held
  ret,             \* the answer: Empty for false and -1
  counter,         \* counter of size
  calls,           \* how many calls each thread has made
  live,            \* history: the nodes in the list
  ever, always     \* history: values in the list at some, at every instant
                   \* of the search or size a thread is in

list == <<head, nextNode, data>>
locks == <<listLock, nodeLock>>
call == <<op, arg, calls>>
place == <<current, nxt>>
scan == <<ever, always>>
vars == <<list, locks, pc, call, place, ret, counter, live, scan>>

PCs == {"idle", "list", "top", "walk", "scan", "done", "segv"}
Ops == {"none", "insert", "remove", "removeFirst", "empty", "search", "size"}

Contents(S, d) == {d[n] : n \in S}
Elements == Contents(live, data)

\* The nodes of S are a list from head h, sorted, without a value twice; its
\* last node still holds what its nextNode held when it was new.
SortedFrom(h, S, succ, d) ==
  /\ IF S = {} THEN h \in {Null} \cup FreshNext
     ELSE h \in S /\ \A n \in S : d[h] <= d[n]
  /\ \A n \in S :
       IF succ[n] \in S
       THEN d[n] < d[succ[n]] /\ \A m \in S : d[m] <= d[n] \/ d[succ[n]] <= d[m]
       ELSE succ[n] \in FreshNext /\ \A m \in S : d[m] <= d[n]
  /\ \A n, m \in S : d[n] = d[m] => n = m

Init ==
  /\ head \in Nodes \cup {Null}
  /\ live \in SUBSET Nodes
  /\ data \in [Nodes -> Prefill \cup {Empty}]
  /\ \A n \in Nodes : n \in live <=> data[n] # Empty
  /\ Elements = Prefill
  /\ \A n \in live : \A m \in Nodes : m < n => m \in live /\ data[m] < data[n]
  /\ nextNode \in [Nodes -> Nodes \cup {Null} \cup FreshNext]
  /\ \A n \in Nodes \ live : nextNode[n] = Null
  /\ SortedFrom(head, live, nextNode, data)
  /\ listLock = NoThread /\ nodeLock = [n \in Nodes |-> NoThread]
  /\ pc = [t \in Threads |-> "idle"]
  /\ op = [t \in Threads |-> "none"] /\ arg = [t \in Threads |-> Empty]
  /\ current = [t \in Threads |-> Null] /\ nxt = [t \in Threads |-> Null]
  /\ ret = [t \in Threads |-> Empty] /\ counter = [t \in Threads |-> 0]
  /\ calls = [t \in Threads |-> 0]
  /\ ever = [t \in Threads |-> {}] /\ always = [t \in Threads |-> {}]

Goto(t, from, to) == pc[t] = from /\ pc' = [pc EXCEPT ![t] = to]
Answer(t, v) == ret' = [ret EXCEPT ![t] = v]
NextOf(t) == nextNode[current[t]]

\* current is n; its successor is read under its lock, if it is read at all.
Stand(t, n, after) ==
  current' = [current EXCEPT ![t] = n] /\ nxt' = [nxt EXCEPT ![t] = after]

\* A crash ends the process: no thread takes another step.
Segv(t, from) ==
  /\ Goto(t, from, "segv")
  /\ UNCHANGED <<list, locks, call, place, ret, counter, live>>

(***************************************************************************)
(* Calls                                                                   *)
(***************************************************************************)
Count(t) == calls[t] < MaxCalls /\ calls' = [calls EXCEPT ![t] = @ + 1]

\* The locking operations begin by waiting for the list's lock.
Enter(t, o, v) ==
  /\ Goto(t, "idle", "list") /\ Count(t)
  /\ op' = [op EXCEPT ![t] = o] /\ arg' = [arg EXCEPT ![t] = v]
  /\ UNCHANGED <<list, locks, place, ret, counter, live>>

\* search and size read head at once.
StartScan(t, o, v) ==
  /\ Goto(t, "idle", "scan") /\ Count(t)
  /\ op' = [op EXCEPT ![t] = o] /\ arg' = [arg EXCEPT ![t] = v]
  /\ Stand(t, head, Null)
  /\ UNCHANGED <<list, locks, ret, counter, live>>

\* insert allocates its node first; nobody sees it before it is linked, so
\* the model picks it there and only asks here that the pool suffices.
Fresh == {n \in Nodes : data[n] = Empty}
Inserting == {t \in Threads : op[t] = "insert" /\ pc[t] # "done"}
NewNode == CHOOSE n \in Fresh : TRUE
RoomToInsert == Cardinality(Fresh) > Cardinality(Inserting)

\* head is read under the lock.  The code reads it again each time it uses
\* it; the model works with the first value, from here to the write of head.
LockList(t) ==
  /\ Goto(t, "list", "top")
  /\ listLock = NoThread /\ listLock' = t
  /\ Stand(t, head, Null)
  /\ UNCHANGED <<list, nodeLock, call, ret, counter, live>>

Return(t) ==
  /\ Goto(t, "done", "idle")
  /\ op' = [op EXCEPT ![t] = "none"] /\ arg' = [arg EXCEPT ![t] = Empty]
  /\ Stand(t, Null, Null)
  /\ counter' = [counter EXCEPT ![t] = 0]
  /\ Answer(t, Empty)
  /\ UNCHANGED <<list, locks, calls, live>>

(***************************************************************************)
(* At the head, under listLock                                             *)
(***************************************************************************)
\* The operation is over and its locks are free again.
FinishTop(t, v) ==
  /\ Goto(t, "top", "done") /\ Answer(t, v)
  /\ listLock' = NoThread
  /\ UNCHANGED <<nodeLock, call, place, counter>>

LinkNew(t, n, x) ==
  /\ data' = [data EXCEPT ![n] = arg[t]]
  /\ nextNode' = [nextNode EXCEPT ![n] = x]
  /\ head' = n /\ live' = live \cup {n}

\* The first node of a list keeps the nextNode it was allocated with.
InsertAtHead(t) ==
  LET h == current[t] IN
  /\ pc[t] = "top" /\ op[t] = "insert"
  /\ \/ /\ h = Null
        /\ \E x \in FreshNext : LinkNew(t, NewNode, x)
        /\ FinishTop(t, arg[t])
     \/ /\ h \in Nodes /\ data[h] = arg[t]
        /\ FinishTop(t, Empty)
        /\ UNCHANGED <<list, live>>
     \/ /\ h \in Nodes /\ data[h] > arg[t]
        /\ LinkNew(t, NewNode, h)
        /\ FinishTop(t, arg[t])

\* remove and removeFirst find an empty list.
FindEmpty(t) ==
  /\ op[t] \in {"remove", "removeFirst", "empty"}
  /\ current[t] = Null
  /\ FinishTop(t, Empty)
  /\ UNCHANGED <<list, live>>

\* Slip: the head is unlinked without the lock of its node.
UnlinkHeadUnlocked(t) ==
  /\ current[t] \in Nodes
  /\ head' = NextOf(t) /\ live' = live \ {current[t]}
  /\ UNCHANGED <<nextNode, data>>

\* Slip: the unlinked node no longer leads into the list.
UnlinkHeadCut(t) ==
  /\ current[t] \in Nodes /\ nodeLock[current[t]] = NoThread
  /\ head' = NextOf(t) /\ live' = live \ {current[t]}
  /\ nextNode' = [nextNode EXCEPT ![current[t]] = Null]
  /\ UNCHANGED data

\* The head is unlinked once its node's lock could be taken.
UnlinkHead(t) ==
  /\ current[t] \in Nodes /\ nodeLock[current[t]] = NoThread
  /\ head' = NextOf(t) /\ live' = live \ {current[t]}
  /\ UNCHANGED <<nextNode, data>>

RemoveHead(t) ==
  /\ op[t] = "remove" /\ current[t] \in Nodes /\ data[current[t]] = arg[t]
  /\ UnlinkHead(t) /\ FinishTop(t, arg[t])

RemoveFirst(t) ==
  /\ op[t] = "removeFirst" /\ current[t] \in Nodes
  /\ UnlinkHead(t) /\ FinishTop(t, data[current[t]])

\* empty: while(this->removeFirst() != -1)
EmptyStep(t) ==
  /\ op[t] = "empty"
  /\ UnlinkHead(t)
  /\ Goto(t, "top", "list") /\ listLock' = NoThread
  /\ UNCHANGED <<nodeLock, call, place, ret, counter>>

\* The list's lock is exchanged for the lock of the head's node.
EnterList(t) ==
  LET h == current[t] IN
  /\ \/ op[t] = "insert" /\ h \in Nodes /\ data[h] < arg[t]
     \/ op[t] = "remove" /\ h \in Nodes /\ data[h] # arg[t]
  /\ Goto(t, "top", "walk")
  /\ nodeLock[h] = NoThread
  /\ nodeLock' = [nodeLock EXCEPT ![h] = t] /\ listLock' = NoThread
  /\ Stand(t, h, nextNode[h])
  /\ UNCHANGED <<list, call, ret, counter, live>>

\* Every one of these operations dereferences head when it is not NULL.
TopWild(t) == current[t] = Wild /\ Segv(t, "top")

AtTop(t) == pc[t] = "top" /\
  \/ InsertAtHead(t) \/ FindEmpty(t) \/ RemoveHead(t) \/ RemoveFirst(t)
  \/ EmptyStep(t) \/ EnterList(t) \/ TopWild(t)

(***************************************************************************)
(* In the list, holding current's lock                                     *)
(***************************************************************************)
\* Slip: the next node's lock is not waited for.
HopUnlocked(t) ==
  LET n == nxt[t] IN
  /\ pc[t] = "walk" /\ n \in Nodes /\ data[n] < arg[t]
  /\ nodeLock' = [nodeLock EXCEPT ![n] = t, ![current[t]] = NoThread]
  /\ Stand(t, n, nextNode[n])
  /\ UNCHANGED <<list, listLock, pc, call, ret, counter, live>>

\* The lock of the next node is taken, then current's is given back.
Hop(t) ==
  LET n == nxt[t] IN
  /\ pc[t] = "walk" /\ n \in Nodes /\ data[n] < arg[t]
  /\ nodeLock[n] = NoThread
  /\ nodeLock' = [nodeLock EXCEPT ![n] = t, ![current[t]] = NoThread]
  /\ Stand(t, n, nextNode[n])
  /\ UNCHANGED <<list, listLock, pc, call, ret, counter, live>>

FinishWalk(t, v) ==
  /\ Goto(t, "walk", "done") /\ Answer(t, v)
  /\ nodeLock' = [nodeLock EXCEPT ![current[t]] = NoThread]
  /\ UNCHANGED <<listLock, call, place, counter>>

\* The new node is in the list if the node before it is.
InsertAfter(t, n) ==
  /\ data' = [data EXCEPT ![n] = arg[t]]
  /\ nextNode' = [nextNode EXCEPT ![n] = nxt[t], ![current[t]] = n]
  /\ live' = IF current[t] \in live THEN live \cup {n} ELSE live
  /\ UNCHANGED head

InsertHere(t) ==
  /\ pc[t] = "walk" /\ op[t] = "insert"
  /\ nxt[t] = Null \/ (nxt[t] \in Nodes /\ data[nxt[t]] > arg[t])
  /\ InsertAfter(t, NewNode)
  /\ FinishWalk(t, arg[t])

InsertFinds(t) ==
  /\ pc[t] = "walk" /\ op[t] = "insert"
  /\ nxt[t] \in Nodes /\ data[nxt[t]] = arg[t]
  /\ FinishWalk(t, Empty)
  /\ UNCHANGED <<list, live>>

\* next is unlinked once its lock could be taken.
RemoveNext(t) ==
  LET n == nxt[t] IN
  /\ pc[t] = "walk" /\ op[t] = "remove"
  /\ n \in Nodes /\ data[n] = arg[t] /\ nodeLock[n] = NoThread
  /\ nextNode' = [nextNode EXCEPT ![current[t]] = nextNode[n]]
  /\ live' = live \ {n}
  /\ FinishWalk(t, arg[t])
  /\ UNCHANGED <<head, data>>

RemoveMisses(t) ==
  /\ pc[t] = "walk" /\ op[t] = "remove"
  /\ nxt[t] = Null \/ (nxt[t] \in Nodes /\ data[nxt[t]] > arg[t])
  /\ FinishWalk(t, Empty)
  /\ UNCHANGED <<list, live>>

WalkWild(t) == pc[t] = "walk" /\ nxt[t] = Wild /\ Segv(t, "walk")

InWalk(t) ==
  \/ Hop(t) \/ InsertHere(t) \/ InsertFinds(t)
  \/ RemoveNext(t) \/ RemoveMisses(t) \/ WalkWild(t)

(***************************************************************************)
(* search and size: no locks                                               *)
(***************************************************************************)
ScanDone(t, v) ==
  /\ Goto(t, "scan", "done") /\ Answer(t, v)
  /\ UNCHANGED <<place, counter>>

\* Slip: the scan does not move on.
ScanOnStuck(t) == UNCHANGED <<pc, ret, place, counter>>

ScanOn(t) ==
  /\ Stand(t, NextOf(t), Null)
  /\ counter' = [counter EXCEPT ![t] = IF op[t] = "size" THEN @ + 1 ELSE @]
  /\ UNCHANGED <<pc, ret>>

SearchStep(t) ==
  /\ pc[t] = "scan" /\ op[t] = "search"
  /\ \/ current[t] = Null /\ ScanDone(t, Empty)
     \/ current[t] \in Nodes /\ data[current[t]] = arg[t] /\ ScanDone(t, arg[t])
     \/ current[t] \in Nodes /\ data[current[t]] # arg[t] /\ ScanOn(t)
  /\ UNCHANGED <<list, locks, call, live>>

SizeStep(t) ==
  /\ pc[t] = "scan" /\ op[t] = "size"
  /\ \/ current[t] = Null /\ ScanDone(t, Empty)
     \/ current[t] \in Nodes /\ ScanOn(t)
  /\ UNCHANGED <<list, locks, call, live>>

ScanWild(t) == current[t] = Wild /\ Segv(t, "scan")

InScan(t) == SearchStep(t) \/ SizeStep(t) \/ ScanWild(t)

-----------------------------------------------------------------------------
Invoke(t) ==
  \/ \E v \in Values : \/ RoomToInsert /\ Enter(t, "insert", v)
                       \/ Enter(t, "remove", v)
                       \/ StartScan(t, "search", v)
  \/ Enter(t, "removeFirst", Empty) \/ Enter(t, "empty", Empty)
  \/ StartScan(t, "size", Empty)

Step(t) == LockList(t) \/ AtTop(t) \/ InWalk(t) \/ InScan(t) \/ Return(t)

\* The history of a search or size: what its answer may rest on.
Observe ==
  /\ ever' = [t \in Threads |->
       IF pc'[t] # "scan" THEN IF pc'[t] = "done" THEN ever[t] ELSE {}
       ELSE IF pc[t] = "scan" THEN ever[t] \cup Elements' ELSE Elements']
  /\ always' = [t \in Threads |->
       IF pc'[t] # "scan" THEN IF pc'[t] = "done" THEN always[t] ELSE {}
       ELSE IF pc[t] = "scan" THEN always[t] \cap Elements' ELSE Elements']

Crashed == \E t \in Threads : pc[t] = "segv"

Finished ==
  \/ Crashed
  \/ \A t \in Threads : pc[t] = "idle" /\ calls[t] = MaxCalls
Terminating == Finished /\ UNCHANGED vars

Next == \/ Terminating
        \/ ~Crashed /\ (\E t \in Threads : Invoke(t) \/ Step(t)) /\ Observe

Spec == Init /\ [][Next]_vars

FairSpec == Spec /\ \A t \in Threads : WF_vars(~Crashed /\ Step(t) /\ Observe)
                                    /\ WF_vars(~Crashed /\ Invoke(t) /\ Observe)
-----------------------------------------------------------------------------
NodeOrAddress == Nodes \cup {Null, Wild}
ValueOrEmpty == Values \cup {Empty}
Owner == Threads \cup {NoThread}

\* Type invariant of the list, its locks, the threads' locals and the history.
TypeOK ==
  /\ head \in NodeOrAddress
  /\ nextNode \in [Nodes -> NodeOrAddress] /\ data \in [Nodes -> ValueOrEmpty]
  /\ listLock \in Owner /\ nodeLock \in [Nodes -> Owner]
  /\ pc \in [Threads -> PCs]
  /\ op \in [Threads -> Ops] /\ arg \in [Threads -> ValueOrEmpty]
  /\ current \in [Threads -> NodeOrAddress] /\ nxt \in [Threads -> NodeOrAddress]
  /\ ret \in [Threads -> ValueOrEmpty] /\ counter \in [Threads -> Nat]
  /\ calls \in [Threads -> 0..MaxCalls]
  /\ live \subseteq Nodes
  /\ ever \in [Threads -> SUBSET Values] /\ always \in [Threads -> SUBSET Values]

\* The nodes a walk from head meets are exactly those inserted and not yet
\* removed, in ascending order and without duplicates: no insertion hangs off
\* a removed node and no removal takes a neighbour with it.
ListIsSorted ==
  /\ SortedFrom(head, live, nextNode, data)
  /\ \A n \in live : data[n] # Empty

\* A thread that holds the list's lock knows the head, and a thread inside the
\* list stands on a linked node, alone, with its place still ahead: nobody
\* unlinked the node while the thread waited for the next lock.
HoldersStandInList == \A t \in Threads :
  /\ pc[t] = "top" => listLock = t /\ current[t] = head
  /\ pc[t] = "walk" =>
       /\ current[t] \in live /\ nodeLock[current[t]] = t /\ nxt[t] = NextOf(t)
       /\ op[t] = "insert" => data[current[t]] < arg[t]
       /\ op[t] = "remove" => data[current[t]] # arg[t]

\* What no interleaving of the locking operations breaks.
ListIsSound == TypeOK /\ ListIsSorted /\ HoldersStandInList

\* search, which takes no lock and may stray onto removed nodes, still answers
\* what was true of the list at some instant of the call.
SearchWasTrue == \A t \in Threads : pc[t] = "done" /\ op[t] = "search" =>
  IF ret[t] = Empty THEN arg[t] \notin always[t] ELSE ret[t] \in ever[t]

\* size counts at least the values that stayed during the call and at most
\* those that were in the list at some instant of it.
SizeIsBetween == \A t \in Threads : pc[t] = "done" /\ op[t] = "size" =>
  Cardinality(always[t]) <= counter[t] /\ counter[t] <= Cardinality(ever[t])

\* The readers without locks answer from the interval of their call.
ReadersWereTrue == SearchWasTrue /\ SizeIsBetween

\* Every call returns when the number of calls is bounded, or the process died.
EveryCallReturns == <>Finished

(***************************************************************************)
(* The refinement mapping: an operation takes effect at its one write, or  *)
(* where it finds the value that decides the answer.  remove, when head is *)
(* already past its value, goes on to look behind head all the same: it    *)
(* has missed, whatever is inserted before head meanwhile.                 *)
(***************************************************************************)
HasMissed(t) ==
  /\ pc[t] \in {"walk", "segv"} /\ op[t] = "remove"
  /\ current[t] \in Nodes /\ data[current[t]] > arg[t]

CallOf(t) ==
  IF op[t] \in {"none", "search", "size"}
  THEN [op |-> "none", arg |-> Empty, ret |-> Empty]
  ELSE IF pc[t] = "done" \/ HasMissed(t)
  THEN [op |-> "done", arg |-> Empty, ret |-> ret[t]]
  ELSE [op |-> op[t], arg |-> arg[t], ret |-> Empty]

Set == INSTANCE SortedSet WITH
  elements <- Elements,
  call     <- [t \in Threads |-> CallOf(t)]

\* insert, remove, removeFirst and empty act on a sorted set atomically.
RefinesSortedSet == Set!Spec
=============================================================================
