------------------------------ MODULE FcQueue ------------------------------
(***************************************************************************)
(* The flat combining queue of src/lib/DS/FC/fcQueue/fcqueue.hpp: enqueues *)
(* and dequeues are combined under two locks, so that two combiners work   *)
(* on first, last and the nodes between them at the same time.  One action *)
(* of a serial operation is one load or store of these, as the program     *)
(* built without optimisation makes them.                                  *)
(***************************************************************************)
EXTENDS FlatCombining, Integers, Sequences, FiniteSets

CONSTANT Prefill  \* the values enqueued before the threads start

ASSUME FcQueueAssumption ==
  /\ Structs = {"enqueue", "dequeue"} /\ Prefill \in Seq(Nat \ {0})
  \* Any int is enqueued.  One below 1 dequeues, under the enqueuers' lock.
  /\ Arguments["enqueue"] \subseteq Int
  /\ \A v \in Arguments["dequeue"] : v = -1

VARIABLES
  node,         \* node[n]: a node; 0 is the NULL of node pointers
  first, last,
  serial,       \* serial[s]: the locals of the serial operation under s's lock
  clashed       \* the two combiners got in each other's way (a history)

qVars == <<node, first, last>>
vars == <<fcVars, qVars, serial, clashed>>

NotStarted == [at |-> "start", new |-> 0, ret |-> 0, ptr |-> 0]

\* A single node points to itself: see StoreNext.
Init ==
  /\ FcInit
  /\ node = [n \in DOMAIN Prefill |->
       [value |-> Prefill[n],
        next |-> IF n < Len(Prefill) THEN n + 1 ELSE IF n = 1 THEN 1 ELSE 0]]
  /\ first = (IF Prefill = <<>> THEN 0 ELSE 1) /\ last = Len(Prefill)
  /\ serial = [s \in Structs |-> NotStarted]
  /\ clashed = FALSE

Me(t) == serial[local[t].s]
At(t, pc) == Serving(t) /\ Me(t).at = pc
Goto(t, pc) == serial' = [serial EXCEPT ![local[t].s].at = pc]

\* A load of p into the local x, and where the operation goes on.
Load(t, x, p, pc) ==
  /\ serial' = [serial EXCEPT ![local[t].s][x] = p, ![local[t].s].at = pc]
  /\ UNCHANGED <<fcVars, qVars>>

\* A load that is only compared.
Branch(t, pc) == Goto(t, pc) /\ UNCHANGED <<fcVars, qVars>>

Finish(t, answer) ==
  /\ Answer(t, answer)
  /\ serial' = [serial EXCEPT ![local[t].s] = NotStarted]

\* A NULL pointer is dereferenced: the process ends.
Crash(t) ==
  /\ local' = [local EXCEPT ![t].pc = "crashed"]
  /\ UNCHANGED <<head, lock, request, calls, serial>>

Crashed == \E t \in Threads : local[t].pc = "crashed"

(***************************************************************************)
(* serialEnqueue.                                                          *)
(***************************************************************************)
NewNode(t) ==
  /\ At(t, "start") /\ local[t].value >= 1
  /\ node' = Append(node, [value |-> local[t].value, next |-> 0])
  /\ serial' = [serial EXCEPT ![local[t].s].new = Len(node) + 1,
                              ![local[t].s].at = IF last = 0 THEN "first" ELSE "link"]
  /\ UNCHANGED <<fcVars, first, last>>

LookFirst(t) == At(t, "first") /\ Branch(t, IF first = 0 THEN "setFirst" ELSE "link")

SetFirst(t) ==
  /\ At(t, "setFirst") /\ first' = Me(t).new /\ Goto(t, "setLast")
  /\ UNCHANGED <<fcVars, node, last>>

SetLast(t) ==
  /\ At(t, "setLast") /\ last' = Me(t).new /\ Goto(t, "link")
  /\ UNCHANGED <<fcVars, node, first>>

LoadLast(t) == At(t, "link") /\ Load(t, "ptr", last, "storeNext")

\* In an empty queue last is the new node by now.
StoreNext(t) ==
  /\ At(t, "storeNext")
  /\ \/ Me(t).ptr = 0 /\ Crash(t) /\ UNCHANGED qVars
     \/ /\ Me(t).ptr # 0
        /\ node' = [node EXCEPT ![Me(t).ptr].next = Me(t).new]
        /\ Goto(t, "moveLast")
        /\ UNCHANGED <<fcVars, first, last>>

\* Slip: last stays behind.
MoveLastNot(t) ==
  /\ At(t, "moveLast") /\ Finish(t, 0) /\ UNCHANGED qVars

MoveLast(t) ==
  /\ At(t, "moveLast") /\ last' = Me(t).new /\ Finish(t, 0)
  /\ UNCHANGED <<node, first>>

(***************************************************************************)
(* serialDequeue: the empty queue, one element, several.                   *)
(***************************************************************************)
DequeueStart(t) ==
  /\ At(t, "start") /\ local[t].value < 1
  /\ Load(t, "ptr", first, "compare")

Compare(t) == At(t, "compare") /\ Branch(t, IF Me(t).ptr = last THEN "null" ELSE "again")

IsNull(t) ==
  /\ At(t, "null")
  /\ \/ first = 0 /\ Finish(t, -1) /\ UNCHANGED qVars
     \/ first # 0 /\ Branch(t, "again")

Again(t) == At(t, "again") /\ Load(t, "ptr", first, "compareAgain")

CompareAgain(t) ==
  At(t, "compareAgain") /\ Branch(t, IF Me(t).ptr = last THEN "only" ELSE "several")

\* Slip: the only element is treated as one of several.
TakeOnlyAsSeveral(t) == At(t, "only") /\ Branch(t, "several")

\* first = last = NULL: last is stored, read again, and stored in first.
TakeOnly(t) == At(t, "only") /\ Load(t, "ret", first, "clearLast")

ClearLast(t) ==
  /\ At(t, "clearLast") /\ last' = 0 /\ Goto(t, "reload")
  /\ UNCHANGED <<fcVars, node, first>>

Reload(t) == At(t, "reload") /\ Load(t, "ptr", last, "clearFirst")

\* The last store of a dequeue, and the value of the node it took.
StoreFirst(t) ==
  /\ first' = Me(t).ptr
  /\ \/ Me(t).ret = 0 /\ Crash(t)
     \/ Me(t).ret # 0 /\ Finish(t, node[Me(t).ret].value)
  /\ UNCHANGED <<node, last>>

ClearFirst(t) == At(t, "clearFirst") /\ StoreFirst(t)

TakeFirst(t) == At(t, "several") /\ Load(t, "ret", first, "firstAgain")

FirstAgain(t) == At(t, "firstAgain") /\ Load(t, "ptr", first, "loadNext")

LoadNext(t) ==
  /\ At(t, "loadNext")
  /\ \/ Me(t).ptr = 0 /\ Crash(t) /\ UNCHANGED qVars
     \/ Me(t).ptr # 0 /\ Load(t, "ptr", node[Me(t).ptr].next, "moveFirst")

MoveFirst(t) == At(t, "moveFirst") /\ StoreFirst(t)

Serial(t) ==
  \/ NewNode(t) \/ LookFirst(t) \/ SetFirst(t) \/ SetLast(t) \/ LoadLast(t)
  \/ StoreNext(t) \/ MoveLast(t)
  \/ DequeueStart(t) \/ Compare(t) \/ IsNull(t) \/ Again(t) \/ CompareAgain(t)
  \/ TakeOnly(t) \/ ClearLast(t) \/ Reload(t) \/ ClearFirst(t)
  \/ TakeFirst(t) \/ FirstAgain(t) \/ LoadNext(t) \/ MoveFirst(t)

\* The nodes in the queue: nodes are made and linked in the order of their
\* numbers.  The node that is being enqueued does not count yet.
Queued == {n \in DOMAIN node :
  /\ first # 0 /\ first <= n /\ (n <= last \/ n = first)
  /\ n # serial["enqueue"].new}

Combining(s) == \E t \in Threads : local[t].s = s /\ Serving(t)
Dequeues(t) == Serving(t) /\ local[t].value < 1

\* The two combiners are at work together on less than two elements, or both
\* dequeue: the one of the enqueuers does if it was called with a value below 1.
Clash ==
  /\ \A s \in Structs : Combining(s)
  /\ \/ Cardinality(Queued) < 2
     \/ \A s \in Structs : \E t \in Threads : local[t].s = s /\ Dequeues(t)

Step(t) ==
  /\ ~Crashed
  /\ \/ Serial(t)
     \/ Protocol(t) /\ UNCHANGED <<qVars, serial>>
  /\ clashed' = (clashed \/ Clash')

Terminating == (Finished \/ Crashed) /\ UNCHANGED vars

Next == (\E t \in Threads : Step(t)) \/ Terminating

Spec == Init /\ [][Next]_vars
-----------------------------------------------------------------------------
\* NULL is only dereferenced after the two combiners clashed: while one
\* enqueues beside the other's dequeue, on two elements or more, no load of
\* first, last or a next finds what the other has stored too early or too late.
CrashOnlyAfterClash == Crashed => clashed

\* enqueue answers 0, dequeue the oldest value or -1; a value below 1 means
\* dequeue.
Apply(s, v, queue) ==
  IF v >= 1 THEN [object |-> Append(queue, v), answer |-> 0]
  ELSE IF queue = <<>> THEN [object |-> queue, answer |-> -1]
  ELSE [object |-> Tail(queue), answer |-> Head(queue)]

\* A call takes effect when the serial operation made for it answers.
Elements == [i \in 1..Cardinality(Queued) |-> node[first + i - 1].value]

Combined == INSTANCE CombinedObject WITH
  Initial <- Prefill, object <- Elements, call <- Calls

\* Until they clash the two combiners together make a first-in first-out queue:
\* every call returns the answer of one serial operation made for it, on the
\* queue that all earlier operations of both sides left.  Dequeues under either
\* lock belong to it, as long as no two are under way at once.
CombinesUntilClash ==
  Combined!Init /\ [][~clashed' => [Combined!Next]_(Combined!vars)]_vars
=============================================================================
