----------------------------- MODULE CasStack ------------------------------
(***************************************************************************)
(* The three stacks that swing a top pointer by CAS, all under             *)
(* src/lib/DS/Stacks:                                                      *)
(*   lfStack        lfStack/lfstack.hpp: loads Top again when a CAS fails  *)
(*   If_Stack_new   lfStack_new/ifStack_new.hpp: a weak CAS, which may     *)
(*                  fail for no reason and brings the head back itself     *)
(*   AtomicStack    atomic_stack/atomic_stack.hpp: a strong one; a pop     *)
(*                  deletes its node, so that the next push may get the    *)
(*                  same address; it starts with a node of value -1.  Two  *)
(*                  pops may meet on a node that one of them deletes: what *)
(*                  the other then reads is undefined                      *)
(* One action is one load of a shared field or one CAS; new nodes are      *)
(* private until a CAS publishes them.  BackoffDelay only lets time pass.  *)
(***************************************************************************)
EXTENDS Naturals, Sequences

CONSTANTS
  Threads, Values,
  Nodes,     \* addresses; as long as none is free, nothing is pushed
  Null,
  Empty,     \* -1
  Kinds,     \* the classes to look at
  MaxCalls   \* bound: how many calls each thread makes

ASSUME CasStackAssumption ==
  /\ Null \notin Nodes /\ Nodes # {} /\ Empty \notin Values /\ MaxCalls \in Nat
  /\ Kinds \subseteq {"lfStack", "If_Stack_new", "AtomicStack"}

VARIABLES
  kind,    \* the class of this stack, the same for ever
  head,    \* head, or Top
  node,    \* node[n]: the fields of the Node at address n
  free,    \* the addresses the allocator may hand out
  local,   \* local[t]: the locals of a call
  calls,   \* how many calls each thread has made
  stack,   \* history: the nodes on the stack, top first
  pulled   \* history: a pop has deleted a node that another pop had loaded

vars == <<kind, head, node, free, local, calls, stack, pulled>>

Idle == [pc |-> "idle", new |-> Null, got |-> Null, next |-> Null, arg |-> Empty,
         res |-> Empty, emptying |-> FALSE, count |-> 0, began |-> <<>>]

Sentinel == CHOOSE n \in Nodes : TRUE

Deletes == kind = "AtomicStack"
Weak == kind = "If_Stack_new"

\* The fields of the node at n: of deleted memory they may be anything.
Read(n) == IF n \in free THEN [data : Values \cup {Empty}, next : Nodes \cup {Null}]
           ELSE {node[n]}

Init ==
  /\ kind \in Kinds
  /\ node = [n \in Nodes |-> [data |-> Empty, next |-> Null]]
  /\ head = (IF Deletes THEN Sentinel ELSE Null)
  /\ free = (IF Deletes THEN Nodes \ {Sentinel} ELSE Nodes)
  /\ stack = (IF Deletes THEN <<Sentinel>> ELSE <<>>)
  /\ pulled = FALSE
  /\ local = [t \in Threads |-> Idle]
  /\ calls = [t \in Threads |-> 0]

Goto(t, pc) == local' = [local EXCEPT ![t].pc = pc]
\* The history is kept as long as it means something.
Becomes(s) == stack' = IF pulled THEN stack ELSE s
Count(t) == local[t].pc = "idle" /\ calls[t] < MaxCalls /\ calls' = [calls EXCEPT ![t] = @ + 1]

\* The new node and the load of head into its next, which is still private.
Push(t, v) ==
  /\ Count(t)
  /\ \E n \in free :
       /\ free' = free \ {n}
       /\ node' = [node EXCEPT ![n] = [data |-> v, next |-> head]]
       /\ local' = [local EXCEPT ![t] = [Idle EXCEPT !.pc = "pushCas", !.new = n]]
  /\ UNCHANGED <<kind, head, stack, pulled>>

PushCas(t) ==
  LET n == local[t].new IN
  /\ local[t].pc = "pushCas"
  /\ \E is \in Read(n) :
       \/ /\ head = is.next
          /\ head' = n /\ Becomes(<<n>> \o stack)
          /\ Goto(t, "done") /\ UNCHANGED node
       \/ /\ kind # "lfStack" /\ (head # is.next \/ Weak)
          /\ node' = [node EXCEPT ![n].next = head]
          /\ UNCHANGED <<head, local, stack>>
       \/ /\ kind = "lfStack" /\ head # is.next
          /\ Goto(t, "pushLoad")
          /\ UNCHANGED <<head, node, stack>>
  /\ UNCHANGED <<kind, free, calls, pulled>>

PushLoad(t) ==
  /\ local[t].pc = "pushLoad"
  /\ node' = [node EXCEPT ![local[t].new].next = head]
  /\ Goto(t, "pushCas")
  /\ UNCHANGED <<kind, head, free, calls, stack, pulled>>

\* A pop, or the first one of empty().
Pop(t) ==
  /\ Count(t)
  /\ \E emptying \in {FALSE, ~Deletes} :
       local' = [local EXCEPT ![t] = [Idle EXCEPT !.pc = "popLoad", !.emptying = emptying]]
  /\ UNCHANGED <<kind, head, node, free, stack, pulled>>

\* Where the load of head, or the reload of a failed CAS, leads to.
Got(t, n) == local' =
  [local EXCEPT ![t].got = n, ![t].pc = IF n = Null THEN "done" ELSE "popNext"]

PopLoad(t) ==
  /\ local[t].pc = "popLoad" /\ Got(t, head)
  /\ UNCHANGED <<kind, head, node, free, calls, stack, pulled>>

\* Slip: the node is deleted as soon as it was read.
PopNextDelete(t) ==
  /\ local[t].pc = "popNext"
  /\ local' = [local EXCEPT ![t].next = node[local[t].got].next, ![t].pc = "popCas"]
  /\ free' = IF Deletes THEN free \cup {local[t].got} ELSE free
  /\ UNCHANGED <<kind, head, node, calls, stack, pulled>>

PopNext(t) ==
  /\ local[t].pc = "popNext"
  /\ \E is \in Read(local[t].got) :
       local' = [local EXCEPT ![t].next = is.next, ![t].pc = "popCas"]
  /\ UNCHANGED <<kind, head, node, free, calls, stack, pulled>>

\* Slip: a pop whose CAS fails gives up and answers -1.
PopCasOnce(t) ==
  /\ local[t].pc = "popCas"
  /\ \/ /\ head = local[t].got
        /\ head' = local[t].next /\ Becomes(Tail(stack)) /\ Goto(t, "popData")
     \/ head # local[t].got /\ Goto(t, "done") /\ UNCHANGED <<head, stack>>
  /\ UNCHANGED <<kind, node, free, calls, pulled>>

\* Slip: a CAS that failed is tried again with the same node.
PopCasAgain(t) ==
  /\ local[t].pc = "popCas"
  /\ \/ /\ head = local[t].got
        /\ head' = local[t].next /\ Becomes(Tail(stack)) /\ Goto(t, "popData")
     \/ head # local[t].got /\ Goto(t, "popNext") /\ UNCHANGED <<head, stack>>
  /\ UNCHANGED <<kind, node, free, calls, pulled>>

PopCas(t) ==
  /\ local[t].pc = "popCas"
  /\ \/ /\ head = local[t].got
        /\ head' = local[t].next /\ Becomes(Tail(stack))
        /\ Goto(t, "popData")
     \/ /\ kind # "lfStack" /\ (head # local[t].got \/ Weak)
        /\ Got(t, head)
        /\ UNCHANGED <<head, stack>>
     \/ /\ kind = "lfStack" /\ head # local[t].got
        /\ Goto(t, "popLoad")
        /\ UNCHANGED <<head, stack>>
  /\ UNCHANGED <<kind, node, free, calls, pulled>>

\* A pop between its load of n and its CAS.
HasLoaded(t, n) == local[t].pc \in {"popNext", "popCas"} /\ local[t].got = n

PopData(t) ==
  LET n == local[t].got IN
  /\ local[t].pc = "popData"
  /\ \E is \in Read(n) : local' = [local EXCEPT ![t].res = is.data, ![t].pc = "done"]
  /\ free' = IF Deletes THEN free \cup {n} ELSE free
  /\ pulled' = (pulled \/ (Deletes /\ \E u \in Threads \ {t} : HasLoaded(u, n)))
  /\ UNCHANGED <<kind, head, node, calls, stack>>

\* The use of a deleted node, or deleting it again, may also end the process.
UseDeleted(t) ==
  /\ \/ local[t].pc \in {"popNext", "popData"} /\ local[t].got \in free
     \/ local[t].pc = "pushCas" /\ local[t].new \in free
  /\ Goto(t, "segv") /\ UNCHANGED <<kind, head, node, free, calls, stack, pulled>>

\* The call returns; empty() goes on until a pop answers -1.
Return(t) ==
  /\ local[t].pc \in {"done", "walked"}
  /\ IF local[t].emptying /\ local[t].res # Empty
     THEN Goto(t, "popAgain") ELSE local' = [local EXCEPT ![t] = Idle]
  /\ UNCHANGED <<kind, head, node, free, calls, stack, pulled>>

PopAgain(t) ==
  /\ local[t].pc = "popAgain"
  /\ local' = [local EXCEPT ![t] = [Idle EXCEPT !.pc = "popLoad", !.emptying = TRUE]]
  /\ UNCHANGED <<kind, head, node, free, calls, stack, pulled>>

(***************************************************************************)
(* size and find read head once and then walk.  find, and size of          *)
(* If_Stack_new, walk while(curr->next): they leave out the bottom node    *)
(* and crash on an empty stack.                                            *)
(***************************************************************************)
Walk(t, pc, v) ==
  /\ ~Deletes /\ Count(t)
  /\ local' = [local EXCEPT ![t] =
       [Idle EXCEPT !.pc = pc, !.got = head, !.arg = v, !.began = stack]]
  /\ UNCHANGED <<kind, head, node, free, stack, pulled>>

\* Slip: the walk goes on from the head of the moment.
WalkStepTop(t) ==
  LET me == local[t] IN
  /\ me.pc \in {"size", "find"}
  /\ IF me.got = Null THEN Goto(t, "segv")
     ELSE IF node[me.got].next = Null THEN Goto(t, "walked")
     ELSE local' = [local EXCEPT ![t].got = node[head].next, ![t].count = @ + 1]
  /\ UNCHANGED <<kind, head, node, free, calls, stack, pulled>>

WholeWalk(pc) == kind = "lfStack" /\ pc = "size"

WalkStep(t) ==
  LET me == local[t]
      whole == WholeWalk(me.pc)
      n == node[me.got]
      more == me.got # Null /\ (whole \/ n.next # Null)
      found == me.pc = "find" /\ n.data = me.arg
  IN /\ me.pc \in {"size", "find"}
     /\ \/ me.got = Null /\ ~whole /\ Goto(t, "segv")
        \/ ~more /\ (whole \/ me.got # Null) /\ Goto(t, "walked")
        \/ more /\ found /\ local' = [local EXCEPT ![t].pc = "walked", ![t].res = me.arg]
        \/ more /\ ~found /\ local' = [local EXCEPT ![t].got = n.next, ![t].count = @ + 1]
     /\ UNCHANGED <<kind, head, node, free, calls, stack, pulled>>

Invoke(t) ==
  \/ \E v \in Values : Push(t, v) \/ Walk(t, "find", v)
  \/ Pop(t) \/ Walk(t, "size", Empty)

Step(t) ==
  \/ PushLoad(t) \/ PushCas(t) \/ PopLoad(t) \/ PopNext(t) \/ PopCas(t) \/ PopData(t) \/ PopAgain(t)
  \/ WalkStep(t) \/ UseDeleted(t) \/ Return(t)

\* A NULL dereference, or the use of deleted memory, ends the process.
Crashed == \E t \in Threads : local[t].pc = "segv"
Finished == Crashed \/ \A t \in Threads :
  local[t].pc = "idle" /\ (calls[t] = MaxCalls \/ free = {})
Terminating == Finished /\ UNCHANGED vars

Next == Terminating \/ (~Crashed /\ \E t \in Threads : Invoke(t) \/ Step(t))

Spec == Init /\ [][Next]_vars

-----------------------------------------------------------------------------
NodeOrNull == Nodes \cup {Null}
ValueOrEmpty == Values \cup {Empty}
PCs == {"idle", "pushLoad", "pushCas", "popLoad", "popNext", "popCas", "popData", "popAgain",
        "size", "find", "done", "walked", "segv"}

\* Type invariant.
TypeOK ==
  /\ kind \in Kinds
  /\ head \in NodeOrNull
  /\ node \in [Nodes -> [data : ValueOrEmpty, next : NodeOrNull]]
  /\ free \subseteq Nodes
  /\ local \in [Threads ->
       [pc : PCs, new : NodeOrNull, got : NodeOrNull, next : NodeOrNull, arg : ValueOrEmpty,
        res : ValueOrEmpty, emptying : BOOLEAN, count : Nat, began : Seq(Nodes)]]
  /\ calls \in [Threads -> 0..MaxCalls]
  /\ stack \in Seq(Nodes)
  /\ pulled \in BOOLEAN

\* The nodes reached from head are those pushed and not yet popped, in stack
\* order, and none of them is free: an address that comes back does not make
\* a CAS succeed that should have failed.
ChainIsStack ==
  /\ head = IF stack = <<>> THEN Null ELSE stack[1]
  /\ \A i \in DOMAIN stack :
       /\ node[stack[i]].next = IF i = Len(stack) THEN Null ELSE stack[i + 1]
       /\ stack[i] \notin free

\* A node that somebody is about to read or push has not been deleted.
NothingFreedInUse == \A t \in Threads :
  /\ local[t].pc \in {"popNext", "popData"} => local[t].got \notin free
  /\ local[t].pc \in {"pushLoad", "pushCas"} => local[t].new \notin free

\* What no interleaving of pushes and pops breaks, by however many threads,
\* before a pop of AtomicStack deletes a node that another pop had loaded.
\* lfStack and If_Stack_new never do.
StackIsSound ==
  /\ TypeOK
  /\ pulled => Deletes
  /\ pulled \/ (ChainIsStack /\ NothingFreedInUse)

\* size of lfStack, and find of both, are linearizable where they read head:
\* size answers for the whole stack of that instant, whatever is pushed and
\* popped while it walks; what find finds was on that stack, and what it does
\* not find was at most its bottom node, which it never looks at.  They crash
\* on an empty stack only.  size of If_Stack_new leaves the bottom node out: it
\* is not the "size of the stack" of Stack.hpp:13, and nothing is said of it.
WalkIsSnapshot == \A t \in Threads :
  LET me == local[t]
      values(last) == {node[me.began[i]].data : i \in 1..last}
  IN /\ me.pc = "walked" /\ me.arg # Empty =>
          IF me.res = me.arg THEN me.arg \in values(Len(me.began))
          ELSE me.arg \notin values(Len(me.began) - 1)
     /\ me.pc = "walked" /\ me.arg = Empty /\ kind = "lfStack" => me.count = Len(me.began)
     /\ me.pc = "segv" /\ ~Deletes => me.began = <<>>

\* Fairness: a thread that can step does, and the weak CAS does not fail for
\* no reason for ever.
FairSpec == Spec /\ \A t \in Threads :
  /\ WF_vars(~Crashed /\ Invoke(t)) /\ WF_vars(~Crashed /\ Step(t))
  /\ SF_vars(~Crashed /\ Weak /\ PopCas(t) /\ local'[t].pc = "popData")

\* Every call returns when the number of calls is bounded, or a walk of an
\* empty stack or the use of deleted memory crashed.
EveryCallReturns == <>Finished

(***************************************************************************)
(* The refinement mapping: push and pop take effect at their CAS, a pop of *)
(* an empty stack when it reads NULL; size and find do not show.           *)
(***************************************************************************)
CallOf(t) ==
  LET me == local[t] IN
  CASE me.pc \in {"pushLoad", "pushCas"} -> [phase |-> "push", val |-> node[me.new].data]
    [] me.pc = "done" /\ me.new # Null -> [phase |-> "pushed", val |-> Empty]
    [] me.pc \in {"popLoad", "popNext", "popCas"} -> [phase |-> "pop", val |-> Empty]
    [] me.pc = "popData" -> [phase |-> "popped", val |-> node[me.got].data]
    [] me.pc = "done" /\ me.new = Null -> [phase |-> "popped", val |-> me.res]
    [] OTHER -> [phase |-> "idle", val |-> Empty]

Lifo == INSTANCE LifoStack WITH
  Starts <- {<<>>, <<Empty>>},
  items <- [i \in DOMAIN stack |-> node[stack[i]].data],
  call <- [t \in Threads |-> CallOf(t)]

\* All three are linearizable stacks, AtomicStack although addresses come
\* back, as long as no pop deletes a node that another pop had loaded.
RefinesLifo == Lifo!Init /\ [][~pulled' => [Lifo!Next]_(Lifo!vars)]_vars
=============================================================================
