----------------------------- MODULE EllenTree -----------------------------
(***************************************************************************)
(* The non-blocking external search tree of                                *)
(* src/lib/DS/Trees/ellen_ext_bst_lf/ellen_impl.h.  Keys are in leaves;    *)
(* an update flags an internal node's update word with its descriptor, and *)
(* whoever meets a flag helps the update it stands for.                    *)
(*                                                                         *)
(* One action is one load of a shared word or one CAS.  Keys, leaves and   *)
(* descriptors never change once they can be reached, so they are read     *)
(* together with the pointer to them; nodes and descriptors made for a CAS *)
(* that fails are never seen and given back at once.  Retired addresses    *)
(* are not handed out again while a thread is inside a call (the guards of *)
(* the record manager: see README.md): an address is used once.            *)
(***************************************************************************)
EXTENDS Naturals, Sequences

CONSTANTS
  Threads,
  Keys,      \* the keys of the calls; 0 is NO_VALUE, the answer "not found"
  KeyMax,    \* KEY_MAX, above every key
  Built,     \* the tree when the threads start
  MaxCalls   \* bound: how many calls each thread makes

AllKeys == 1..(KeyMax - 1)

VARIABLES
  node,   \* node[n]: the fields of node_t, and how often it was retired
  info,   \* info[o]: a descriptor, and whether its child CAS has happened
  local,  \* local[t]: the locals of a call and the help functions it is in
  calls   \* how many calls each thread has made

vars == <<node, info, local, calls>>

(***************************************************************************)
(* The shared tree.  Addresses count from 1; 0 is NULL.                    *)
(***************************************************************************)
Word(flag, o) == [flag |-> flag, op |-> o]
Clean(o) == Word("clean", o)

Node(k, l, r) ==
  [key |-> k, left |-> l, right |-> r, update |-> Clean(0), retired |-> 0]
Leaf(k) == Node(k, 0, 0)
Root == 1
EmptyTree == <<Node(KeyMax, 2, 3), Leaf(KeyMax), Leaf(KeyMax)>>

IsLeaf(tree, n) == tree[n].left = 0
ChildFor(tree, n, k) == IF k < tree[n].key THEN tree[n].left ELSE tree[n].right

\* The three nodes an insertion of k at leaf l makes: new_node, new_sibling,
\* new_internal.
NewNodes(tree, l, k) ==
  LET lk == tree[l].key
      leaf == Len(tree) + 1
      sibling == Len(tree) + 2
  IN <<Leaf(k), Leaf(lk),
       IF k < lk THEN Node(lk, leaf, sibling) ELSE Node(k, sibling, leaf)>>

\* The tree after inserting k with nobody else about, and after inserting keys.
InsertAlone(tree, k) ==
  LET parentOf[n \in DOMAIN tree] ==
        LET c == ChildFor(tree, n, k) IN IF IsLeaf(tree, c) THEN n ELSE parentOf[c]
      p == parentOf[Root]
      l == ChildFor(tree, p, k)
      new == Len(tree) + 3
  IN [tree EXCEPT ![p] = IF tree[p].left = l THEN [@ EXCEPT !.left = new]
                                             ELSE [@ EXCEPT !.right = new]]
     \o NewNodes(tree, l, k)

TreeOf(keys) ==
  LET built[i \in 0..Len(keys)] ==
        IF i = 0 THEN EmptyTree ELSE InsertAlone(built[i - 1], keys[i])
  IN built[Len(keys)]

(***************************************************************************)
(* What is so of the nodes of a tree, looking at two of them at a time.  A *)
(* node is live as long as it is not retired, also before it is linked.    *)
(***************************************************************************)
WordType == [flag : {"clean", "iflag", "dflag", "mark"}, op : Nat]
NodeType == [key : 1..KeyMax, left : Nat, right : Nat, update : WordType, retired : Nat]

IsInternal(tree, n) == n \in DOMAIN tree /\ ~IsLeaf(tree, n)
Kids(tree, n) == {tree[n].left, tree[n].right}
LiveInternal(tree) == {n \in DOMAIN tree : tree[n].retired = 0 /\ ~IsLeaf(tree, n)}

\* A node has two children or none.
Binary(tree) == \A n \in DOMAIN tree :
  IF IsLeaf(tree, n) THEN tree[n].right = 0
  ELSE Kids(tree, n) \subseteq DOMAIN tree /\ tree[n].left # tree[n].right

\* No two live nodes share a child, and the children of a live node are live.
LiveTree(tree) == \A n \in LiveInternal(tree) :
  /\ \A c \in Kids(tree, n) : tree[c].retired = 0
  /\ \A m \in LiveInternal(tree) : m # n => Kids(tree, m) \cap Kids(tree, n) = {}

\* KEY_MAX stays at the right edge: no key is ever a leaf below the root itself.
MaxAtRight(tree) ==
  /\ \A n \in DOMAIN tree : ~IsLeaf(tree, n) /\ tree[n].key = KeyMax =>
       IsLeaf(tree, tree[n].right) /\ tree[tree[n].right].key = KeyMax
  /\ Root \in DOMAIN tree /\ ~IsLeaf(tree, Root)
  /\ tree[Root].key = KeyMax /\ tree[tree[Root].left].key = KeyMax

Shape(tree) == Binary(tree) /\ LiveTree(tree) /\ MaxAtRight(tree)

(***************************************************************************)
(* The tree as a whole.  next[m] is the set of successors of m.            *)
(***************************************************************************)
From(next, n) ==
  LET from[m \in DOMAIN next] == {m} \cup UNION {from[c] : c \in next[m]} IN from[n]

\* The nodes below n, and those that a search for k passes from n on.
Below(tree, n) ==
  From([m \in DOMAIN tree |-> IF IsLeaf(tree, m) THEN {} ELSE Kids(tree, m)], n)
Path(tree, n, k) ==
  From([m \in DOMAIN tree |-> IF IsLeaf(tree, m) THEN {} ELSE {ChildFor(tree, m, k)}], n)

Reachable(tree) == Below(tree, Root)
LeavesOf(tree) == {n \in Reachable(tree) : IsLeaf(tree, n)}
KeysOf(tree) == {tree[n].key : n \in LeavesOf(tree)} \ {KeyMax}
LeafFor(tree, k) == CHOOSE n \in Path(tree, Root, k) : IsLeaf(tree, n)

\* Every key in the tree is where a search for it ends, and in one leaf only.
Searchable(tree) ==
  /\ \A k \in AllKeys : k \in KeysOf(tree) <=> tree[LeafFor(tree, k)].key = k
  /\ \A m, n \in LeavesOf(tree) :
       m # n => tree[m].key # tree[n].key \/ tree[m].key = KeyMax

\* Internal nodes are older than those below them.
OldestFirst(tree) == \A n \in DOMAIN tree :
  ~IsLeaf(tree, n) => \A c \in Kids(tree, n) : IsLeaf(tree, c) \/ n < c

\* Built is what insertions and deletions by one thread may have left.
ASSUME EllenTreeAssumption ==
  /\ KeyMax \in Nat /\ Keys \subseteq AllKeys /\ MaxCalls \in Nat
  /\ Built \in Seq(NodeType) /\ Shape(Built) /\ Searchable(Built) /\ OldestFirst(Built)
  /\ \A n \in DOMAIN Built : Built[n].update = Clean(0) /\ Built[n].retired = 0

(***************************************************************************)
(* A thread's locals.  help is the stack of help functions it is in, the   *)
(* innermost first; seen is the history of its key's presence in the tree. *)
(***************************************************************************)
Idle == [pc |-> "idle", op |-> "none", key |-> KeyMax, gp |-> 0, gpupdate |-> Clean(0),
         p |-> 0, pupdate |-> Clean(0), l |-> 0, own |-> 0, help |-> <<>>,
         res |-> FALSE, seen |-> {}]

Become(t, me) == local' = [local EXCEPT ![t] = me]

\* The top of the loop: bst_find starts below the root.
Restart(me) == [me EXCEPT
  !.pc = IF me.op = "find" THEN "child" ELSE "update",
  !.gp = 0, !.gpupdate = Clean(0), !.p = Root, !.pupdate = Clean(0), !.l = 0,
  !.own = 0, !.help = <<>>]

Init ==
  /\ node = Built /\ info = <<>>
  /\ local = [t \in Threads |-> Idle]
  /\ calls = [t \in Threads |-> 0]

Invoke(t, op, k) ==
  /\ local[t].pc = "idle" /\ calls[t] < MaxCalls
  /\ calls' = [calls EXCEPT ![t] = @ + 1]
  /\ Become(t, Restart([Idle EXCEPT !.op = op, !.key = k, !.seen = {(k \in KeysOf(node))}]))
  /\ UNCHANGED <<node, info>>

Return(t) ==
  /\ local[t].pc = "done"
  /\ local' = [local EXCEPT ![t] = Idle]
  /\ UNCHANGED <<node, info, calls>>

(***************************************************************************)
(* bst_help: enter the help function that the flag asks for.               *)
(***************************************************************************)
Frame(at, o, other) == [at |-> at, op |-> o, other |-> other]

FrameFor(u) ==
  CASE u.flag = "dflag" -> <<Frame("mark", u.op, 0)>>
    [] u.flag = "iflag" -> <<Frame("left", u.op, info[u.op].new)>>
    [] u.flag = "mark"  -> <<Frame("other", u.op, 0)>>
    [] u.flag = "clean" -> <<>>

Help(t, u) == Become(t,
  IF u.flag = "clean" THEN Restart(local[t])
  ELSE [local[t] EXCEPT !.pc = "help", !.help = FrameFor(u)])

(***************************************************************************)
(* The searches.                                                           *)
(***************************************************************************)
ReadUpdate(t) ==
  /\ local[t].pc = "update"
  /\ Become(t, [local[t] EXCEPT !.pc = "child", !.pupdate = node[local[t].p].update])
  /\ UNCHANGED <<node, info, calls>>

Finish(t, b) == Become(t, [local[t] EXCEPT !.pc = "done", !.res = b])

\* What the leaf at the end of the search tells: find answers, insert refuses
\* a key it finds and delete one it does not find.
Answered(t, found) ==
  LET op == local[t].op IN
  \/ op = "find" /\ Finish(t, found)
  \/ op # "find" /\ found = (op = "insert") /\ Finish(t, FALSE)
Goes(t, found) == local[t].op # "find" /\ found # (local[t].op = "insert")

\* Slip: the flags read on the way down are not looked at.
AtLeafBlind(t, l) ==
  LET found == node[l].key = local[t].key IN
  \/ Answered(t, found)
  \/ Goes(t, found) /\ Become(t, [local[t] EXCEPT !.pc = "cas", !.l = l])

AtLeaf(t, l) ==
  LET me == local[t]
      found == node[l].key = me.key
      grandparent == me.gpupdate.flag
  IN \/ Answered(t, found)
     \/ /\ Goes(t, found)
        /\ \/ grandparent # "clean" /\ Help(t, me.gpupdate)
           \/ grandparent = "clean" /\ me.pupdate.flag # "clean" /\ Help(t, me.pupdate)
           \/ /\ grandparent = "clean" /\ me.pupdate.flag = "clean"
              /\ Become(t, [local[t] EXCEPT !.pc = "cas", !.l = l])

\* One step down; only delete remembers the grandparent.
ReadChild(t) ==
  LET me == local[t]
      c == ChildFor(node, me.p, me.key)
  IN /\ me.pc = "child"
     /\ \/ /\ ~IsLeaf(node, c) /\ me.op = "find"
           /\ Become(t, [me EXCEPT !.p = c])
        \/ /\ ~IsLeaf(node, c) /\ me.op = "insert"
           /\ Become(t, [me EXCEPT !.p = c, !.pc = "update"])
        \/ /\ ~IsLeaf(node, c) /\ me.op = "delete"
           /\ Become(t, [me EXCEPT !.p = c, !.pc = "update",
                                   !.gp = me.p, !.gpupdate = me.pupdate])
        \/ IsLeaf(node, c) /\ AtLeaf(t, c)
     /\ UNCHANGED <<node, info, calls>>

(***************************************************************************)
(* The flagging CAS: it publishes the descriptor, or returns the word that *)
(* another update left there.                                              *)
(***************************************************************************)
NewInfo == Len(info) + 1

\* gp and pupdate are a deletion's only, new an insertion's.
InsertInfo(p, l, new, k) ==
  [kind |-> "insert", gp |-> 0, p |-> p, l |-> l, new |-> new, pupdate |-> Clean(0),
   key |-> k, done |-> FALSE, retired |-> 0]
DeleteInfo(gp, p, l, pupdate, k) ==
  [kind |-> "delete", gp |-> gp, p |-> p, l |-> l, new |-> 0, pupdate |-> pupdate,
   key |-> k, done |-> FALSE, retired |-> 0]

FlagInsert(t) ==
  LET me == local[t]
      new == Len(node) + 3
  IN /\ me.pc = "cas" /\ me.op = "insert"
     /\ \/ /\ node[me.p].update = me.pupdate
           /\ node' = [node EXCEPT ![me.p].update = Word("iflag", NewInfo)]
                      \o NewNodes(node, me.l, me.key)
           /\ info' = Append(info, InsertInfo(me.p, me.l, new, me.key))
           /\ Become(t, [me EXCEPT !.pc = "help", !.own = NewInfo,
                                   !.help = <<Frame("left", NewInfo, new)>>])
        \/ /\ node[me.p].update # me.pupdate
           /\ Help(t, node[me.p].update)
           /\ UNCHANGED <<node, info>>
     /\ UNCHANGED calls

FlagDelete(t) ==
  LET me == local[t] IN
  /\ me.pc = "cas" /\ me.op = "delete"
  /\ \/ /\ node[me.gp].update = me.gpupdate
        /\ node' = [node EXCEPT ![me.gp].update = Word("dflag", NewInfo)]
        /\ info' = Append(info, DeleteInfo(me.gp, me.p, me.l, me.pupdate, me.key))
        /\ Become(t, [me EXCEPT !.pc = "help", !.own = NewInfo,
                                !.help = <<Frame("mark", NewInfo, 0)>>])
     \/ /\ node[me.gp].update # me.gpupdate
        /\ Help(t, node[me.gp].update)
        /\ UNCHANGED <<node, info>>
  /\ UNCHANGED calls

(***************************************************************************)
(* The help functions work on the descriptor of the innermost frame.       *)
(***************************************************************************)
Helping(t, at) == local[t].pc = "help" /\ Head(local[t].help).at = at
TopOp(t) == Head(local[t].help).op
Descriptor(t) == info[TopOp(t)]
Advance(t, at) == local' = [local EXCEPT ![t].help[1].at = at]

\* bst_help_delete: mark the parent, or help whoever holds it and back off.
Mark(t) ==
  LET d == Descriptor(t)
      result == node[d.p].update
      marked == Word("mark", TopOp(t))
  IN /\ Helping(t, "mark")
     /\ \/ /\ result = d.pupdate
           /\ node' = [node EXCEPT ![d.p].update = marked]
           /\ Advance(t, "other")
        \/ result = marked /\ Advance(t, "other") /\ UNCHANGED node
        \/ /\ result # d.pupdate /\ result # marked
           /\ local' = [local EXCEPT ![t].help =
                FrameFor(result) \o <<[Head(@) EXCEPT !.at = "backoff"]>> \o Tail(@)]
           /\ UNCHANGED node
     /\ UNCHANGED <<info, calls>>

\* Slip: the child that stays is taken from the right without a look.
ReadOtherRight(t) ==
  /\ Helping(t, "other")
  /\ local' = [local EXCEPT ![t].help[1] = Frame("left", @.op, node[Descriptor(t).p].right)]
  /\ UNCHANGED <<node, info, calls>>

\* bst_help_marked: the child of the parent that stays.  The parent is marked
\* and its children final (NodesChangeUnderFlag), so they are read together.
ReadOther(t) ==
  LET d == Descriptor(t) IN
  /\ Helping(t, "other")
  /\ local' = [local EXCEPT ![t].help[1] =
       Frame("left", @.op, IF node[d.p].right = d.l THEN node[d.p].left ELSE node[d.p].right)]
  /\ UNCHANGED <<node, info, calls>>

\* bst_cas_child of the parent named by the descriptor, from old to other.
Parent(d) == IF d.kind = "insert" THEN d.p ELSE d.gp
Old(d) == IF d.kind = "insert" THEN d.l ELSE d.p
Unlinked(d) == IF d.kind = "insert" THEN {d.l} ELSE {d.l, d.p}

LookLeft(t) ==
  /\ Helping(t, "left")
  /\ Advance(t, IF node[Parent(Descriptor(t))].left = Old(Descriptor(t))
                THEN "casLeft" ELSE "lookRight")
  /\ UNCHANGED <<node, info, calls>>

LookRight(t) ==
  /\ Helping(t, "lookRight")
  /\ Advance(t, IF node[Parent(Descriptor(t))].right = Old(Descriptor(t))
                THEN "casRight" ELSE "unflag")
  /\ UNCHANGED <<node, info, calls>>

\* A call on key k that is under way has seen it come or go with update d.
Witness(me, d) == [me EXCEPT !.seen =
  IF me.key = d.key /\ me.pc # "done" THEN @ \cup {d.kind = "insert"} ELSE @]

\* A successful child CAS retires what it unlinked; every call on the same
\* key witnesses the change.
ChildChanged(t, tree) ==
  LET d == Descriptor(t)
      gone == Unlinked(d)
  IN /\ node' = [n \in DOMAIN node |->
                   IF n \in gone THEN [tree[n] EXCEPT !.retired = @ + 1] ELSE tree[n]]
     /\ info' = [info EXCEPT ![TopOp(t)].done = TRUE]
     /\ local' = [u \in Threads |->
          IF u = t THEN [Witness(local[u], d) EXCEPT !.help[1].at = "unflag"]
          ELSE Witness(local[u], d)]

CasLeft(t) ==
  LET parent == Parent(Descriptor(t)) IN
  /\ Helping(t, "casLeft")
  /\ \/ /\ node[parent].left = Old(Descriptor(t))
        /\ ChildChanged(t, [node EXCEPT ![parent].left = local[t].help[1].other])
     \/ /\ node[parent].left # Old(Descriptor(t))
        /\ Advance(t, "unflag") /\ UNCHANGED <<node, info>>
  /\ UNCHANGED calls

CasRight(t) ==
  LET parent == Parent(Descriptor(t)) IN
  /\ Helping(t, "casRight")
  /\ \/ /\ node[parent].right = Old(Descriptor(t))
        /\ ChildChanged(t, [node EXCEPT ![parent].right = local[t].help[1].other])
     \/ /\ node[parent].right # Old(Descriptor(t))
        /\ Advance(t, "unflag") /\ UNCHANGED <<node, info>>
  /\ UNCHANGED calls

\* The help function returns: to the one that called it, to the operation it
\* served (answer says whether its own update went through), or to a retry.
LeaveHelp(t, answer) ==
  LET me == local[t] IN
  \/ Len(me.help) > 1 /\ Become(t, [me EXCEPT !.help = Tail(me.help)])
  \/ /\ Len(me.help) = 1 /\ me.own # 0 /\ answer
     /\ Become(t, [me EXCEPT !.pc = "done", !.res = TRUE, !.help = <<>>])
  \/ Len(me.help) = 1 /\ ~(me.own # 0 /\ answer) /\ Become(t, Restart(me))

FlagOf(d) == IF d.kind = "insert" THEN "iflag" ELSE "dflag"

\* Slip: the word is stored, and the descriptor retired by every helper.
CleanWordStore(t) ==
  /\ node' = [node EXCEPT ![Parent(Descriptor(t))].update = Clean(TopOp(t))]
  /\ info' = [info EXCEPT ![TopOp(t)].retired = @ + 1]

\* Slip: nobody cleans the word.
CleanWordNever(t) == UNCHANGED <<node, info>>

\* The word goes back to clean by CAS; whoever wins retires the descriptor.
CleanWord(t) ==
  LET parent == Parent(Descriptor(t))
      mine == node[parent].update = Word(FlagOf(Descriptor(t)), TopOp(t))
  IN /\ node' = IF mine THEN [node EXCEPT ![parent].update = Clean(TopOp(t))] ELSE node
     /\ info' = IF mine THEN [info EXCEPT ![TopOp(t)].retired = @ + 1] ELSE info

Unflag(t) ==
  /\ Helping(t, "unflag")
  /\ CleanWord(t) /\ LeaveHelp(t, TRUE)
  /\ UNCHANGED calls

\* Slip: delete answers that it succeeded although it backed off.
BackoffDone(t) ==
  /\ Helping(t, "backoff")
  /\ CleanWord(t) /\ LeaveHelp(t, TRUE)
  /\ UNCHANGED calls

Backoff(t) ==
  /\ Helping(t, "backoff")
  /\ CleanWord(t) /\ LeaveHelp(t, FALSE)
  /\ UNCHANGED calls

Step(t) ==
  \/ ReadUpdate(t) \/ ReadChild(t) \/ FlagInsert(t) \/ FlagDelete(t)
  \/ Mark(t) \/ ReadOther(t)
  \/ LookLeft(t) \/ LookRight(t) \/ CasLeft(t) \/ CasRight(t)
  \/ Unflag(t) \/ Backoff(t) \/ Return(t)

Ops == {"insert", "delete", "find"}

Finished == \A t \in Threads : local[t].pc = "idle" /\ calls[t] = MaxCalls
Terminating == Finished /\ UNCHANGED vars

Next ==
  \/ \E t \in Threads : Step(t) \/ \E op \in Ops, k \in Keys : Invoke(t, op, k)
  \/ Terminating

Spec == Init /\ [][Next]_vars

FairSpec == Spec /\ \A t \in Threads :
  WF_vars(Step(t) \/ \E op \in Ops, k \in Keys : Invoke(t, op, k))

-----------------------------------------------------------------------------
InfoType == [kind : {"insert", "delete"}, gp : Nat, p : Nat, l : Nat, new : Nat,
             pupdate : WordType, key : AllKeys, done : BOOLEAN, retired : Nat]

FrameType ==
  [at : {"mark", "other", "left", "lookRight", "casLeft", "casRight", "unflag", "backoff"},
   op : Nat, other : Nat]

LocalType ==
  [pc : {"idle", "update", "child", "cas", "help", "done"}, op : Ops \cup {"none"},
   key : 1..KeyMax, gp : Nat, gpupdate : WordType, p : Nat, pupdate : WordType,
   l : Nat, own : Nat, help : Seq(FrameType), res : BOOLEAN, seen : SUBSET BOOLEAN]

\* Type invariant of the tree, the descriptors and the threads' locals.
TypeOK ==
  /\ node \in Seq(NodeType) /\ info \in Seq(InfoType)
  /\ local \in [Threads -> LocalType] /\ calls \in [Threads -> 0..MaxCalls]

\* What is retired is out of the tree: the reclaimer would free what others
\* still find.
RetiredIsOut == \A n \in DOMAIN node : node[n].retired > 0 => n \notin Reachable(node)

\* Every key in the tree is where a search for it ends at every instant, helpers
\* never put a subtree where it does not belong: no interleaving breaks the tree.
TreeIsSound == TypeOK /\ Searchable(node) /\ RetiredIsOut

\* Nothing is retired twice, however many helpers finish the same update, or
\* the reclaimer would free it twice; a live node points at live nodes only; and
\* an internal node that is retired is marked, so that every CAS on its word
\* fails and no insertion goes there.
RetiredOnce ==
  /\ \A n \in DOMAIN node :
       /\ node[n].retired <= 1
       /\ ~IsLeaf(node, n) =>
            IF node[n].retired = 1 THEN node[n].update.flag = "mark"
            ELSE \A c \in Kids(node, n) : node[c].retired = 0
  /\ \A o \in DOMAIN info : info[o].retired <= 1

Fields(n) == [n EXCEPT !.retired = 0]

\* A marked node is final, so that all helpers of a deletion agree on the child
\* that stays; and a child pointer changes only under the flag of the update
\* that changes it, from the node that update was planned for: a helper that
\* comes late, after the flag is gone, does no harm.
NodesChangeUnderFlag == [][\A n \in DOMAIN node :
  /\ node[n].update.flag = "mark" => Fields(node'[n]) = Fields(node[n])
  /\ <<node'[n].left, node'[n].right>> # <<node[n].left, node[n].right>> =>
       /\ node[n].update.flag \in {"iflag", "dflag"}
       /\ LET d == info[node[n].update.op] IN
            /\ n = Parent(d)
            /\ Old(d) \in {node[n].left, node[n].right} \ {node'[n].left, node'[n].right}]_vars

\* Every call returns when the number of calls is bounded.
EveryCallReturns == <>Finished

(***************************************************************************)
(* The refinement mapping: an update takes effect at the child CAS of its  *)
(* descriptor, whoever makes it.                                           *)
(***************************************************************************)
CallOf(t) ==
  LET me == local[t] IN
  CASE me.pc = "idle" -> [phase |-> "idle"]
    [] me.pc = "done" -> [phase |-> "done", res |-> me.res]
    [] me.pc \notin {"idle", "done"} ->
         IF me.own # 0 /\ info[me.own].done THEN [phase |-> "done", res |-> TRUE]
         ELSE [phase |-> me.op, key |-> me.key, seen |-> me.seen]

Dictionary == INSTANCE KeySet WITH
  Prefill <- KeysOf(Built),
  keys <- KeysOf(node),
  call <- [t \in Threads |-> CallOf(t)]

\* The tree is a linearizable set: every successful insert and delete changes
\* it at one instant of the call, exactly once however many threads help, and
\* every other answer was true at some instant of its call.
RefinesKeySet == Dictionary!Spec

-----------------------------------------------------------------------------
(***************************************************************************)
(* The inductive invariant behind RetiredOnce and NodesChangeUnderFlag.    *)
(* It speaks of words, descriptors, searches and help functions one at a   *)
(* time, and of no path through the tree.                                  *)
(***************************************************************************)

\* A word that was read: the descriptor it names is of its kind, and a mark is
\* still on the node it was set on.
WordMeans(tree, desc, w) ==
  /\ w \in WordType /\ w.op \in 0..Len(desc)
  /\ w.flag # "clean" =>
       /\ w.op # 0
       /\ desc[w.op].kind = (IF w.flag = "iflag" THEN "insert" ELSE "delete")
  /\ w.flag = "mark" => tree[desc[w.op].p].update = w

\* n has been flagged or marked since a word with op a was read from it.
Past(tree, n, a) == tree[n].update.flag = "mark" \/ tree[n].update.op > a
Since(tree, n, w) ==
  IsInternal(tree, n) /\ (w.flag = "clean" => tree[n].update = w \/ Past(tree, n, w.op))

\* A child read after a clean word is still the child while the word is there.
ReadUnder(tree, n, w, k, c) ==
  /\ Since(tree, n, w)
  /\ w.flag = "clean" /\ tree[n].update = w => ChildFor(tree, n, k) = c

\* A node is retired once, and an internal one when it is marked.
Retirement(tree) == \A n \in DOMAIN tree :
  /\ tree[n].retired <= 1
  /\ tree[n].retired > 0 /\ ~IsLeaf(tree, n) => tree[n].update.flag = "mark"

\* The flag of an update is on its parent; whoever takes it off retires the
\* descriptor.
Flagged(tree, desc, o) == tree[Parent(desc[o])].update = Word(FlagOf(desc[o]), o)
RetiredUnflagged(tree, desc) == \A o \in DOMAIN desc :
  desc[o].retired = IF Flagged(tree, desc, o) THEN 0 ELSE 1

\* An insertion: it holds its flag until its child CAS, and until then leads to
\* nodes that nobody else points at.
InsertView(tree, desc, o) ==
  LET d == desc[o] IN
  /\ IsInternal(tree, d.p) /\ d.l \in DOMAIN tree /\ IsLeaf(tree, d.l)
  /\ IsInternal(tree, d.new)
  /\ tree[d.l].key = KeyMax => tree[d.new].key = KeyMax
  /\ d.done => d.l \notin Kids(tree, d.p) /\ tree[d.l].retired > 0
  /\ ~d.done =>
       /\ Flagged(tree, desc, o) /\ ChildFor(tree, d.p, d.key) = d.l
       /\ tree[d.new].retired = 0
       /\ \A n \in LiveInternal(tree) : d.new \notin Kids(tree, n)

\* A deletion: once the parent is marked it holds its flag until its child CAS;
\* when it has lost its flag without one, the parent can no longer be marked.
MayMark(tree, desc, o) == tree[desc[o].p].update \in {desc[o].pupdate, Word("mark", o)}
DeleteView(tree, desc, o) ==
  LET d == desc[o] IN
  /\ IsInternal(tree, d.gp) /\ d.l \in DOMAIN tree /\ IsLeaf(tree, d.l)
  /\ d.pupdate.flag = "clean" /\ Since(tree, d.p, d.pupdate)
  /\ WordMeans(tree, desc, d.pupdate)
  /\ MayMark(tree, desc, o) => ChildFor(tree, d.p, d.key) = d.l
  /\ d.done =>
       /\ tree[d.p].update = Word("mark", o) /\ tree[d.p].retired > 0
       /\ d.p \notin Kids(tree, d.gp)
  /\ ~d.done =>
       IF Flagged(tree, desc, o) THEN ChildFor(tree, d.gp, d.key) = d.p
       ELSE ~MayMark(tree, desc, o)

Views(tree, desc) == \A o \in DOMAIN desc :
  IF desc[o].kind = "insert" THEN InsertView(tree, desc, o) ELSE DeleteView(tree, desc, o)

NewNodesDiffer(desc) == \A a, b \in DOMAIN desc :
  desc[a].kind = "insert" /\ desc[b].kind = "insert" /\ desc[a].new = desc[b].new => a = b

Shared(tree, desc) ==
  /\ tree \in Seq(NodeType) /\ desc \in Seq(InfoType)
  /\ Shape(tree) /\ Retirement(tree)
  /\ \A n \in DOMAIN tree : WordMeans(tree, desc, tree[n].update)
  /\ RetiredUnflagged(tree, desc) /\ Views(tree, desc) /\ NewNodesDiffer(desc)

\* What a search has read.
SearchView(tree, desc, me) ==
  /\ WordMeans(tree, desc, me.pupdate) /\ WordMeans(tree, desc, me.gpupdate)
  /\ me.pc # "idle" => me.key \in AllKeys /\ me.op \in Ops
  /\ me.pc \in {"update", "child", "cas"} => IsInternal(tree, me.p)
  /\ me.pc \in {"child", "cas"} /\ me.op # "find" => Since(tree, me.p, me.pupdate)
  /\ me.pc \in {"update", "child"} /\ me.op = "delete" =>
       me.p = Root \/ ReadUnder(tree, me.gp, me.gpupdate, me.key, me.p)
  /\ me.pc = "cas" =>
       /\ me.op # "find" /\ me.l \in DOMAIN tree /\ IsLeaf(tree, me.l)
       /\ me.pupdate.flag = "clean" /\ ReadUnder(tree, me.p, me.pupdate, me.key, me.l)
       /\ me.op = "delete" =>
            me.gpupdate.flag = "clean" /\ ReadUnder(tree, me.gp, me.gpupdate, me.key, me.p)

\* A help function: what it has found out about its update holds, or the update
\* is done.
FrameView(tree, desc, f) ==
  LET d == desc[f.op]
      marked == tree[d.p].update = Word("mark", f.op)
  IN /\ f.op \in DOMAIN desc
     /\ f.at \in {"mark", "other", "backoff"} => d.kind = "delete"
     /\ f.at = "backoff" => ~MayMark(tree, desc, f.op)
     /\ f.at = "other" => marked
     /\ f.at \in {"left", "lookRight", "casLeft", "casRight"} =>
          IF d.kind = "insert" THEN f.other = d.new
          ELSE marked /\ f.other \in Kids(tree, d.p) \ {d.l}
     /\ f.at = "casLeft" => d.done \/ tree[Parent(d)].left = Old(d)
     /\ f.at \in {"lookRight", "casRight"} => d.done \/ tree[Parent(d)].right = Old(d)
     /\ f.at = "unflag" => d.done

LocalView(tree, desc, me) ==
  /\ SearchView(tree, desc, me)
  /\ me.pc = "help" => me.help # <<>>
  /\ \A i \in DOMAIN me.help : FrameView(tree, desc, me.help[i])

TreeInv ==
  /\ TypeOK /\ Shared(node, info)
  /\ \A t \in Threads : LocalView(node, info, local[t])
=============================================================================
