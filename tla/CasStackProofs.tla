--------------------------- MODULE CasStackProofs ---------------------------
(***************************************************************************)
(* Proofs about the three stacks, for any threads, nodes, values and       *)
(* number of calls.  A node is free, private to the thread that pushes it, *)
(* on the stack, or popped; who holds a node that is not free may rely on  *)
(* its next, because only the thread that pushes a node writes it.  All of *)
(* this lasts until a pop deletes a node that another pop has loaded.      *)
(***************************************************************************)
EXTENDS CasStack, TLAPS, SequenceTheorems

LocalFields == [pc : PCs, new : NodeOrNull, got : NodeOrNull, next : NodeOrNull,
                arg : ValueOrEmpty, res : ValueOrEmpty, emptying : BOOLEAN,
                count : Nat, began : Seq(Nodes)]

Pushing(t) == local[t].pc \in {"pushLoad", "pushCas"}
Popping(t) == local[t].pc \in {"popNext", "popCas", "popData"}
Walking(t) == local[t].pc \in {"size", "find", "walked", "segv"}
OnStack(n) == \E i \in DOMAIN stack : stack[i] = n

OnceOnStack == \A i, j \in DOMAIN stack : stack[i] = stack[j] => i = j

\* The node of a push belongs to its thread until the CAS.
NewIsPrivate(t) == Pushing(t) =>
  /\ local[t].new \in Nodes /\ local[t].new \notin free /\ ~ OnStack(local[t].new)
  /\ \A u \in Threads \ {t} : Pushing(u) => local[u].new # local[t].new

\* The node a pop has read is not used again before the pop is done with it:
\* nothing is, or nobody has deleted it; two pops do not win the same node.
GotIsKept(t) == Popping(t) =>
  /\ local[t].got \in Nodes /\ local[t].got \notin free
  /\ \A u \in Threads : Pushing(u) => local[u].new # local[t].got
  /\ local[t].pc = "popCas" => local[t].next = node[local[t].got].next
  /\ Deletes /\ local[t].pc = "popData" =>
       /\ ~ OnStack(local[t].got)
       /\ \A u \in Threads \ {t} : local[u].pc = "popData" => local[u].got # local[t].got

OnlyPushesAndPops(t) == Deletes =>
  ~ local[t].emptying /\ local[t].pc \notin {"popAgain", "size", "find", "walked"}

\* What WalkIsSnapshot says of one thread.
Whole(t) == kind = "lfStack" /\ local[t].arg = Empty
Among(t, last) == {node[local[t].began[i]].data : i \in 1..last}
Answered(t) ==
  /\ local[t].pc = "walked" /\ local[t].arg # Empty =>
       IF local[t].res = local[t].arg THEN local[t].arg \in Among(t, Len(local[t].began))
       ELSE local[t].arg \notin Among(t, Len(local[t].began) - 1)
  /\ local[t].pc = "walked" /\ Whole(t) => local[t].count = Len(local[t].began)
  /\ local[t].pc = "segv" => local[t].began = <<>>

\* The chain a walk began with stays as it is.
BeganIsKept(t) == Walking(t) =>
  LET b == local[t].began IN
  /\ ~ Deletes
  /\ \A i \in DOMAIN b :
       /\ b[i] \notin free
       /\ node[b[i]].next = IF i = Len(b) THEN Null ELSE b[i + 1]
       /\ \A u \in Threads : Pushing(u) => local[u].new # b[i]

\* Where a walk has come to on that chain.
WalkIsOn(t) == local[t].pc \in {"size", "find"} =>
  LET me == local[t] IN
  /\ me.count <= Len(me.began)
  /\ me.got = IF me.count < Len(me.began) THEN me.began[me.count + 1] ELSE Null
  /\ ~ Whole(t) => me.count < Len(me.began) \/ me.began = <<>>
  /\ me.pc = "size" => me.arg = Empty
  /\ me.pc = "find" =>
       /\ me.arg # Empty /\ me.res = Empty
       /\ \A i \in 1..me.count : node[me.began[i]].data # me.arg

ThreadView(t) ==
  NewIsPrivate(t) /\ GotIsKept(t) /\ OnlyPushesAndPops(t) /\ BeganIsKept(t) /\ WalkIsOn(t) /\ Answered(t)

\* As long as no pop has deleted a node under another one.
Undisturbed ==
  ~ pulled /\ TypeOK /\ ChainIsStack /\ OnceOnStack /\ \A t \in Threads : ThreadView(t)

\* What holds for ever: an address that a call uses is one of a node.
Points(t) == (Popping(t) => local[t].got \in Nodes) /\ (Pushing(t) => local[t].new \in Nodes)

IInv ==
  /\ TypeOK /\ (pulled => Deletes)
  /\ \A t \in Threads : Points(t) /\ OnlyPushesAndPops(t)
  /\ pulled \/ Undisturbed

-----------------------------------------------------------------------------
(***************************************************************************)
(* Sequences                                                               *)
(***************************************************************************)
\* What pushing on a sequence gives.
LEMMA Prepend ==
  ASSUME NEW S, NEW s \in Seq(S), NEW n \in S
  PROVE  /\ <<n>> \o s \in Seq(S) /\ Len(<<n>> \o s) = Len(s) + 1
         /\ DOMAIN (<<n>> \o s) = 1..(Len(s) + 1)
         /\ (<<n>> \o s)[1] = n
         /\ \A i \in 1..Len(s) : (<<n>> \o s)[i + 1] = s[i]
         /\ \A i \in 2..(Len(s) + 1) : (<<n>> \o s)[i] = s[i - 1]
OBVIOUS

\* What popping from a sequence gives.
LEMMA TakeTail ==
  ASSUME NEW S, NEW s \in Seq(S), s # <<>>
  PROVE  /\ Tail(s) \in Seq(S) /\ Len(Tail(s)) = Len(s) - 1 /\ Len(s) \in Nat \ {0}
         /\ DOMAIN Tail(s) = 1..(Len(s) - 1) /\ s[1] \in S
         /\ \A i \in 1..(Len(s) - 1) : Tail(s)[i] = s[i + 1]
OBVIOUS

-----------------------------------------------------------------------------
(***************************************************************************)
(* What a step of t may do to what the others rely on.                     *)
(***************************************************************************)
Harmless(t) ==
  /\ kind' = kind /\ \A u \in Threads \ {t} : local'[u] = local[u]
  /\ \A n \in Nodes : n \notin free /\ ~ (Pushing(t) /\ n = local[t].new) => node'[n] = node[n]
  /\ \A n \in free' : n \in free \/ (/\ Deletes /\ local[t].pc = "popData" /\ n = local[t].got
                                   /\ \A u \in Threads \ {t} : ~ HasLoaded(u, n))
  /\ Pushing(t)' => local'[t].new \in free \/ (Pushing(t) /\ local'[t].new = local[t].new)
  /\ \A i \in DOMAIN stack' : OnStack(stack'[i]) \/ (Pushing(t) /\ stack'[i] = local[t].new)
  /\ local'[t].pc = "popData" => OnStack(local'[t].got)

\* The views of the others survive a harmless step.
LEMMA OthersKeep ==
  ASSUME Undisturbed, NEW t \in Threads, NEW u \in Threads \ {t}, Harmless(t)
  PROVE  ThreadView(u)'
<1>1. local'[u] = local[u] /\ kind' = kind /\ u \in Threads /\ ThreadView(u) /\ ThreadView(t)
  BY DEF Harmless, Undisturbed
<1>2. local \in [Threads -> LocalFields]
  BY DEF Undisturbed, TypeOK, LocalFields
<1>3. \A w \in Threads \ {t} : local'[w] = local[w]
  BY DEF Harmless
<1>4. NewIsPrivate(u)'
  <2> SUFFICES ASSUME Pushing(u) PROVE NewIsPrivate(u)'
    BY <1>1 DEF NewIsPrivate, Pushing
  <2>1. /\ local[u].new \in Nodes /\ local[u].new \notin free /\ ~ OnStack(local[u].new)
        /\ \A w \in Threads \ {u} : Pushing(w) => local[w].new # local[u].new
    BY <1>1 DEF ThreadView, NewIsPrivate
  <2>2. local[u].new \notin free'
    BY <1>1, <2>1 DEF Harmless, ThreadView, GotIsKept, Popping
  <2>3. ~ OnStack(local[u].new)'
    BY <1>1, <2>1 DEF Harmless, OnStack
  <2>4. \A w \in Threads \ {u} : Pushing(w)' => local'[w].new # local[u].new
    BY <1>1, <1>3, <2>1 DEF Harmless, Pushing
  <2>5. QED
    BY <1>1, <2>1, <2>2, <2>3, <2>4 DEF NewIsPrivate
<1>5. GotIsKept(u)'
  <2> SUFFICES ASSUME Popping(u) PROVE GotIsKept(u)'
    BY <1>1 DEF GotIsKept, Popping
  <2>1. /\ local[u].got \in Nodes /\ local[u].got \notin free
        /\ \A w \in Threads : Pushing(w) => local[w].new # local[u].got
        /\ Deletes /\ local[u].pc = "popData" =>
             /\ ~ OnStack(local[u].got)
             /\ \A w \in Threads \ {u} : local[w].pc = "popData" => local[w].got # local[u].got
    BY <1>1 DEF ThreadView, GotIsKept
  <2>2. local[u].got \notin free'
    BY <2>1 DEF Harmless, HasLoaded, Popping
  <2>3. node'[local[u].got] = node[local[u].got]
    BY <2>1 DEF Harmless
  <2>4. \A w \in Threads : Pushing(w)' => local'[w].new # local[u].got
    BY <1>3, <2>1 DEF Harmless, Pushing
  <2>5. Deletes /\ local[u].pc = "popData" =>
          /\ ~ OnStack(local[u].got)'
          /\ \A w \in Threads \ {u} : local'[w].pc = "popData" => local'[w].got # local[u].got
    BY <1>3, <2>1 DEF Harmless, OnStack
  <2>6. QED
    BY <1>1, <2>1, <2>2, <2>3, <2>4, <2>5 DEF ThreadView, GotIsKept, Deletes
<1>6. OnlyPushesAndPops(u)'
  BY <1>1 DEF ThreadView, OnlyPushesAndPops, Deletes, Walking
<1>7. ASSUME Walking(u)
      PROVE  /\ ~ Deletes /\ \A i \in DOMAIN local[u].began :
                  /\ local[u].began[i] \in Nodes /\ local[u].began[i] \notin free'
                  /\ node'[local[u].began[i]] = node[local[u].began[i]]
                  /\ \A w \in Threads : Pushing(w)' => local'[w].new # local[u].began[i]
  <2>1. ~ Deletes
    BY <1>1, <1>7 DEF ThreadView, BeganIsKept
  <2>2. SUFFICES ASSUME NEW i \in DOMAIN local[u].began
                 PROVE  /\ local[u].began[i] \in Nodes /\ local[u].began[i] \notin free'
                        /\ node'[local[u].began[i]] = node[local[u].began[i]]
                        /\ \A w \in Threads : Pushing(w)' => local'[w].new # local[u].began[i]
    BY <2>1
  <2>3. local[u].began \in Seq(Nodes)
    BY <1>2 DEF LocalFields
  <2>4. /\ local[u].began[i] \in Nodes /\ local[u].began[i] \notin free
        /\ \A w \in Threads : Pushing(w) => local[w].new # local[u].began[i]
    BY <1>1, <1>7, <2>3 DEF ThreadView, BeganIsKept
  <2>5. QED
    BY <1>3, <2>1, <2>4 DEF Harmless, Pushing
<1>8. BeganIsKept(u)'
  BY <1>1, <1>7 DEF ThreadView, BeganIsKept, Walking, Deletes
<1>9. local[u].began \in Seq(Nodes) /\ local[u].count \in Nat
  BY <1>2 DEF LocalFields
<1>10. WalkIsOn(u)'
  <2>1. CASE local[u].pc \in {"size", "find"}
    <3>1. Walking(u)
      BY <2>1 DEF Walking
    <3>2. \A i \in 1..Len(local[u].began) :
            node'[local[u].began[i]] = node[local[u].began[i]]
      BY <3>1, <1>7, <1>9
    <3>3. local[u].count <= Len(local[u].began)
      BY <2>1, <1>1 DEF ThreadView, WalkIsOn
    <3>4. \A i \in 1..local[u].count : node'[local[u].began[i]] = node[local[u].began[i]]
      BY <3>2, <3>3, <1>9
    <3>5. QED
      BY <1>1, <3>4 DEF ThreadView, WalkIsOn, Whole
  <2>2. QED
    BY <2>1, <1>1 DEF WalkIsOn
<1>11. Answered(u)'
  <2>1. ASSUME Walking(u), NEW last \in Int, last <= Len(local[u].began)
        PROVE  Among(u, last)' = Among(u, last)
    <3>1. \A i \in 1..last : node'[local[u].began[i]] = node[local[u].began[i]]
      BY <1>7, <1>9, <2>1
    <3>2. QED
      BY <1>1, <3>1 DEF Among
  <2>2. Walking(u) =>
          /\ Among(u, Len(local[u].began))' = Among(u, Len(local[u].began))
          /\ Among(u, Len(local[u].began) - 1)' = Among(u, Len(local[u].began) - 1)
    BY <1>1, <1>9, <2>1
  <2>3. QED
    BY <1>1, <2>2 DEF ThreadView, Answered, Whole, Walking
<1>12. QED
  BY <1>4, <1>5, <1>6, <1>8, <1>10, <1>11 DEF ThreadView

\* Most steps of t write only its own locals.
LEMMA LocalStep ==
  ASSUME Undisturbed, NEW t \in Threads, UNCHANGED <<kind, head, node, free, stack, pulled>>,
         NEW me \in LocalFields, local' = [local EXCEPT ![t] = me], me.pc # "popData",
         calls' \in [Threads -> 0..MaxCalls],
         Pushing(t)' => Pushing(t) /\ me.new = local[t].new,
         ThreadView(t)'
  PROVE  Undisturbed'
<1>1. local \in [Threads -> LocalFields]
  BY DEF Undisturbed, TypeOK, LocalFields
<1>2. local'[t] = me /\ \A u \in Threads \ {t} : local'[u] = local[u]
  BY <1>1
<1>3. Harmless(t)
  BY <1>2 DEF Harmless, OnStack
<1>4. TypeOK' /\ ChainIsStack' /\ OnceOnStack'
  BY <1>1 DEF Undisturbed, TypeOK, LocalFields, ChainIsStack, OnceOnStack
<1>5. QED
  BY <1>3, <1>4, OthersKeep DEF Undisturbed

LEMMA InitInvariant == Init => Undisturbed
<1> SUFFICES ASSUME Init PROVE Undisturbed
  OBVIOUS
<1> USE CasStackAssumption DEF Init
<1>1. Sentinel \in Nodes
  BY DEF Sentinel
<1>2. stack \in Seq(Nodes) /\ (Deletes => Len(stack) = 1 /\ stack[1] = Sentinel)
      /\ (~ Deletes => stack = <<>>)
  BY <1>1
<1>3. <<>> \in Seq(Nodes) /\ Idle \in LocalFields
  BY DEF Idle, LocalFields, PCs, NodeOrNull, ValueOrEmpty
<1>. ~ pulled /\ pulled \in BOOLEAN
  BY Zenon
<1>4. TypeOK
  BY <1>1, <1>2, <1>3 DEF TypeOK, LocalFields, NodeOrNull, ValueOrEmpty
<1>5. ChainIsStack /\ OnceOnStack
  BY <1>1, <1>2 DEF ChainIsStack, OnceOnStack
<1>6. ASSUME NEW t \in Threads PROVE ThreadView(t)
  BY DEF ThreadView, NewIsPrivate, GotIsKept, OnlyPushesAndPops, BeganIsKept, WalkIsOn, Answered,
         Pushing, Popping, Walking, Idle
<1>7. QED
  BY <1>4, <1>5, <1>6 DEF Undisturbed

\* What is known of head and of the thread that steps.
LEMMA Types ==
  ASSUME Undisturbed
  PROVE  /\ local \in [Threads -> LocalFields] /\ calls \in [Threads -> 0..MaxCalls]
         /\ node \in [Nodes -> [data : ValueOrEmpty, next : NodeOrNull]]
         /\ stack \in Seq(Nodes) /\ head \in NodeOrNull /\ free \subseteq Nodes
         /\ stack = <<>> => head = Null
         /\ stack # <<>> => /\ head \in Nodes /\ head # Null /\ head \notin free /\ OnStack(head)
                            /\ 1 \in DOMAIN stack /\ head = stack[1]
                            /\ \A u \in Threads : Pushing(u) => local[u].new # head
BY CasStackAssumption
   DEF Undisturbed, TypeOK, LocalFields, ChainIsStack, OnStack, ThreadView, NewIsPrivate

\* What is read of a node in use is what it holds, and nothing deleted is used.
LEMMA ReadsAreDefined ==
  ASSUME Undisturbed, NEW t \in Threads
  PROVE  /\ Popping(t) => Read(local[t].got) = {node[local[t].got]}
         /\ Pushing(t) => Read(local[t].new) = {node[local[t].new]}
         /\ ~ UseDeleted(t)
         /\ \A s : Becomes(s) <=> stack' = s
<1>1. ThreadView(t) /\ ~ pulled
  BY DEF Undisturbed
<1>2. Popping(t) => local[t].got \notin free
  BY <1>1 DEF ThreadView, GotIsKept
<1>3. Pushing(t) => local[t].new \notin free
  BY <1>1 DEF ThreadView, NewIsPrivate
<1>4. QED
  BY <1>1, <1>2, <1>3 DEF Read, UseDeleted, Becomes, Popping, Pushing

\* What a pop learns of its node.
LEMMA PopReadsItsNode ==
  ASSUME Undisturbed, NEW t \in Threads
  PROVE  /\ PopNext(t) =>
              local' = [local EXCEPT ![t].next = node[local[t].got].next, ![t].pc = "popCas"]
         /\ PopData(t) =>
              local' = [local EXCEPT ![t].res = node[local[t].got].data, ![t].pc = "done"]
<1>1. Popping(t) => \A is \in Read(local[t].got) : is = node[local[t].got]
  BY ReadsAreDefined
<1>2. ASSUME PopNext(t)
      PROVE  local' = [local EXCEPT ![t].next = node[local[t].got].next, ![t].pc = "popCas"]
  <2>1. PICK is \in Read(local[t].got) :
          local' = [local EXCEPT ![t].next = is.next, ![t].pc = "popCas"]
    BY <1>2 DEF PopNext
  <2>2. is = node[local[t].got]
    BY <1>1, <1>2 DEF PopNext, Popping
  <2>3. QED
    BY <2>1, <2>2
<1>3. ASSUME PopData(t)
      PROVE  local' = [local EXCEPT ![t].res = node[local[t].got].data, ![t].pc = "done"]
  <2>1. PICK is \in Read(local[t].got) : local' = [local EXCEPT ![t].res = is.data, ![t].pc = "done"]
    BY <1>3 DEF PopData
  <2>2. is = node[local[t].got]
    BY <1>1, <1>3 DEF PopData, Popping
  <2>3. QED
    BY <2>1, <2>2
<1>4. QED
  BY <1>2, <1>3

LEMMA IdleTyped == Idle \in LocalFields
<1>1. <<>> \in Seq(Nodes)
  OBVIOUS
<1>2. QED
  BY <1>1 DEF Idle, LocalFields, PCs, NodeOrNull, ValueOrEmpty

LEMMA CountKeepsType ==
  ASSUME Undisturbed, NEW t \in Threads, Count(t)
  PROVE  calls' \in [Threads -> 0..MaxCalls]
<1>1. calls[t] \in 0..MaxCalls /\ MaxCalls \in Nat
  BY Types, CasStackAssumption
<1>2. calls' = [calls EXCEPT ![t] = calls[t] + 1] /\ calls[t] < MaxCalls
  BY DEF Count
<1>3. QED
  BY <1>1, <1>2, Types

\* A pop begins, or one of empty()'s.
LEMMA PopBegins ==
  ASSUME Undisturbed, NEW t \in Threads, Pop(t) \/ PopAgain(t)
  PROVE  Undisturbed'
<1>1. PICK e \in BOOLEAN : /\ local' = [local EXCEPT ![t] = [Idle EXCEPT !.pc = "popLoad", !.emptying = e]]
                           /\ Deletes => ~ e
  <2>1. CASE Pop(t)
    BY <2>1 DEF Pop
  <2>2. CASE PopAgain(t)
    BY <2>2 DEF PopAgain, Undisturbed, ThreadView, OnlyPushesAndPops
  <2>3. QED
    BY <2>1, <2>2
<1> DEFINE me == [Idle EXCEPT !.pc = "popLoad", !.emptying = e]
<1>2. me \in LocalFields /\ local' = [local EXCEPT ![t] = me]
      /\ me.pc = "popLoad" /\ me.emptying = e
  BY <1>1, IdleTyped DEF LocalFields, PCs
<1>3. local'[t] = me
  BY <1>2, Types
<1>4. UNCHANGED <<kind, head, node, free, stack, pulled>> /\ calls' \in [Threads -> 0..MaxCalls]
  BY Types, CountKeepsType DEF Pop, PopAgain
<1>5. ThreadView(t)'
  BY <1>1, <1>2, <1>3, <1>4 DEF ThreadView, NewIsPrivate, GotIsKept, OnlyPushesAndPops, BeganIsKept,
         WalkIsOn, Answered, Pushing, Popping, Walking, Deletes
<1>6. ~ Pushing(t)'
  BY <1>2, <1>3 DEF Pushing
<1>7. QED
  BY <1>2, <1>4, <1>5, <1>6, LocalStep

\* A pop has loaded head, first or after a CAS that failed.
LEMMA PopReads ==
  ASSUME Undisturbed, NEW t \in Threads, local[t].pc \in {"popLoad", "popCas"}, Got(t, head),
         UNCHANGED <<kind, head, node, free, calls, stack, pulled>>
  PROVE  Undisturbed'
<1> DEFINE me == [local[t] EXCEPT !.got = head, !.pc = IF head = Null THEN "done" ELSE "popNext"]
<1>1. local[t] \in LocalFields
  BY Types
<1>2. me \in LocalFields /\ local' = [local EXCEPT ![t] = me]
  BY <1>1, Types DEF Got, LocalFields, PCs
<1>3. local'[t] = me
  BY <1>2, Types
<1>4. me.pc \in {"done", "popNext"} /\ (me.pc = "popNext" => me.got = head /\ stack # <<>>)
      /\ me.emptying = local[t].emptying
  BY <1>1, Types DEF LocalFields
<1>5. ThreadView(t)'
  <2>1. OnlyPushesAndPops(t)'
    BY <1>3, <1>4 DEF Undisturbed, ThreadView, OnlyPushesAndPops, Deletes, Walking
  <2>2. \A u \in Threads : Pushing(u)' => Pushing(u) /\ local'[u].new = local[u].new
    BY <1>2, <1>3, <1>4, Types DEF Pushing
  <2>3. GotIsKept(t)'
    BY <1>3, <1>4, <2>2, Types DEF GotIsKept, Popping, OnStack, Deletes
  <2>4. QED
    BY <1>3, <1>4, <2>1, <2>3 DEF ThreadView, NewIsPrivate, BeganIsKept, WalkIsOn,
         Answered, Pushing, Walking
<1>6. ~ Pushing(t)'
  BY <1>3, <1>4 DEF Pushing
<1>7. QED
  BY <1>2, <1>4, <1>5, <1>6, Types, LocalStep

\* got->next, which nobody changes before the CAS.
LEMMA PopNextStep ==
  ASSUME Undisturbed, NEW t \in Threads, PopNext(t)
  PROVE  Undisturbed'
<1> DEFINE me == [local[t] EXCEPT !.next = node[local[t].got].next, !.pc = "popCas"]
<1>1. local[t] \in LocalFields /\ local[t].pc = "popNext" /\ ThreadView(t)
  BY Types DEF PopNext, Undisturbed
<1>2. local[t].got \in Nodes
  BY <1>1 DEF ThreadView, GotIsKept, Popping
<1>a. local' = [local EXCEPT ![t].next = node[local[t].got].next, ![t].pc = "popCas"]
  BY PopReadsItsNode
<1>3. me \in LocalFields /\ local' = [local EXCEPT ![t] = me]
  BY <1>1, <1>2, <1>a, Types DEF LocalFields, PCs
<1>4. /\ local'[t] = me /\ me.pc = "popCas" /\ me.got = local[t].got
      /\ me.next = node[local[t].got].next /\ me.emptying = local[t].emptying
  BY <1>1, <1>3, Types DEF LocalFields
<1>5. UNCHANGED <<kind, head, node, free, calls, stack, pulled>>
  BY DEF PopNext
<1>6. ThreadView(t)'
  <2>1. OnlyPushesAndPops(t)'
    BY <1>1, <1>4, <1>5 DEF ThreadView, OnlyPushesAndPops, Deletes, Walking
  <2>2. \A u \in Threads : Pushing(u)' => Pushing(u) /\ local'[u].new = local[u].new
    BY <1>3, <1>4, Types DEF Pushing
  <2>3. GotIsKept(t)'
    BY <1>1, <1>4, <1>5, <2>2 DEF ThreadView, GotIsKept, Popping, OnStack, Deletes
  <2>4. QED
    BY <1>4, <2>1, <2>3 DEF ThreadView, NewIsPrivate, BeganIsKept, WalkIsOn,
         Answered, Pushing, Walking
<1>7. ~ Pushing(t)'
  BY <1>4 DEF Pushing
<1>8. QED
  BY <1>3, <1>4, <1>5, <1>6, <1>7, Types, LocalStep

\* Everything else t may do without touching the stack: it loads head again
\* or returns.
LEMMA MovesOn ==
  ASSUME Undisturbed, NEW t \in Threads, UNCHANGED <<kind, head, node, free, calls, stack, pulled>>,
         \/ Return(t)
         \/ local[t].pc = "popCas" /\ Goto(t, "popLoad")
  PROVE  Undisturbed'
<1> DEFINE me == local'[t]
<1>1. local[t] \in LocalFields /\ ThreadView(t) /\ <<>> \in Seq(Nodes)
  BY Types DEF Undisturbed
<1>2. \/ me = Idle
      \/ /\ me = [local[t] EXCEPT !.pc = "popAgain"]
         /\ local[t].emptying /\ ~ Walking(t)'
      \/ me = [local[t] EXCEPT !.pc = "popLoad"] /\ local[t].pc = "popCas"
  BY Types DEF Return, Goto, Walking, LocalFields
<1>3. local' = [local EXCEPT ![t] = me]
  BY Types DEF Return, Goto
<1> HIDE DEF me
<1>4. me \in LocalFields
  <2>1. CASE me = Idle
    BY <2>1, <1>1 DEF Idle, LocalFields, PCs, NodeOrNull, ValueOrEmpty
  <2>2. CASE me = [local[t] EXCEPT !.pc = "popAgain"] \/ me = [local[t] EXCEPT !.pc = "popLoad"]
    BY <2>2, <1>1 DEF LocalFields, PCs
  <2>3. QED
    BY <1>2, <2>1, <2>2
<1>5. local'[t] = me
  BY DEF me
<1>6. /\ me.pc \in {"idle", "popAgain", "popLoad"}
      /\ Deletes => me.pc # "popAgain" /\ ~ me.emptying
  BY <1>1, <1>2 DEF Idle, LocalFields, ThreadView, OnlyPushesAndPops
<1>7. ThreadView(t)' /\ ~ Pushing(t)'
  BY <1>5, <1>6 DEF ThreadView, NewIsPrivate, GotIsKept, OnlyPushesAndPops, BeganIsKept, WalkIsOn,
         Answered, Pushing, Popping, Walking, Deletes
<1>8. QED
  BY <1>3, <1>4, <1>6, <1>7, Types, LocalStep

-----------------------------------------------------------------------------
(***************************************************************************)
(* size and find                                                           *)
(***************************************************************************)
\* The chain a walk sets out on is the whole stack.
LEMMA WalkBegins ==
  ASSUME Undisturbed, NEW t \in Threads, NEW v \in Values \cup {Empty}, NEW pc,
         Walk(t, pc, v), (pc = "find" /\ v \in Values) \/ (pc = "size" /\ v = Empty)
  PROVE  Undisturbed'
<1> DEFINE me == [Idle EXCEPT !.pc = pc, !.got = head, !.arg = v, !.began = stack]
<1>1. /\ me \in LocalFields /\ me.pc = pc /\ me.got = head /\ me.arg = v /\ me.began = stack
      /\ me.count = 0 /\ me.res = Empty
  BY IdleTyped, Types DEF LocalFields, PCs, ValueOrEmpty, Idle
<1>2. local' = [local EXCEPT ![t] = me] /\ local'[t] = me
  BY Types DEF Walk
<1>3. UNCHANGED <<kind, head, node, free, stack, pulled>> /\ ~ Deletes /\ calls' \in [Threads -> 0..MaxCalls]
  BY CountKeepsType DEF Walk
<1> HIDE DEF me
<1>4. \A u \in Threads : Pushing(u)' => Pushing(u) /\ local'[u].new = local[u].new
  BY <1>1, <1>2, Types DEF Pushing
<1>5. BeganIsKept(t)'
  <2>1. ASSUME NEW i \in DOMAIN stack
        PROVE  /\ stack[i] \notin free
               /\ node[stack[i]].next = IF i = Len(stack) THEN Null ELSE stack[i + 1]
               /\ \A u \in Threads : Pushing(u)' => local'[u].new # stack[i]
    BY <1>4 DEF Undisturbed, ChainIsStack, ThreadView, NewIsPrivate, OnStack
  <2>2. QED
    BY <1>1, <1>2, <1>3, <2>1 DEF BeganIsKept, Deletes
<1>6. WalkIsOn(t)'
  <2>1. stack \in Seq(Nodes) /\ (stack # <<>> => Len(stack) > 0 /\ head = stack[1])
        /\ (stack = <<>> => Len(stack) = 0 /\ head = Null)
    BY Types
  <2>2. v \in Values => v # Empty
    BY CasStackAssumption
  <2>3. QED
    BY <1>1, <1>2, <1>3, <2>1, <2>2 DEF WalkIsOn
<1>7. ThreadView(t)' /\ ~ Pushing(t)'
  BY <1>1, <1>2, <1>3, <1>5, <1>6 DEF ThreadView, NewIsPrivate, GotIsKept, OnlyPushesAndPops, Answered,
         Pushing, Popping, Deletes
<1>8. QED
  BY <1>1, <1>2, <1>3, <1>7, LocalStep

\* A walk goes on, answers, or meets NULL where it did not expect it.
LEMMA WalkStepStep ==
  ASSUME Undisturbed, NEW t \in Threads, WalkStep(t)
  PROVE  Undisturbed'
<1> DEFINE was == local[t]
           me == local'[t]
           b == was.began
           n == node[was.got]
<1>1. /\ was \in LocalFields /\ ThreadView(t) /\ was.pc \in {"size", "find"}
      /\ UNCHANGED <<kind, head, node, free, calls, stack, pulled>>
  BY Types DEF WalkStep, Undisturbed
<1>2. b \in Seq(Nodes) /\ was.count \in Nat /\ Len(b) \in Nat /\ was.count <= Len(b)
  BY <1>1 DEF LocalFields, ThreadView, WalkIsOn
<1>3. Walking(t) /\ ~ Deletes
  BY <1>1 DEF Walking, ThreadView, BeganIsKept
<1>4. was.got # Null <=> was.count < Len(b)
  BY <1>1, <1>2, CasStackAssumption DEF ThreadView, WalkIsOn
<1>5. was.got # Null =>
        /\ was.got = b[was.count + 1] /\ was.got \in Nodes /\ was.count + 1 \in DOMAIN b
        /\ n.next = IF was.count + 1 = Len(b) THEN Null ELSE b[was.count + 2]
        /\ n.next # Null <=> was.count + 1 < Len(b)
        /\ n.next \in NodeOrNull /\ n.data \in ValueOrEmpty
  <2> SUFFICES ASSUME was.got # Null
               PROVE  /\ was.got = b[was.count + 1] /\ was.got \in Nodes /\ was.count + 1 \in DOMAIN b
                      /\ n.next = IF was.count + 1 = Len(b) THEN Null ELSE b[was.count + 2]
                      /\ n.next # Null <=> was.count + 1 < Len(b)
                      /\ n.next \in NodeOrNull /\ n.data \in ValueOrEmpty
    OBVIOUS
  <2>1. was.got = b[was.count + 1] /\ was.count + 1 \in DOMAIN b
    BY <1>1, <1>2, <1>4 DEF ThreadView, WalkIsOn
  <2>2. n.next = IF was.count + 1 = Len(b) THEN Null ELSE b[(was.count + 1) + 1]
    BY <1>1, <1>3, <2>1 DEF ThreadView, BeganIsKept
  <2>3. was.count + 1 < Len(b) => b[was.count + 2] \in Nodes
    BY <1>2
  <2>4. was.got \in Nodes
    BY <1>2, <2>1
  <2>5. QED
    BY <1>2, <2>1, <2>2, <2>3, <2>4, Types, CasStackAssumption
<1>6. (WholeWalk(was.pc) <=> Whole(t)) /\ (was.pc = "size" => was.arg = Empty)
      /\ (was.pc = "find" => was.arg # Empty /\ was.res = Empty)
  BY <1>1 DEF ThreadView, WalkIsOn, WholeWalk, Whole
<1>7. \/ /\ me = [was EXCEPT !.pc = "segv"] /\ was.got = Null /\ ~ Whole(t)
      \/ /\ me = [was EXCEPT !.pc = "walked"]
         /\ (was.got = Null /\ Whole(t)) \/ (was.got # Null /\ ~ Whole(t) /\ n.next = Null)
      \/ /\ me = [was EXCEPT !.pc = "walked", !.res = was.arg] /\ was.pc = "find"
         /\ was.got # Null /\ n.next # Null /\ n.data = was.arg
      \/ /\ me = [was EXCEPT !.got = n.next, !.count = was.count + 1]
         /\ was.got # Null /\ (Whole(t) \/ n.next # Null)
         /\ was.pc = "find" => n.data # was.arg
  <2>1. CASE was.got = Null /\ ~ Whole(t) /\ Goto(t, "segv")
    BY <2>1, Types DEF Goto
  <2>2. CASE /\ (was.got = Null /\ Whole(t)) \/ (was.got # Null /\ ~ Whole(t) /\ n.next = Null)
             /\ Goto(t, "walked")
    BY <2>2, Types DEF Goto
  <2>3. CASE /\ was.got # Null /\ n.next # Null /\ was.pc = "find" /\ n.data = was.arg
             /\ local' = [local EXCEPT ![t].pc = "walked", ![t].res = was.arg]
    BY <2>3, Types
  <2>4. CASE /\ was.got # Null /\ (Whole(t) \/ n.next # Null) /\ ~ (was.pc = "find" /\ n.data = was.arg)
             /\ local' = [local EXCEPT ![t].got = n.next, ![t].count = was.count + 1]
    BY <2>4, Types
  <2>5. was.pc = "find" => ~ Whole(t)
    BY <1>6 DEF WholeWalk
  <2>6. QED
    BY <2>1, <2>2, <2>3, <2>4, <2>5, <1>6 DEF WalkStep
<1>8. local' = [local EXCEPT ![t] = me]
  BY Types DEF WalkStep, Goto
<1> HIDE DEF me
<1>9. local'[t] = me
  BY DEF me
<1>10. /\ me \in LocalFields /\ me.began = b /\ me.arg = was.arg
       /\ me.pc \in {"segv", "walked", "size", "find"} /\ me.emptying = was.emptying
  <2>1. CASE me = [was EXCEPT !.pc = "segv"] \/ me = [was EXCEPT !.pc = "walked"]
    BY <2>1, <1>1 DEF LocalFields, PCs
  <2>2. CASE me = [was EXCEPT !.pc = "walked", !.res = was.arg]
    BY <2>2, <1>1 DEF LocalFields, PCs
  <2>3. CASE me = [was EXCEPT !.got = n.next, !.count = was.count + 1] /\ was.got # Null
    <3>1. n.next \in NodeOrNull /\ was.count + 1 \in Nat
      BY <2>3, <1>2, <1>5
    <3> HIDE DEF n
    <3>2. QED
      BY <2>3, <3>1, <1>1 DEF LocalFields, PCs
  <2>4. QED
    BY <1>7, <2>1, <2>2, <2>3
<1>11. \A u \in Threads : Pushing(u)' => Pushing(u) /\ local'[u].new = local[u].new
  BY <1>8, <1>9, <1>10, Types DEF Pushing
<1>12. BeganIsKept(t)'
  BY <1>1, <1>3, <1>9, <1>10, <1>11 DEF ThreadView, BeganIsKept, Deletes
<1>13. WalkIsOn(t)'
  <2>1. CASE me.pc \in {"segv", "walked"}
    BY <1>9, <2>1 DEF WalkIsOn
  <2>2. CASE me.pc \notin {"segv", "walked"}
    <3>1. /\ me = [was EXCEPT !.got = n.next, !.count = was.count + 1]
          /\ was.got # Null /\ (Whole(t) \/ n.next # Null)
          /\ was.pc = "find" => n.data # was.arg
      BY <1>1, <1>7, <2>2 DEF LocalFields
    <3>2. me.got = n.next /\ me.count = was.count + 1 /\ me.res = was.res /\ me.pc = was.pc
      BY <1>1, <3>1 DEF LocalFields
    <3>3. me.count <= Len(b) /\ me.got = IF me.count < Len(b) THEN b[me.count + 1] ELSE Null
      BY <1>2, <1>4, <1>5, <3>1, <3>2
    <3>4. ~ Whole(t) => me.count < Len(b)
      BY <1>5, <3>1, <3>2
    <3>5. was.pc = "find" => \A i \in 1..me.count : node[b[i]].data # was.arg
      BY <1>1, <1>2, <1>5, <3>1, <3>2 DEF ThreadView, WalkIsOn
    <3>6. QED
      BY <1>1, <1>6, <1>9, <1>10, <3>2, <3>3, <3>4, <3>5 DEF WalkIsOn, Whole
  <2>3. QED
    BY <2>1, <2>2
<1>14. Answered(t)'
  <2>1. /\ \A last \in Int : Among(t, last)' = {node[b[i]].data : i \in 1..last}
        /\ Whole(t)' <=> Whole(t)
    BY <1>1, <1>9, <1>10 DEF Among, Whole
  <2>2. CASE me = [was EXCEPT !.pc = "segv"] /\ was.got = Null /\ ~ Whole(t)
    <3>1. me.pc = "segv" /\ b = <<>>
      BY <1>1, <1>2, <1>4, <2>2 DEF ThreadView, WalkIsOn, LocalFields
    <3>2. QED
      BY <1>9, <1>10, <2>1, <2>2, <3>1 DEF Answered
  <2>3. CASE /\ me = [was EXCEPT !.pc = "walked"]
             /\ (was.got = Null /\ Whole(t)) \/ (was.got # Null /\ ~ Whole(t) /\ n.next = Null)
    <3>1. me.pc = "walked" /\ me.count = was.count /\ me.res = was.res
      BY <1>1, <2>3 DEF LocalFields
    <3>2. was.count = (IF Whole(t) THEN Len(b) ELSE Len(b) - 1)
      BY <1>2, <1>4, <1>5, <2>3, <3>1
    <3>3. was.arg # Empty => /\ was.res = Empty /\ ~ Whole(t)
                             /\ \A i \in 1..(Len(b) - 1) : node[b[i]].data # was.arg
      BY <1>1, <3>1, <3>2 DEF ThreadView, WalkIsOn, Whole
    <3>4. was.arg # Empty => me.res # was.arg /\ was.arg \notin Among(t, Len(b) - 1)'
      BY <1>2, <1>9, <1>10, <2>1, <3>1, <3>3
    <3>5. QED
      BY <1>9, <1>10, <2>1, <3>1, <3>2, <3>4 DEF Answered
  <2>4. CASE /\ me = [was EXCEPT !.pc = "walked", !.res = was.arg] /\ was.pc = "find"
             /\ was.got # Null /\ n.next # Null /\ n.data = was.arg
    <3>1. me.pc = "walked" /\ me.res = was.arg
      BY <1>1, <2>4 DEF LocalFields
    <3>2. was.count + 1 \in 1..Len(b) /\ node[b[was.count + 1]].data = was.arg
      BY <1>2, <1>5, <2>4
    <3>3. was.arg \in Among(t, Len(b))'
      BY <1>2, <1>9, <1>10, <2>1, <3>2
    <3>4. ~ Whole(t)
      BY <1>6, <2>4 DEF WholeWalk
    <3>5. QED
      BY <1>9, <1>10, <2>1, <3>1, <3>3, <3>4 DEF Answered
  <2>5. CASE me = [was EXCEPT !.got = n.next, !.count = was.count + 1]
    <3>1. me.pc \in {"size", "find"}
      BY <1>1, <2>5 DEF LocalFields
    <3>2. QED
      BY <1>9, <3>1 DEF Answered
  <2>6. QED
    BY <1>7, <2>2, <2>3, <2>4, <2>5
<1>15. ThreadView(t)' /\ ~ Pushing(t)'
  BY <1>3, <1>1, <1>9, <1>10, <1>12, <1>13, <1>14
     DEF ThreadView, NewIsPrivate, GotIsKept, OnlyPushesAndPops, Pushing, Popping, Deletes
<1>16. QED
  BY <1>1, <1>8, <1>10, <1>15, Types, LocalStep

-----------------------------------------------------------------------------
(***************************************************************************)
(* The steps that write shared memory                                      *)
(***************************************************************************)
\* A new node is nobody else's: it comes from the free ones.
LEMMA PushBegins ==
  ASSUME Undisturbed, NEW t \in Threads, NEW v \in Values, Push(t, v)
  PROVE  Undisturbed'
<1>1. PICK n \in free :
        /\ free' = free \ {n}
        /\ node' = [node EXCEPT ![n] = [data |-> v, next |-> head]]
        /\ local' = [local EXCEPT ![t] = [Idle EXCEPT !.pc = "pushCas", !.new = n]]
  BY DEF Push
<1> DEFINE me == [Idle EXCEPT !.pc = "pushCas", !.new = n]
<1>2. n \in Nodes /\ n \in free
  BY Types
<1>3. me \in LocalFields /\ me.pc = "pushCas" /\ me.new = n /\ me.emptying = FALSE
  BY <1>2, IdleTyped DEF LocalFields, PCs, NodeOrNull, Idle
<1>4. local'[t] = me /\ (\A u \in Threads \ {t} : local'[u] = local[u])
      /\ local' \in [Threads -> LocalFields]
  BY <1>1, <1>3, Types
<1>5. UNCHANGED <<kind, head, stack, pulled>> /\ calls' \in [Threads -> 0..MaxCalls] /\ ~ Pushing(t)
  BY CountKeepsType DEF Push, Count, Pushing
<1>6. node' \in [Nodes -> [data : ValueOrEmpty, next : NodeOrNull]]
      /\ \A m \in Nodes \ {n} : node'[m] = node[m]
  BY <1>1, Types DEF ValueOrEmpty
<1>7. ~ OnStack(n)
  BY <1>2 DEF Undisturbed, ChainIsStack, OnStack
<1>8. Harmless(t)
  BY <1>1, <1>2, <1>3, <1>4, <1>5, <1>6 DEF Harmless, OnStack, Pushing
<1>9. TypeOK'
  BY <1>1, <1>4, <1>5, <1>6 DEF Undisturbed, TypeOK, LocalFields
<1>10. ChainIsStack' /\ OnceOnStack'
  BY <1>1, <1>5, <1>6, <1>7, Types DEF Undisturbed, ChainIsStack, OnceOnStack, OnStack
<1> HIDE DEF me
<1>11. ThreadView(t)'
  <2>1. \A u \in Threads \ {t} : Pushing(u)' => local'[u].new # n
    BY <1>2, <1>4 DEF Undisturbed, ThreadView, NewIsPrivate, Pushing
  <2>2. NewIsPrivate(t)'
    BY <1>1, <1>2, <1>3, <1>4, <1>5, <1>7, <2>1 DEF NewIsPrivate, OnStack
  <2>3. QED
    BY <1>3, <1>4, <2>2 DEF ThreadView, GotIsKept, OnlyPushesAndPops, BeganIsKept, WalkIsOn, Answered,
         Popping, Walking
<1>12. QED
  BY <1>5, <1>8, <1>9, <1>10, <1>11, OthersKeep DEF Undisturbed

\* A push loads head into its node, first or after a CAS that failed.
LEMMA PushRelinks ==
  ASSUME Undisturbed, NEW t \in Threads, Pushing(t), NEW pc \in {"pushLoad", "pushCas"},
         NEW m \in NodeOrNull,
         node' = [node EXCEPT ![local[t].new].next = m],
         Goto(t, pc), UNCHANGED <<kind, head, free, calls, stack, pulled>>
  PROVE  Undisturbed'
<1> DEFINE n == local[t].new
           me == [local[t] EXCEPT !.pc = pc]
<1>1. /\ local[t] \in LocalFields /\ ThreadView(t) /\ n \in Nodes /\ ~ OnStack(n) /\ n \notin free
      /\ \A u \in Threads \ {t} : Pushing(u) => local[u].new # n
  BY Types DEF Undisturbed, ThreadView, NewIsPrivate
<1>2. me \in LocalFields /\ me.pc = pc /\ me.new = n /\ me.emptying = local[t].emptying
  BY <1>1 DEF LocalFields, PCs
<1>3. local'[t] = me /\ (\A u \in Threads \ {t} : local'[u] = local[u])
      /\ local' \in [Threads -> LocalFields]
  BY <1>2, Types DEF Goto
<1>4. node' \in [Nodes -> [data : ValueOrEmpty, next : NodeOrNull]]
      /\ \A k \in Nodes \ {n} : node'[k] = node[k]
  BY <1>1, Types
<1>5. Harmless(t)
  BY <1>2, <1>3, <1>4 DEF Harmless, OnStack
<1>6. TypeOK'
  BY <1>3, <1>4 DEF Undisturbed, TypeOK, LocalFields
<1>7. ChainIsStack' /\ OnceOnStack'
  BY <1>1, <1>4, Types DEF Undisturbed, ChainIsStack, OnceOnStack, OnStack
<1> HIDE DEF me
<1>8. ThreadView(t)'
  <2>1. NewIsPrivate(t)'
    BY <1>1, <1>2, <1>3 DEF NewIsPrivate, OnStack, Pushing
  <2>2. OnlyPushesAndPops(t)'
    BY <1>1, <1>2, <1>3 DEF ThreadView, OnlyPushesAndPops, Walking, Deletes
  <2>3. QED
    BY <1>2, <1>3, <2>1, <2>2 DEF ThreadView, GotIsKept, BeganIsKept, WalkIsOn, Answered,
         Popping, Walking
<1>9. QED
  BY <1>5, <1>6, <1>7, <1>8, OthersKeep DEF Undisturbed

\* The CAS of a push: its node, whose next is the top, becomes the top.
LEMMA PushCasWins ==
  ASSUME Undisturbed, NEW t \in Threads, local[t].pc = "pushCas", head = node[local[t].new].next,
         head' = local[t].new, stack' = <<local[t].new>> \o stack, Goto(t, "done"),
         UNCHANGED <<kind, node, free, calls, pulled>>
  PROVE  Undisturbed'
<1> DEFINE n == local[t].new
           me == [local[t] EXCEPT !.pc = "done"]
<1>1. /\ local[t] \in LocalFields /\ ThreadView(t) /\ n \in Nodes /\ ~ OnStack(n) /\ n \notin free
      /\ Pushing(t)
  BY Types DEF Undisturbed, ThreadView, NewIsPrivate, Pushing
<1>2. me \in LocalFields /\ me.pc = "done" /\ me.emptying = local[t].emptying
  BY <1>1 DEF LocalFields, PCs
<1>3. local'[t] = me /\ (\A u \in Threads \ {t} : local'[u] = local[u])
      /\ local' \in [Threads -> LocalFields]
  BY <1>2, Types DEF Goto
<1>4. /\ stack' \in Seq(Nodes) /\ Len(stack') = Len(stack) + 1 /\ DOMAIN stack' = 1..(Len(stack) + 1)
      /\ stack'[1] = n /\ \A i \in 2..(Len(stack) + 1) : stack'[i] = stack[i - 1]
      /\ \A i \in 1..Len(stack) : stack'[i + 1] = stack[i]
      /\ Len(stack) \in Nat /\ DOMAIN stack = 1..Len(stack)
  BY <1>1, Types, Prepend
<1>5. \A i \in DOMAIN stack' : i = 1 \/ (i - 1 \in DOMAIN stack /\ stack'[i] = stack[i - 1])
  BY <1>4
<1>6. Harmless(t)
  <2>1. ASSUME NEW m \in Nodes, OnStack(m)
        PROVE  OnStack(m)'
    <3>1. PICK i \in DOMAIN stack : stack[i] = m
      BY <2>1 DEF OnStack
    <3>2. i + 1 \in DOMAIN stack' /\ stack'[i + 1] = m
      BY <1>4, <3>1
    <3>3. QED
      BY <3>2 DEF OnStack
  <2>2. \A i \in DOMAIN stack' : OnStack(stack'[i]) \/ stack'[i] = n
    BY <1>4, <1>5 DEF OnStack
  <2>3. QED
    BY <1>1, <1>2, <1>3, <2>1, <2>2 DEF Harmless, Pushing
<1>7. TypeOK'
  BY <1>1, <1>3, <1>4 DEF Undisturbed, TypeOK, LocalFields, NodeOrNull
<1>8. ChainIsStack'
  <2>1. stack' # <<>> /\ head' = stack'[1]
    BY <1>4
  <2>2. ASSUME NEW i \in DOMAIN stack'
        PROVE  /\ node'[stack'[i]].next = IF i = Len(stack') THEN Null ELSE stack'[i + 1]
               /\ stack'[i] \notin free'
    <3>1. CASE i = 1
      <4>1. node[n].next = head /\ (Len(stack) = 0 => head = Null)
            /\ (Len(stack) # 0 => head = stack[1])
        BY Types, <1>4
      <4>2. Len(stack) # 0 => stack'[2] = stack[1]
        BY <1>4
      <4>3. QED
        BY <1>1, <1>4, <3>1, <4>1, <4>2
    <3>2. CASE i # 1
      <4>1. i - 1 \in DOMAIN stack /\ stack'[i] = stack[i - 1] /\ i \in Nat
        BY <1>4, <1>5, <3>2
      <4>2. /\ node[stack[i - 1]].next = IF i - 1 = Len(stack) THEN Null ELSE stack[(i - 1) + 1]
            /\ stack[i - 1] \notin free
        BY <4>1 DEF Undisturbed, ChainIsStack
      <4>3. i - 1 # Len(stack) => stack'[i + 1] = stack[i]
        BY <1>4, <4>1
      <4>4. QED
        BY <1>4, <4>1, <4>2, <4>3
    <3>3. QED
      BY <3>1, <3>2
  <2>3. QED
    BY <2>1, <2>2 DEF ChainIsStack
<1>9. OnceOnStack'
  BY <1>1, <1>4, <1>5 DEF Undisturbed, OnceOnStack, OnStack
<1> HIDE DEF me
<1>10. ThreadView(t)'
  BY <1>1, <1>2, <1>3 DEF ThreadView, NewIsPrivate, GotIsKept, OnlyPushesAndPops, BeganIsKept, WalkIsOn,
       Answered, Popping, Pushing, Walking, Deletes
<1>11. QED
  BY <1>6, <1>7, <1>8, <1>9, <1>10, OthersKeep DEF Undisturbed

\* The CAS of a pop: what it read of the top is still so.
LEMMA PopCasWins ==
  ASSUME Undisturbed, NEW t \in Threads, local[t].pc = "popCas", head = local[t].got,
         head' = local[t].next, stack' = Tail(stack), Goto(t, "popData"),
         UNCHANGED <<kind, node, free, calls, pulled>>
  PROVE  Undisturbed'
<1> DEFINE n == local[t].got
           me == [local[t] EXCEPT !.pc = "popData"]
<1>1. /\ local[t] \in LocalFields /\ ThreadView(t) /\ n \in Nodes /\ n \notin free
      /\ local[t].next = node[n].next /\ Popping(t)
      /\ \A u \in Threads : Pushing(u) => local[u].new # n
  BY Types DEF Undisturbed, ThreadView, GotIsKept, Popping
<1>2. me \in LocalFields /\ me.pc = "popData" /\ me.emptying = local[t].emptying /\ me.got = n
  BY <1>1 DEF LocalFields, PCs
<1>3. local'[t] = me /\ (\A u \in Threads \ {t} : local'[u] = local[u])
      /\ local' \in [Threads -> LocalFields]
  BY <1>2, Types DEF Goto
<1>4. stack # <<>> /\ stack[1] = n
  BY <1>1, Types, CasStackAssumption
<1>5. /\ stack' \in Seq(Nodes) /\ Len(stack') = Len(stack) - 1 /\ DOMAIN stack' = 1..(Len(stack) - 1)
      /\ Len(stack) \in Nat \ {0} /\ DOMAIN stack = 1..Len(stack)
      /\ \A i \in DOMAIN stack' : i + 1 \in DOMAIN stack /\ stack'[i] = stack[i + 1]
  BY <1>4, Types, TakeTail
<1>6. Harmless(t)
  <2>1. \A i \in DOMAIN stack' : OnStack(stack'[i])
    BY <1>5 DEF OnStack
  <2>2. OnStack(n)
    BY <1>4, <1>5 DEF OnStack
  <2>3. QED
    BY <1>2, <1>3, <2>1, <2>2 DEF Harmless, Pushing
<1>7. TypeOK'
  BY <1>1, <1>3, <1>5, Types DEF Undisturbed, TypeOK, LocalFields
<1>8. ChainIsStack'
  <2>1. node[n].next = IF 1 = Len(stack) THEN Null ELSE stack[1 + 1]
    BY <1>4, <1>5 DEF Undisturbed, ChainIsStack
  <2>2. head' = IF stack' = <<>> THEN Null ELSE stack'[1]
    <3>1. CASE Len(stack) = 1
      <4>1. Len(stack') = 0 /\ head' = Null
        BY <1>1, <1>5, <2>1, <3>1
      <4>2. stack' = <<>>
        BY <1>5, <4>1
      <4>3. QED
        BY <4>1, <4>2
    <3>2. CASE Len(stack) # 1
      <4>0. 1 \in DOMAIN stack' /\ Len(stack') # 0
        BY <1>5, <3>2
      <4>1. stack'[1] = stack[2] /\ stack' # <<>>
        <5>1. stack'[1] = stack[1 + 1]
          BY <1>5, <4>0
        <5>2. 1 + 1 = 2
          OBVIOUS
        <5>3. stack'[1] = stack[2]
          BY <5>1, <5>2, Zenon
        <5>4. stack' # <<>>
          BY <1>5, <4>0
        <5>5. QED
          BY <5>3, <5>4
      <4>2. head' = stack[2]
        BY <1>1, <1>5, <2>1, <3>2
      <4>3. QED
        BY <4>1, <4>2
    <3>3. QED
      BY <3>1, <3>2
  <2>3. ASSUME NEW i \in DOMAIN stack'
        PROVE  /\ node'[stack'[i]].next = IF i = Len(stack') THEN Null ELSE stack'[i + 1]
               /\ stack'[i] \notin free'
    <3>1. i + 1 \in DOMAIN stack /\ stack'[i] = stack[i + 1]
      BY <1>5
    <3>2. /\ node[stack[i + 1]].next = IF i + 1 = Len(stack) THEN Null ELSE stack[(i + 1) + 1]
          /\ stack[i + 1] \notin free
      BY <3>1 DEF Undisturbed, ChainIsStack
    <3>3. QED
      BY <1>5, <3>1, <3>2
  <2>4. QED
    BY <2>2, <2>3 DEF ChainIsStack
<1>9. OnceOnStack'
  BY <1>5 DEF Undisturbed, OnceOnStack
<1>10. \A i \in DOMAIN stack' : stack'[i] # n
  BY <1>4, <1>5 DEF Undisturbed, OnceOnStack
<1> HIDE DEF me
<1>11. ThreadView(t)'
  <2>1. \A u \in Threads : Pushing(u)' => local'[u].new # n
    BY <1>1, <1>2, <1>3 DEF Pushing
  <2>a. OnStack(n)
    BY <1>4, <1>5 DEF OnStack
  <2>b. Deletes => \A u \in Threads \ {t} : local'[u].pc = "popData" => local'[u].got # n
    BY <1>3, <2>a DEF Undisturbed, ThreadView, GotIsKept, Popping
  <2>2. GotIsKept(t)'
    BY <1>1, <1>2, <1>3, <1>10, <2>1, <2>b DEF GotIsKept, OnStack, Deletes
  <2>3. OnlyPushesAndPops(t)'
    BY <1>1, <1>2, <1>3 DEF ThreadView, OnlyPushesAndPops, Walking, Deletes
  <2>4. QED
    BY <1>2, <1>3, <2>2, <2>3 DEF ThreadView, NewIsPrivate, BeganIsKept, WalkIsOn, Answered,
         Pushing, Walking
<1>12. QED
  BY <1>6, <1>7, <1>8, <1>9, <1>11, OthersKeep DEF Undisturbed

\* The value is taken from the popped node, which AtomicStack then deletes.
LEMMA PopDataStep ==
  ASSUME Undisturbed, NEW t \in Threads, PopData(t), ~ pulled'
  PROVE  Undisturbed'
<1> DEFINE n == local[t].got
           me == [local[t] EXCEPT !.res = node[n].data, !.pc = "done"]
<1>1. /\ local[t] \in LocalFields /\ ThreadView(t) /\ n \in Nodes /\ local[t].pc = "popData"
      /\ Deletes => ~ OnStack(n)
  BY Types DEF Undisturbed, ThreadView, GotIsKept, Popping, PopData
<1>2. me \in LocalFields /\ me.pc = "done" /\ me.emptying = local[t].emptying
  BY <1>1, Types DEF LocalFields, PCs
<1>a. local' = [local EXCEPT ![t].res = node[n].data, ![t].pc = "done"]
  BY PopReadsItsNode
<1>3. local'[t] = me /\ (\A u \in Threads \ {t} : local'[u] = local[u])
      /\ local' \in [Threads -> LocalFields]
  BY <1>2, <1>a, Types
<1>b. Deletes => \A u \in Threads \ {t} : ~ HasLoaded(u, n)
  BY DEF PopData
<1>4. UNCHANGED <<kind, head, node, calls, stack>> /\ free' = (IF Deletes THEN free \cup {n} ELSE free)
  BY DEF PopData
<1> HIDE DEF me
<1>5. Harmless(t)
  <2>1. \A m \in free' : m \in free \/ (/\ Deletes /\ local[t].pc = "popData" /\ m = n
                                   /\ \A u \in Threads \ {t} : ~ HasLoaded(u, m))
    BY <1>1, <1>4, <1>b
  <2>2. ~ Pushing(t)' /\ local'[t].pc # "popData"
    BY <1>2, <1>3 DEF Pushing
  <2>3. \A i \in DOMAIN stack' : OnStack(stack'[i])
    BY <1>4 DEF OnStack
  <2>4. kind' = kind /\ (\A u \in Threads \ {t} : local'[u] = local[u]) /\ node' = node
    BY <1>3, <1>4
  <2>5. QED
    BY <2>1, <2>2, <2>3, <2>4 DEF Harmless
<1>c. pulled' \in BOOLEAN
  <2>1. pulled' = (pulled \/ (Deletes /\ \E u \in Threads \ {t} : HasLoaded(u, n)))
    BY DEF PopData
  <2>2. QED
    BY <2>1, Zenon
<1>6. TypeOK'
  BY <1>1, <1>3, <1>4, <1>c DEF Undisturbed, TypeOK, LocalFields
<1>7. ChainIsStack' /\ OnceOnStack'
  BY <1>1, <1>4 DEF Undisturbed, ChainIsStack, OnceOnStack, OnStack
<1>8. ThreadView(t)'
  BY <1>1, <1>2, <1>3, <1>4 DEF ThreadView, NewIsPrivate, GotIsKept, OnlyPushesAndPops, BeganIsKept,
       WalkIsOn, Answered, Popping, Pushing, Walking, Deletes
<1>9. QED
  BY <1>5, <1>6, <1>7, <1>8, OthersKeep DEF Undisturbed

LEMMA NextKeepsUndisturbed == Undisturbed /\ [Next]_vars /\ ~ pulled' => Undisturbed'
<1> SUFFICES ASSUME Undisturbed, [Next]_vars, ~ pulled' PROVE Undisturbed'
  OBVIOUS
<1>1. ASSUME NEW t \in Threads, Invoke(t) PROVE Undisturbed'
  BY <1>1, PushBegins, PopBegins, WalkBegins DEF Invoke
<1>2. ASSUME NEW t \in Threads, PushLoad(t) \/ PushCas(t) PROVE Undisturbed'
  <2>1. Pushing(t) /\ local = [local EXCEPT ![t].pc = local[t].pc] /\ head \in NodeOrNull
    BY <1>2, Types DEF PushLoad, PushCas, Pushing, LocalFields
  <2>2. CASE PushLoad(t)
    BY <2>1, <2>2, PushRelinks DEF PushLoad
  <2>3. CASE PushCas(t)
    <3>1. CASE head = node[local[t].new].next /\ head' = local[t].new
               /\ stack' = <<local[t].new>> \o stack /\ Goto(t, "done") /\ UNCHANGED node
      BY <2>3, <3>1, PushCasWins DEF PushCas
    <3>2. CASE node' = [node EXCEPT ![local[t].new].next = head] /\ UNCHANGED <<head, local, stack>>
      BY <2>1, <2>3, <3>2, PushRelinks DEF PushCas, Goto
    <3>3. CASE Goto(t, "pushLoad") /\ UNCHANGED <<head, node, stack>>
      <4>1. node' = [node EXCEPT ![local[t].new].next = node[local[t].new].next]
            /\ node[local[t].new].next \in NodeOrNull
        BY <2>1, <3>3, Types DEF Undisturbed, ThreadView, NewIsPrivate
      <4>2. QED
        BY <2>1, <2>3, <3>3, <4>1, PushRelinks DEF PushCas
    <3>4. QED
      BY <2>1, <2>3, <3>1, <3>2, <3>3, ReadsAreDefined DEF PushCas
  <2>4. QED
    BY <1>2, <2>2, <2>3
<1>3. ASSUME NEW t \in Threads, PopCas(t) PROVE Undisturbed'
  BY <1>3, PopCasWins, PopReads, MovesOn, ReadsAreDefined DEF PopCas
<1>4. ASSUME NEW t \in Threads, PopLoad(t) PROVE Undisturbed'
  BY <1>4, PopReads DEF PopLoad
<1>5. ASSUME NEW t \in Threads, Step(t) PROVE Undisturbed'
  BY <1>2, <1>3, <1>4, <1>5, PopNextStep, PopDataStep, PopBegins, WalkStepStep, MovesOn,
     ReadsAreDefined DEF Step, Return
<1>6. CASE UNCHANGED vars
  BY <1>6 DEF vars, Undisturbed, TypeOK, ChainIsStack, OnceOnStack, ThreadView, NewIsPrivate,
       GotIsKept, OnlyPushesAndPops, BeganIsKept, WalkIsOn, Answered, Pushing, Popping, Walking,
       OnStack, Deletes, Whole, Among
<1>7. QED
  BY <1>1, <1>5, <1>6 DEF Next, Terminating

-----------------------------------------------------------------------------
(***************************************************************************)
(* What holds even after a pop has deleted a node under another one        *)
(***************************************************************************)
\* The types, and that addresses in use are addresses of nodes.
Sane ==
  /\ TypeOK /\ (pulled => Deletes)
  /\ \A t \in Threads : Points(t) /\ OnlyPushesAndPops(t)

LEMMA UndisturbedIsSane == Undisturbed => Sane
BY DEF Undisturbed, Sane, ThreadView, NewIsPrivate, GotIsKept, Points

\* A step that writes the locals of its thread well, and the rest in its types.
LEMMA SaneLocals ==
  ASSUME Sane, Deletes, NEW t \in Threads, NEW me \in LocalFields,
         local' = [local EXCEPT ![t] = me],
         kind' = kind, calls' \in [Threads -> 0..MaxCalls], head' \in NodeOrNull,
         node' \in [Nodes -> [data : ValueOrEmpty, next : NodeOrNull]], free' \subseteq Nodes,
         stack' \in Seq(Nodes), pulled' \in BOOLEAN,
         me.pc \in {"popNext", "popCas", "popData"} => me.got \in Nodes,
         me.pc \in {"pushLoad", "pushCas"} => me.new \in Nodes,
         ~ me.emptying, me.pc \notin {"popAgain", "size", "find", "walked"}
  PROVE  Sane'
<1>1. local \in [Threads -> LocalFields]
  BY DEF Sane, TypeOK, LocalFields
<1>2. local'[t] = me /\ \A u \in Threads \ {t} : local'[u] = local[u]
  BY <1>1
<1>3. \A u \in Threads : Points(u)' /\ OnlyPushesAndPops(u)'
  BY <1>2 DEF Sane, Points, OnlyPushesAndPops, Pushing, Popping, Deletes
<1>4. TypeOK'
  BY <1>1 DEF Sane, TypeOK, LocalFields
<1>5. QED
  BY <1>3, <1>4 DEF Sane, Deletes

LEMMA NextKeepsSane ==
  ASSUME Sane, Deletes, [Next]_vars, pulled \/ \E t \in Threads : PopData(t)
  PROVE  Sane'
<1>1. /\ local \in [Threads -> LocalFields] /\ calls \in [Threads -> 0..MaxCalls]
      /\ node \in [Nodes -> [data : ValueOrEmpty, next : NodeOrNull]]
      /\ stack \in Seq(Nodes) /\ head \in NodeOrNull /\ free \subseteq Nodes /\ pulled \in BOOLEAN
  BY DEF Sane, TypeOK, LocalFields
<1>2. \A n \in Nodes : \A is \in Read(n) : is.data \in ValueOrEmpty /\ is.next \in NodeOrNull
  BY <1>1 DEF Read, ValueOrEmpty, NodeOrNull
<1>3. ASSUME NEW t \in Threads, Count(t) PROVE calls' \in [Threads -> 0..MaxCalls]
  <2>1. calls[t] + 1 \in 0..MaxCalls /\ calls' = [calls EXCEPT ![t] = calls[t] + 1]
    BY <1>1, <1>3, CasStackAssumption DEF Count
  <2>2. QED
    BY <1>1, <2>1
<1>4. ASSUME NEW t \in Threads, PopData(t) PROVE Sane'
  <2>1. PICK is \in Read(local[t].got) : local' = [local EXCEPT ![t].res = is.data, ![t].pc = "done"]
    BY <1>4 DEF PopData
  <2> DEFINE me == [local[t] EXCEPT !.res = is.data, !.pc = "done"]
  <2>2. local[t] \in LocalFields /\ local[t].got \in Nodes /\ ~ local[t].emptying
    BY <1>1, <1>4 DEF Sane, Points, Popping, PopData, OnlyPushesAndPops
  <2>3. me \in LocalFields /\ me.pc = "done" /\ ~ me.emptying
    BY <1>2, <2>1, <2>2 DEF LocalFields, PCs
  <2>4. local' = [local EXCEPT ![t] = me]
    BY <1>1, <2>1
  <2>5. free' \subseteq Nodes
    BY <1>1, <1>4, <2>2 DEF PopData
  <2>6. pulled' \in BOOLEAN /\ UNCHANGED <<kind, head, node, calls, stack>>
    BY <1>4 DEF PopData
  <2> HIDE DEF me
  <2>7. QED
    BY <1>1, <2>3, <2>4, <2>5, <2>6, SaneLocals
<1>5. ASSUME pulled, NEW t \in Threads, NEW v \in Values, Push(t, v) PROVE Sane'
  <2>1. PICK n \in free :
          /\ free' = free \ {n} /\ node' = [node EXCEPT ![n] = [data |-> v, next |-> head]]
          /\ local' = [local EXCEPT ![t] = [Idle EXCEPT !.pc = "pushCas", !.new = n]]
    BY <1>5 DEF Push
  <2> DEFINE me == [Idle EXCEPT !.pc = "pushCas", !.new = n]
  <2>2. me \in LocalFields /\ me.pc = "pushCas" /\ me.new = n /\ ~ me.emptying
    BY <1>1, <2>1, IdleTyped DEF LocalFields, PCs, NodeOrNull, Idle
  <2>3. UNCHANGED <<kind, head, stack, pulled>> /\ Count(t)
    BY <1>5 DEF Push
  <2>4. node' \in [Nodes -> [data : ValueOrEmpty, next : NodeOrNull]] /\ n \in Nodes
        /\ free' \subseteq Nodes
    BY <1>1, <2>1 DEF ValueOrEmpty
  <2>5. local' = [local EXCEPT ![t] = me]
    BY <2>1
  <2> HIDE DEF me
  <2>6. QED
    BY <1>1, <1>3, <2>2, <2>3, <2>4, <2>5, SaneLocals
<1>6. ASSUME pulled, NEW t \in Threads, Pop(t) PROVE Sane'
  <2> DEFINE me == [Idle EXCEPT !.pc = "popLoad", !.emptying = FALSE]
  <2>1. local' = [local EXCEPT ![t] = me] /\ UNCHANGED <<kind, head, node, free, stack, pulled>>
        /\ Count(t)
    BY <1>6 DEF Pop
  <2>2. me \in LocalFields /\ me.pc = "popLoad" /\ ~ me.emptying
    BY IdleTyped DEF LocalFields, PCs, Idle
  <2> HIDE DEF me
  <2>3. QED
    BY <1>1, <1>3, <2>1, <2>2, SaneLocals
<1>7. ASSUME pulled, NEW t \in Threads, PushLoad(t) \/ PushCas(t) PROVE Sane'
  <2>1. local[t] \in LocalFields /\ local[t].new \in Nodes /\ ~ local[t].emptying
        /\ local[t].pc \in {"pushLoad", "pushCas"}
    BY <1>1, <1>7 DEF Sane, Points, Pushing, PushLoad, PushCas, OnlyPushesAndPops
  <2>2. PICK pc \in {"pushLoad", "pushCas", "done"} :
          local' = [local EXCEPT ![t] = [local[t] EXCEPT !.pc = pc]]
    <3>1. local = [local EXCEPT ![t] = [local[t] EXCEPT !.pc = local[t].pc]]
      BY <1>1, <2>1 DEF LocalFields
    <3>2. QED
      BY <1>7, <2>1, <3>1 DEF PushLoad, PushCas, Goto
  <2> DEFINE me == [local[t] EXCEPT !.pc = pc]
  <2>3. me \in LocalFields /\ me.pc = pc /\ me.new = local[t].new /\ ~ me.emptying
    BY <2>1 DEF LocalFields, PCs
  <2>4. node' \in [Nodes -> [data : ValueOrEmpty, next : NodeOrNull]] /\ head' \in NodeOrNull
    BY <1>1, <1>7, <2>1 DEF PushLoad, PushCas, NodeOrNull
  <2>5. UNCHANGED <<kind, free, calls, stack, pulled>>
    BY <1>7 DEF PushLoad, PushCas, Becomes
  <2> HIDE DEF me
  <2>6. QED
    BY <1>1, <2>1, <2>2, <2>3, <2>4, <2>5, SaneLocals DEF me
<1>8. ASSUME pulled, NEW t \in Threads, PopLoad(t) \/ PopNext(t) \/ PopCas(t) PROVE Sane'
  <2>1. local[t] \in LocalFields /\ ~ local[t].emptying
        /\ (local[t].pc \in {"popNext", "popCas"} => local[t].got \in Nodes)
    BY <1>1, <1>8 DEF Sane, Points, Popping, OnlyPushesAndPops
  <2>2. UNCHANGED <<kind, node, free, calls, stack, pulled>>
    BY <1>8 DEF PopLoad, PopNext, PopCas, Becomes
  <2>3. CASE Got(t, head) /\ head' = head
    <3> DEFINE me == [local[t] EXCEPT !.got = head, !.pc = IF head = Null THEN "done" ELSE "popNext"]
    <3>1. me \in LocalFields /\ ~ me.emptying /\ me.pc \in {"done", "popNext"}
          /\ (me.pc = "popNext" => me.got \in Nodes)
      BY <1>1, <2>1 DEF LocalFields, PCs, NodeOrNull
    <3>2. local' = [local EXCEPT ![t] = me]
      BY <1>1, <2>3 DEF Got
    <3> HIDE DEF me
    <3>3. QED
      BY <1>1, <2>2, <2>3, <3>1, <3>2, SaneLocals
  <2>4. CASE PopNext(t)
    <3>1. PICK is \in Read(local[t].got) :
            local' = [local EXCEPT ![t].next = is.next, ![t].pc = "popCas"]
      BY <2>4 DEF PopNext
    <3>2. is.next \in NodeOrNull /\ head' = head /\ local[t].got \in Nodes
      BY <1>2, <2>1, <2>4, <3>1 DEF PopNext
    <3> DEFINE me == [local[t] EXCEPT !.next = is.next, !.pc = "popCas"]
    <3>3. me \in LocalFields /\ ~ me.emptying /\ me.pc = "popCas" /\ me.got = local[t].got
      BY <2>1, <3>2 DEF LocalFields, PCs
    <3>4. local' = [local EXCEPT ![t] = me]
      BY <1>1, <3>1
    <3> HIDE DEF me
    <3>5. QED
      BY <1>1, <2>2, <3>2, <3>3, <3>4, SaneLocals
  <2>5. CASE PopCas(t) /\ ~ Got(t, head)
    <3>1. PICK pc \in {"popData", "popLoad"} :
            local' = [local EXCEPT ![t] = [local[t] EXCEPT !.pc = pc]]
      BY <2>5 DEF PopCas, Goto
    <3>2. head' \in NodeOrNull /\ local[t].got \in Nodes
      BY <1>1, <2>1, <2>5 DEF PopCas, LocalFields
    <3> DEFINE me == [local[t] EXCEPT !.pc = pc]
    <3>3. me \in LocalFields /\ ~ me.emptying /\ me.pc = pc /\ me.got = local[t].got
      BY <2>1 DEF LocalFields, PCs
    <3> HIDE DEF me
    <3>4. QED
      BY <1>1, <2>2, <3>1, <3>2, <3>3, SaneLocals DEF me
  <2>6. QED
    <3>1. PopLoad(t) => Got(t, head) /\ head' = head
      BY DEF PopLoad
    <3>2. PopCas(t) /\ Got(t, head) => head' = head
      BY <1>1, <2>1 DEF PopCas, Got, Goto, LocalFields
    <3>3. QED
      BY <1>8, <2>3, <2>4, <2>5, <3>1, <3>2
<1>9. ASSUME pulled, NEW t \in Threads, UseDeleted(t) \/ Return(t) PROVE Sane'
  <2>1. local[t] \in LocalFields /\ ~ local[t].emptying
    BY <1>1 DEF Sane, OnlyPushesAndPops
  <2>2. UNCHANGED <<kind, head, node, free, calls, stack, pulled>>
    BY <1>9 DEF UseDeleted, Return
  <2>3. local' = [local EXCEPT ![t] = Idle]
        \/ local' = [local EXCEPT ![t] = [local[t] EXCEPT !.pc = "segv"]]
    BY <1>9, <2>1 DEF UseDeleted, Return, Goto
  <2>4. Idle.pc = "idle" /\ ~ Idle.emptying
    BY DEF Idle
  <2>5. CASE local' = [local EXCEPT ![t] = Idle]
    BY <1>1, <2>2, <2>4, <2>5, IdleTyped, SaneLocals
  <2> DEFINE me == [local[t] EXCEPT !.pc = "segv"]
  <2>6. me \in LocalFields /\ ~ me.emptying /\ me.pc = "segv"
    BY <2>1 DEF LocalFields, PCs
  <2> HIDE DEF me
  <2>7. CASE local' = [local EXCEPT ![t] = me]
    BY <1>1, <2>2, <2>6, <2>7, SaneLocals
  <2>8. QED
    BY <2>3, <2>5, <2>7 DEF me
<1>10. ASSUME NEW t \in Threads, Invoke(t) \/ Step(t) PROVE Sane'
  <2>1. ~ PopAgain(t) /\ ~ WalkStep(t)
    BY DEF Sane, OnlyPushesAndPops, PopAgain, WalkStep
  <2>2. \A pc, v : ~ Walk(t, pc, v)
    BY DEF Walk
  <2>3. QED
    BY <1>4, <1>5, <1>6, <1>7, <1>8, <1>9, <1>10, <2>1, <2>2 DEF Invoke, Step
<1>11. CASE UNCHANGED vars
  BY <1>11 DEF vars, Sane, TypeOK, Points, OnlyPushesAndPops, Pushing, Popping, Deletes
<1>12. QED
  BY <1>4, <1>10, <1>11 DEF Next, Terminating

\* Once a node has been deleted under a pop, that remains so.
LEMMA PulledStays == [Next]_vars /\ pulled => pulled'
<1>1. ASSUME NEW t \in Threads, Invoke(t) \/ Step(t), pulled PROVE pulled'
  BY <1>1 DEF Invoke, Step, Push, Pop, Walk, PushLoad, PushCas, PopLoad, PopNext, PopCas,
       PopData, PopAgain, WalkStep, UseDeleted, Return
<1>2. QED
  BY <1>1 DEF Next, Terminating, vars

\* Only the deletion of a node disturbs.
LEMMA OnlyDeletingDisturbs ==
  ASSUME [Next]_vars, ~ pulled, pulled'
  PROVE  Deletes /\ \E t \in Threads : PopData(t)
<1>1. PICK t \in Threads : Invoke(t) \/ Step(t)
  BY DEF Next, Terminating, vars
<1>2. ~ Invoke(t)
  BY DEF Invoke, Push, Pop, Walk
<1>3. PopData(t)
  BY <1>1, <1>2 DEF Step, PushLoad, PushCas, PopLoad, PopNext, PopCas, PopAgain, WalkStep,
       UseDeleted, Return
<1>4. QED
  BY <1>3 DEF PopData

LEMMA NextKeepsInvariant == IInv /\ [Next]_vars => IInv'
<1> SUFFICES ASSUME IInv, [Next]_vars PROVE IInv'
  OBVIOUS
<1>1. Sane
  BY DEF IInv, Sane
<1>2. CASE ~ pulled'
  <2>1. ~ pulled
    BY <1>2, PulledStays
  <2>2. Undisturbed'
    BY <1>2, <2>1, NextKeepsUndisturbed DEF IInv
  <2>3. Sane'
    BY <2>2, UndisturbedIsSane, PTL
  <2>4. QED
    BY <2>2, <2>3 DEF IInv, Sane
<1>3. CASE pulled'
  <2>1. Deletes /\ (pulled \/ \E t \in Threads : PopData(t))
    BY <1>1, <1>3, OnlyDeletingDisturbs DEF Sane
  <2>2. Sane'
    BY <1>1, <2>1, NextKeepsSane
  <2>3. QED
    BY <1>3, <2>2 DEF IInv, Sane
<1>4. QED
  BY <1>2, <1>3

\* What the other theorems rest on: while no pop has deleted a node under
\* another one, who holds a node may rely on it; afterwards, on the types.
THEOREM InductiveInvariant == Spec => []IInv
<1>1. Init => IInv
  BY InitInvariant, UndisturbedIsSane DEF IInv, Sane
<1>2. QED
  BY <1>1, NextKeepsInvariant, PTL DEF Spec

\* Heads, nodes and locals keep their types, also after deleted memory was
\* read: a NULL pointer is followed only by a walk of an empty stack.
THEOREM TypeCorrect == Spec => []TypeOK
  BY InductiveInvariant, PTL DEF IInv

\* The nodes reached from head are those pushed and not yet popped, in stack
\* order, however many threads push and pop: in lfStack and If_Stack_new
\* because no address comes back, in AtomicStack although they do, until a
\* pop deletes a node that another pop had loaded.
THEOREM ChainIsTheStack == Spec => [](pulled \/ ChainIsStack)
<1>1. IInv => pulled \/ ChainIsStack
  BY DEF IInv, Undisturbed
<1>2. QED
  BY <1>1, InductiveInvariant, PTL

\* The only way in which any number of threads that push and pop come to use
\* a deleted node, to push it or to delete it again is that a pop deletes a
\* node which another pop has loaded and not yet tried to take.
THEOREM FreedInUseOnlyIfPulled == Spec => [](pulled \/ NothingFreedInUse)
<1>1. Undisturbed => NothingFreedInUse
  BY DEF Undisturbed, ThreadView, NewIsPrivate, GotIsKept, Pushing, Popping, NothingFreedInUse
<1>2. QED
  BY <1>1, InductiveInvariant, PTL DEF IInv

\* size and find answer for the stack of the instant at which they read head;
\* of size of If_Stack_new nothing is claimed.
THEOREM WalksAreSnapshots == Spec => []WalkIsSnapshot
<1>1. Undisturbed => WalkIsSnapshot
  BY DEF Undisturbed, ThreadView, Answered, Whole, Among, WalkIsSnapshot
<1>2. Sane /\ pulled => WalkIsSnapshot
  BY DEF Sane, OnlyPushesAndPops, WalkIsSnapshot
<1>3. QED
  BY <1>1, <1>2, InductiveInvariant, PTL DEF IInv, Sane

\* Types, chain and nodes in use together; lfStack and If_Stack_new are never
\* disturbed.
THEOREM StackStaysSound == Spec => []StackIsSound
<1>1. IInv => StackIsSound
  BY DEF IInv, Undisturbed, ThreadView, NewIsPrivate, GotIsKept, Pushing, Popping,
     NothingFreedInUse, StackIsSound
<1>2. QED
  BY <1>1, InductiveInvariant, PTL

-----------------------------------------------------------------------------
(***************************************************************************)
(* The three stacks implement the LIFO stack: every step of a thread maps  *)
(* to a step of LifoStack or leaves it unchanged.                          *)
(***************************************************************************)
\* What the mapping makes of the stack and of the calls.
Items == [i \in DOMAIN stack |-> node[stack[i]].data]
Calls == [t \in Threads |-> CallOf(t)]

Removing(t) == local[t].pc \in {"popLoad", "popNext", "popCas", "popData"}

\* A pop that has not answered looks like a call that has just begun.
PopIsFresh(t) == Removing(t) => local[t].new = Null /\ local[t].res = Empty

RInv == Undisturbed /\ \A t \in Threads : PopIsFresh(t)

\* What a call shows at each place, the arms of CallOf one by one.
Shows(t) ==
  /\ Pushing(t) => CallOf(t) = [phase |-> "push", val |-> node[local[t].new].data]
  /\ local[t].pc = "done" /\ local[t].new # Null
       => CallOf(t) = [phase |-> "pushed", val |-> Empty]
  /\ local[t].pc \in {"popLoad", "popNext", "popCas"}
       => CallOf(t) = [phase |-> "pop", val |-> Empty]
  /\ local[t].pc = "popData" => CallOf(t) = [phase |-> "popped", val |-> node[local[t].got].data]
  /\ local[t].pc = "done" /\ local[t].new = Null
       => CallOf(t) = [phase |-> "popped", val |-> local[t].res]
  /\ local[t].pc \in {"idle", "popAgain", "size", "find", "walked", "segv"}
       => CallOf(t) = [phase |-> "idle", val |-> Empty]

LEMMA CallByPC ==
  ASSUME NEW t \in Threads
  PROVE  Shows(t) /\ Shows(t)'
<1>1. Shows(t)
  BY DEF Shows, CallOf, Pushing
<1>2. Shows(t)'
  BY DEF Shows, CallOf, Pushing
<1>3. QED
  BY <1>1, <1>2

-----------------------------------------------------------------------------
(***************************************************************************)
(* The invariant the mapping needs.                                        *)
(***************************************************************************)
LEMMA NextKeepsFresh == RInv /\ [Next]_vars /\ ~ pulled' => RInv'
<1> SUFFICES ASSUME RInv, [Next]_vars, ~ pulled' PROVE RInv'
  OBVIOUS
<1>1. Undisturbed /\ local \in [Threads -> LocalFields]
  BY Types DEF RInv
<1>2. Undisturbed'
  BY <1>1, NextKeepsUndisturbed
<1>3. ASSUME NEW t \in Threads, Invoke(t) \/ Step(t), NEW u \in Threads PROVE PopIsFresh(u)'
  <2>0. PopIsFresh(u) /\ local[t] \in LocalFields /\ local[u] \in LocalFields
    BY <1>1 DEF RInv
  <2>1. CASE u # t
    <3>1. local'[u] = local[u]
      BY <1>1, <1>3, <2>1
         DEF Invoke, Step, Push, Pop, Walk, PushLoad, PushCas, PopLoad, PopNext, PopCas, PopData,
             PopAgain, WalkStep, UseDeleted, Return, Goto, Got
    <3>2. QED
      BY <2>0, <3>1 DEF PopIsFresh, Removing
  <2>2. CASE u = t
    <3>1. CASE Invoke(t)
      <4>1. (\E v \in Values : Push(t, v)) => ~ Removing(t)'
        BY <1>1 DEF Push, Idle, Removing
      <4>2. Pop(t) => local'[t].new = Null /\ local'[t].res = Empty
        BY <1>1 DEF Pop, Idle
      <4>3. (\E v \in Values : Walk(t, "find", v)) \/ Walk(t, "size", Empty) => ~ Removing(t)'
        BY <1>1 DEF Walk, Idle, Removing
      <4>4. QED
        BY <2>2, <3>1, <4>1, <4>2, <4>3 DEF Invoke, PopIsFresh
    <3>2. CASE PushLoad(t) \/ PushCas(t)
      BY <1>1, <2>0, <2>2, <3>2 DEF PushLoad, PushCas, Goto, PopIsFresh, Removing, LocalFields
    <3>3. CASE PopLoad(t) \/ PopNext(t) \/ PopCas(t)
      <4>1. ASSUME PopNext(t)
            PROVE  local'[t].new = local[t].new /\ local'[t].res = local[t].res
        <5>1. local' = [local EXCEPT ![t].next = node[local[t].got].next, ![t].pc = "popCas"]
          BY <1>1, <4>1, PopReadsItsNode
        <5>2. QED
          BY <1>1, <2>0, <5>1 DEF LocalFields
      <4>2. PopLoad(t) \/ PopCas(t) => local'[t].new = local[t].new /\ local'[t].res = local[t].res
        BY <1>1, <2>0 DEF PopLoad, PopCas, Got, Goto, LocalFields
      <4>3. Removing(t)
        BY <3>3 DEF PopLoad, PopNext, PopCas, Removing
      <4>4. QED
        BY <2>0, <2>2, <3>3, <4>1, <4>2, <4>3 DEF PopIsFresh
    <3>4. CASE PopData(t) \/ PopAgain(t) \/ WalkStep(t) \/ UseDeleted(t) \/ Return(t)
      <4>1. PopData(t) \/ Return(t) => local'[t].pc \in {"done", "popAgain", "idle"}
        <5>1. ASSUME PopData(t) PROVE local'[t].pc = "done"
          <6>1. local' = [local EXCEPT ![t].res = node[local[t].got].data, ![t].pc = "done"]
            BY <1>1, <5>1, PopReadsItsNode
          <6>2. QED
            BY <1>1, <2>0, <6>1 DEF LocalFields
        <5>2. Return(t) => local'[t].pc \in {"popAgain", "idle"}
          BY <1>1, <2>0 DEF Return, Idle, Goto, LocalFields
        <5>3. QED
          BY <5>1, <5>2
      <4>2. PopAgain(t) => local'[t].new = Null /\ local'[t].res = Empty
        BY <1>1 DEF PopAgain, Idle
      <4>3. WalkStep(t) \/ UseDeleted(t) => ~ Removing(t)'
        BY <1>1, <2>0, ReadsAreDefined DEF WalkStep, Goto, Removing, LocalFields
      <4>4. QED
        BY <2>2, <3>4, <4>1, <4>2, <4>3 DEF PopIsFresh, Removing
    <3>5. QED
      BY <1>3, <3>1, <3>2, <3>3, <3>4 DEF Step
  <2>3. QED
    BY <2>1, <2>2
<1>4. CASE UNCHANGED vars
  BY <1>2, <1>4 DEF vars, RInv, PopIsFresh, Removing
<1>5. QED
  BY <1>2, <1>3, <1>4 DEF Next, Terminating, RInv

LEMMA MappingInvariant == Spec => [](pulled \/ RInv)
<1>1. Init => RInv
  BY InitInvariant DEF RInv, Init, PopIsFresh, Removing, Idle
<1>2. QED
  BY <1>1, NextKeepsFresh, PulledStays, PTL DEF Spec

-----------------------------------------------------------------------------
(***************************************************************************)
(* What a step leaves as it was.                                           *)
(***************************************************************************)
\* The values in nodes that somebody uses do not change.
DataKept == \A n \in Nodes : n \notin free => node'[n].data = node[n].data

OthersStay(t) == \A u \in Threads \ {t} : local'[u] = local[u]

LEMMA EveryStepKeeps ==
  ASSUME Undisturbed, NEW t \in Threads, Invoke(t) \/ Step(t)
  PROVE  DataKept /\ OthersStay(t)
<1>1. local \in [Threads -> LocalFields]
      /\ node \in [Nodes -> [data : ValueOrEmpty, next : NodeOrNull]] /\ free \subseteq Nodes
  BY Types
<1>2. OthersStay(t)
  BY <1>1 DEF OthersStay, Invoke, Step, Push, Pop, Walk, PushLoad, PushCas, PopLoad, PopNext,
       PopCas, PopData, PopAgain, WalkStep, UseDeleted, Return, Goto, Got
<1>3. DataKept
  <2>1. CASE Invoke(t)
    BY <1>1, <2>1 DEF DataKept, Invoke, Push, Pop, Walk
  <2>2. CASE Step(t)
    BY <1>1, <2>2 DEF DataKept, Step, PushLoad, PushCas, PopLoad, PopNext, PopCas, PopData,
         PopAgain, WalkStep, UseDeleted, Return
  <2>3. QED
    BY <2>1, <2>2
<1>4. QED
  BY <1>2, <1>3

LEMMA OthersShowTheSame ==
  ASSUME Undisturbed, NEW t \in Threads, DataKept, OthersStay(t)
  PROVE  Calls' = [Calls EXCEPT ![t] = CallOf(t)']
<1>1. ASSUME NEW u \in Threads \ {t} PROVE CallOf(u)' = CallOf(u)
  <2>1. local'[u] = local[u]
    BY DEF OthersStay
  <2>2. Pushing(u) => node'[local[u].new].data = node[local[u].new].data
    BY DEF Undisturbed, ThreadView, NewIsPrivate, DataKept
  <2>3. local[u].pc = "popData" => node'[local[u].got].data = node[local[u].got].data
    BY DEF Undisturbed, ThreadView, GotIsKept, Popping, DataKept
  <2>4. local[u].pc \in PCs
    BY Types DEF LocalFields
  <2>5. Shows(u) /\ Shows(u)'
    BY CallByPC
  <2>6. QED
    BY <2>1, <2>2, <2>3, <2>4, <2>5 DEF Shows, Pushing, PCs
<1>2. QED
  BY <1>1 DEF Calls

\* The items are a sequence, one for each node.
LEMMA ItemsTyped ==
  ASSUME Undisturbed
  PROVE  /\ Items \in Seq(ValueOrEmpty) /\ Len(Items) = Len(stack)
         /\ \A i \in 1..Len(stack) : Items[i] = node[stack[i]].data
         /\ Items = <<>> <=> stack = <<>>
<1>1. stack \in Seq(Nodes) /\ node \in [Nodes -> [data : ValueOrEmpty, next : NodeOrNull]]
  BY Types
<1>2. Len(stack) \in Nat /\ DOMAIN stack = 1..Len(stack)
      /\ \A i \in 1..Len(stack) : stack[i] \in Nodes
  BY <1>1
<1>3. \A i \in 1..Len(stack) : node[stack[i]].data \in ValueOrEmpty
  BY <1>1, <1>2
<1>4. Items = [i \in 1..Len(stack) |-> node[stack[i]].data]
  BY <1>2 DEF Items
<1>5. Items \in Seq(ValueOrEmpty) /\ Len(Items) = Len(stack)
  BY <1>2, <1>3, <1>4
<1>6. Items = <<>> <=> Len(Items) = 0
  BY <1>5, EmptySeq
<1>7. stack = <<>> <=> Len(stack) = 0
  BY <1>1, EmptySeq
<1>8. QED
  BY <1>4, <1>5, <1>6, <1>7

LEMMA ItemsStay ==
  ASSUME Undisturbed, DataKept, stack' = stack
  PROVE  Items' = Items
<1>1. \A i \in DOMAIN stack : stack[i] \in Nodes /\ stack[i] \notin free
  BY Types DEF Undisturbed, ChainIsStack
<1>2. QED
  BY <1>1 DEF Items, DataKept

\* A step that neither pushes nor pops nor changes what its thread shows.
LEMMA StutterStep ==
  ASSUME Undisturbed, NEW t \in Threads, DataKept, OthersStay(t), stack' = stack,
         CallOf(t)' = CallOf(t)
  PROVE  UNCHANGED Lifo!vars
<1>1. Calls' = Calls
  BY OthersShowTheSame DEF Calls
<1>2. QED
  BY <1>1, ItemsStay DEF Lifo!vars, Calls, Items

LEMMA InitRefines == Init => Lifo!Init
<1> SUFFICES ASSUME Init PROVE Lifo!Init
  OBVIOUS
<1>1. \A t \in Threads : CallOf(t) = Lifo!Idle
  <2>1. \A t \in Threads : local[t] = Idle
    BY DEF Init
  <2>2. QED
    BY <2>1, CallByPC DEF Shows, Idle, Lifo!Idle, Lifo!Call
<1>2. Items \in {<<>>, <<Empty>>}
  <2>1. CASE Deletes
    <3>1. stack = <<Sentinel>> /\ Sentinel \in Nodes
      BY <2>1, CasStackAssumption DEF Init, Sentinel
    <3>2. DOMAIN stack = 1..1 /\ stack[1] = Sentinel
      BY <3>1
    <3>3. node[Sentinel].data = Empty
      BY <3>1 DEF Init
    <3>4. Items = [i \in 1..1 |-> Empty]
      BY <3>2, <3>3 DEF Items
    <3>5. [i \in 1..1 |-> Empty] = <<Empty>>
      OBVIOUS
    <3>6. QED
      BY <3>4, <3>5
  <2>2. CASE ~ Deletes
    <3>1. stack = <<>>
      BY <2>2 DEF Init
    <3>2. Items = <<>>
      BY <3>1 DEF Items
    <3>3. QED
      BY <3>2
  <2>3. QED
    BY <2>1, <2>2
<1>3. QED
  BY <1>1, <1>2 DEF Lifo!Init, Items

\* The start of a call.
LEMMA InvokeRefines ==
  ASSUME RInv, NEW t \in Threads, Invoke(t)
  PROVE  Lifo!Next \/ UNCHANGED Lifo!vars
<1>1. Undisturbed /\ local \in [Threads -> LocalFields] /\ DataKept /\ OthersStay(t)
  BY Types, EveryStepKeeps DEF RInv
<1>2. local[t].pc = "idle" /\ stack' = stack
  BY DEF Invoke, Push, Pop, Walk, Count
<1>3. CallOf(t) = Lifo!Idle
  BY <1>2, CallByPC DEF Shows, Lifo!Idle, Lifo!Call
<1>4. Items' = Items /\ Calls' = [Calls EXCEPT ![t] = CallOf(t)']
  BY <1>1, <1>2, ItemsStay, OthersShowTheSame
<1>5. ASSUME NEW v \in Values, Push(t, v) PROVE Lifo!InvokePush(t, v)
  <2>1. PICK n \in free : /\ node' = [node EXCEPT ![n] = [data |-> v, next |-> head]]
                         /\ local' = [local EXCEPT ![t] = [Idle EXCEPT !.pc = "pushCas", !.new = n]]
    BY <1>5 DEF Push
  <2>2. n \in Nodes /\ node'[n].data = v
    BY <1>1, <2>1, Types
  <2>3. local'[t].pc = "pushCas" /\ local'[t].new = n
    BY <1>1, <2>1 DEF Idle
  <2>4. CallOf(t)' = Lifo!Call("push", v)
    BY <2>2, <2>3, CallByPC DEF Shows, Pushing, Lifo!Call
  <2>5. QED
    BY <1>3, <1>4, <2>4 DEF Lifo!InvokePush, Items, Calls
<1>6. CASE Pop(t)
  <2>1. local'[t].pc = "popLoad"
    BY <1>1, <1>6 DEF Pop, Idle
  <2>2. CallOf(t)' = Lifo!Call("pop", Empty)
    BY <2>1, CallByPC DEF Shows, Lifo!Call
  <2>3. Lifo!InvokePop(t)
    BY <1>3, <1>4, <2>2 DEF Lifo!InvokePop, Items, Calls
  <2>4. QED
    BY <2>3 DEF Lifo!Next
<1>7. ASSUME NEW pc \in {"size", "find"}, NEW v, Walk(t, pc, v) PROVE UNCHANGED Lifo!vars
  <2>1. local'[t].pc = pc
    BY <1>1, <1>7 DEF Walk, Idle
  <2>2. CallOf(t)' = CallOf(t)
    BY <1>3, <2>1, CallByPC DEF Shows, Lifo!Idle, Lifo!Call
  <2>3. QED
    BY <1>1, <1>2, <2>2, StutterStep
<1>8. QED
  BY <1>5, <1>6, <1>7 DEF Invoke, Lifo!Next

\* A push takes effect when its CAS succeeds.
LEMMA PushCasRefines ==
  ASSUME RInv, NEW t \in Threads, PushCas(t), local[t].pc = "pushCas",
         head' = local[t].new, stack' = <<local[t].new>> \o stack, Goto(t, "done"), UNCHANGED node
  PROVE  Lifo!Push(t)
<1> DEFINE n == local[t].new
           v == node[n].data
<1>1. Undisturbed /\ local \in [Threads -> LocalFields] /\ OthersStay(t) /\ DataKept
  BY Types, EveryStepKeeps DEF RInv, Step
<1>2. n \in Nodes /\ n # Null /\ v \in ValueOrEmpty
  BY <1>1, Types, CasStackAssumption DEF Undisturbed, ThreadView, NewIsPrivate, Pushing
<1>3. local'[t].pc = "done" /\ local'[t].new = n
  BY <1>1 DEF Goto, LocalFields
<1>4. CallOf(t) = Lifo!Call("push", v) /\ CallOf(t)' = Lifo!Call("pushed", Empty)
  BY <1>2, <1>3, CallByPC DEF Shows, Pushing, Lifo!Call
<1>5. Calls' = [Calls EXCEPT ![t] = Lifo!Call("pushed", Empty)]
  BY <1>1, <1>4, OthersShowTheSame
<1>6. Items' = <<v>> \o Items
  <2>1. stack \in Seq(Nodes) /\ Len(stack) \in Nat
    BY <1>1, Types
  <2>2. /\ DOMAIN stack' = 1..(Len(stack) + 1) /\ stack'[1] = n
        /\ \A i \in 2..(Len(stack) + 1) : stack'[i] = stack[i - 1]
    BY <1>2, <2>1, Prepend
  <2>3. Items' = [i \in 1..(Len(stack) + 1) |-> node[stack'[i]].data]
    BY <2>2 DEF Items
  <2>4. /\ <<v>> \o Items \in Seq(ValueOrEmpty) /\ Len(<<v>> \o Items) = Len(stack) + 1
        /\ (<<v>> \o Items)[1] = v
        /\ \A i \in 2..(Len(stack) + 1) : (<<v>> \o Items)[i] = Items[i - 1]
    BY <1>1, <1>2, ItemsTyped, Prepend
  <2>5. ASSUME NEW i \in 1..(Len(stack) + 1) PROVE node[stack'[i]].data = (<<v>> \o Items)[i]
    <3>1. CASE i = 1
      BY <2>2, <2>4, <3>1
    <3>2. CASE i # 1
      <4>1. i \in 2..(Len(stack) + 1) /\ i - 1 \in 1..Len(stack)
        BY <2>1, <3>2
      <4>2. QED
        BY <1>1, <2>2, <2>4, <4>1, ItemsTyped
    <3>3. QED
      BY <3>1, <3>2
  <2>6. <<v>> \o Items = [i \in 1..(Len(stack) + 1) |-> (<<v>> \o Items)[i]]
    BY <2>4
  <2>7. QED
    BY <2>3, <2>5, <2>6
<1>7. QED
  BY <1>4, <1>5, <1>6 DEF Lifo!Push, Items, Calls, Lifo!Call

LEMMA SeqIsItsItems ==
  ASSUME NEW S, NEW s \in Seq(S)
  PROVE  s = [i \in 1..Len(s) |-> s[i]]
OBVIOUS

\* A pop takes effect when its CAS succeeds: got is still on top.
LEMMA PopCasRefines ==
  ASSUME RInv, NEW t \in Threads, PopCas(t), head = local[t].got,
         stack' = Tail(stack), Goto(t, "popData")
  PROVE  Lifo!Pop(t)
<1> DEFINE n == local[t].got
<1>1. Undisturbed /\ local \in [Threads -> LocalFields] /\ OthersStay(t) /\ DataKept
      /\ local[t].pc = "popCas" /\ UNCHANGED node
  BY Types, EveryStepKeeps DEF RInv, Step, PopCas
<1>2. n \in Nodes
  BY <1>1 DEF Undisturbed, ThreadView, GotIsKept, Popping
<1>3. stack # <<>> /\ stack[1] = n /\ stack \in Seq(Nodes)
  BY <1>1, <1>2, Types, CasStackAssumption
<1>4. local'[t].pc = "popData" /\ local'[t].got = n
  BY <1>1 DEF Goto, LocalFields
<1>5. CallOf(t) = Lifo!Call("pop", Empty) /\ CallOf(t)' = Lifo!Call("popped", node[n].data)
  BY <1>1, <1>4, CallByPC DEF Shows, Lifo!Call
<1>6. Calls' = [Calls EXCEPT ![t] = Lifo!Call("popped", node[n].data)]
  BY <1>1, <1>5, OthersShowTheSame
<1>7. Items \in Seq(ValueOrEmpty) /\ Items # <<>> /\ Len(Items) = Len(stack)
      /\ \A i \in 1..Len(stack) : Items[i] = node[stack[i]].data
  BY <1>1, <1>3, ItemsTyped
<1>8. Head(Items) = node[n].data
  <2>1. Len(stack) \in Nat \ {0} /\ 1 \in 1..Len(stack)
    BY <1>3, EmptySeq
  <2>2. Items[1] = node[n].data
    BY <1>3, <1>7, <2>1
  <2>3. QED
    BY <1>7, <2>2
<1>9. Items' = Tail(Items)
  <2>1. /\ DOMAIN stack' = 1..(Len(stack) - 1)
        /\ \A i \in 1..(Len(stack) - 1) : stack'[i] = stack[i + 1]
        /\ Len(stack) \in Nat \ {0}
    BY <1>3, TakeTail
  <2>2. Items' = [i \in 1..(Len(stack) - 1) |-> node[stack'[i]].data]
    BY <1>1, <2>1 DEF Items
  <2>3. /\ Tail(Items) \in Seq(ValueOrEmpty) /\ DOMAIN Tail(Items) = 1..(Len(stack) - 1)
        /\ Len(Tail(Items)) = Len(stack) - 1
        /\ \A i \in 1..(Len(stack) - 1) : Tail(Items)[i] = Items[i + 1]
    BY <1>7, TakeTail
  <2>4. ASSUME NEW i \in 1..(Len(stack) - 1) PROVE node[stack'[i]].data = Tail(Items)[i]
    <3>1. i + 1 \in 1..Len(stack)
      BY <2>1
    <3>2. QED
      BY <1>7, <2>1, <2>3, <3>1
  <2>5. Tail(Items) = [i \in 1..(Len(stack) - 1) |-> Tail(Items)[i]]
    BY <2>3, SeqIsItsItems
  <2>6. QED
    BY <2>2, <2>4, <2>5
<1>10. Calls[t].phase = "pop"
  BY <1>5 DEF Calls, Lifo!Call
<1>11. Calls' = [Calls EXCEPT ![t] = Lifo!Call("popped", Head(Items))]
  BY <1>6, <1>8
<1>12. Calls[t].phase = "pop" /\ Items # <<>> /\ Items' = Tail(Items)
       /\ Calls' = [Calls EXCEPT ![t] = Lifo!Call("popped", Head(Items))]
  BY <1>7, <1>9, <1>10, <1>11
<1>13. QED
  BY <1>12 DEF Lifo!Pop, Items, Calls, Lifo!Call

\* Loading head, first or after a CAS that failed: NULL is the answer -1.
LEMMA GotRefines ==
  ASSUME RInv, NEW t \in Threads, PopLoad(t) \/ PopCas(t), Got(t, head), stack' = stack
  PROVE  Lifo!SeeEmpty(t) \/ UNCHANGED Lifo!vars
<1>1. Undisturbed /\ local \in [Threads -> LocalFields] /\ OthersStay(t) /\ DataKept
      /\ local[t].pc \in {"popLoad", "popCas"} /\ PopIsFresh(t)
  BY Types, EveryStepKeeps DEF RInv, Step, PopCas, PopLoad
<1>2. local[t].new = Null /\ local[t].res = Empty
  BY <1>1 DEF PopIsFresh, Removing
<1>3. /\ local'[t].pc = (IF head = Null THEN "done" ELSE "popNext")
      /\ local'[t].new = Null /\ local'[t].res = Empty
  BY <1>1, <1>2 DEF Got, LocalFields
<1>4. CallOf(t) = Lifo!Call("pop", Empty)
  BY <1>1, CallByPC DEF Shows, Lifo!Call
<1>5. CASE head = Null
  <2>1. stack = <<>>
    BY <1>1, <1>5, Types
  <2>2. Items = <<>> /\ Items' = Items
    BY <1>1, <2>1, ItemsTyped, ItemsStay
  <2>3. CallOf(t)' = Lifo!Call("popped", Empty)
    BY <1>3, <1>5, CallByPC DEF Shows, Lifo!Call
  <2>4. Calls' = [Calls EXCEPT ![t] = Lifo!Call("popped", Empty)]
    BY <1>1, <2>3, OthersShowTheSame
  <2>5. QED
    BY <1>4, <2>2, <2>4 DEF Lifo!SeeEmpty, Items, Calls, Lifo!Call
<1>6. CASE head # Null
  <2>1. CallOf(t)' = CallOf(t)
    BY <1>3, <1>4, <1>6, CallByPC DEF Shows, Lifo!Call
  <2>2. QED
    BY <1>1, <2>1, StutterStep
<1>7. QED
  BY <1>5, <1>6

\* Steps that show nothing.
LEMMA QuietSteps ==
  ASSUME RInv, NEW t \in Threads, stack' = stack,
         \/ PushLoad(t) \/ PopNext(t) \/ PopData(t) \/ WalkStep(t)
         \/ PushCas(t) /\ local'[t].pc \in {"pushCas", "pushLoad"}
         \/ PopCas(t) /\ Goto(t, "popLoad")
  PROVE  UNCHANGED Lifo!vars
<1>1. Undisturbed /\ local \in [Threads -> LocalFields] /\ OthersStay(t) /\ DataKept /\ PopIsFresh(t)
  BY Types, EveryStepKeeps DEF RInv, Step
<1>2. local[t] \in LocalFields
  BY <1>1
<1>3. CASE PushLoad(t) \/ (PushCas(t) /\ local'[t].pc \in {"pushCas", "pushLoad"})
  <2>1. Pushing(t) /\ Pushing(t)' /\ local'[t].new = local[t].new
    BY <1>1, <1>2, <1>3 DEF PushLoad, PushCas, Goto, Pushing, LocalFields
  <2>2. local[t].new \in Nodes /\ local[t].new \notin free
    BY <1>1, <2>1 DEF Undisturbed, ThreadView, NewIsPrivate
  <2>3. CallOf(t)' = CallOf(t)
    BY <1>1, <2>1, <2>2, CallByPC DEF Shows, DataKept
  <2>4. QED
    BY <1>1, <2>3, StutterStep
<1>4. CASE PopNext(t) \/ (PopCas(t) /\ Goto(t, "popLoad"))
  <2>1. local[t].pc \in {"popNext", "popCas"} /\ local'[t].pc \in {"popLoad", "popCas"}
    BY <1>1, <1>2, <1>4 DEF PopNext, PopCas, Goto, LocalFields
  <2>2. CallOf(t)' = CallOf(t)
    BY <2>1, CallByPC DEF Shows
  <2>3. QED
    BY <1>1, <2>2, StutterStep
<1>5. CASE PopData(t)
  <2>0. local[t].pc = "popData"
        /\ local' = [local EXCEPT ![t].res = node[local[t].got].data, ![t].pc = "done"]
    BY <1>1, <1>5, PopReadsItsNode DEF PopData
  <2>1. local'[t].pc = "done" /\ local'[t].new = local[t].new
        /\ local'[t].res = node[local[t].got].data
    BY <1>1, <1>2, <2>0 DEF LocalFields
  <2>2. local[t].new = Null
    BY <1>1, <2>0 DEF PopIsFresh, Removing
  <2>3. CallOf(t)' = CallOf(t)
    BY <2>0, <2>1, <2>2, CallByPC DEF Shows
  <2>4. QED
    BY <1>1, <2>3, StutterStep
<1>6. CASE WalkStep(t)
  <2>1. local[t].pc \in {"size", "find"} /\ local'[t].pc \in {"size", "find", "walked", "segv"}
    BY <1>1, <1>2, <1>6 DEF WalkStep, Goto, LocalFields
  <2>2. CallOf(t)' = CallOf(t)
    BY <2>1, CallByPC DEF Shows
  <2>3. QED
    BY <1>1, <2>2, StutterStep
<1>7. QED
  BY <1>3, <1>4, <1>5, <1>6

\* The end of a call, and the next pop of empty().
LEMMA ReturnRefines ==
  ASSUME RInv, NEW t \in Threads, Return(t) \/ PopAgain(t)
  PROVE  Lifo!Return(t) \/ Lifo!InvokePop(t) \/ UNCHANGED Lifo!vars
<1>1. Undisturbed /\ local \in [Threads -> LocalFields] /\ OthersStay(t) /\ DataKept /\ stack' = stack
  BY Types, EveryStepKeeps DEF RInv, Step, Return, PopAgain
<1>2. local[t] \in LocalFields
  BY <1>1
<1>3. Items' = Items /\ Calls' = [Calls EXCEPT ![t] = CallOf(t)']
  BY <1>1, ItemsStay, OthersShowTheSame
<1>4. CASE Return(t)
  <2>1. local[t].pc \in {"done", "walked"} /\ local'[t].pc \in {"idle", "popAgain"}
    BY <1>1, <1>2, <1>4 DEF Return, Goto, Idle, LocalFields
  <2>2. CallOf(t)' = Lifo!Idle
    BY <2>1, CallByPC DEF Shows, Lifo!Idle, Lifo!Call
  <2>3. CASE local[t].pc = "done"
    <3>1. CallOf(t).phase \in {"pushed", "popped"}
      BY <2>3, CallByPC DEF Shows
    <3>2. QED
      BY <1>3, <2>2, <3>1 DEF Lifo!Return, Items, Calls
  <2>4. CASE local[t].pc = "walked"
    <3>1. CallOf(t) = Lifo!Idle
      BY <2>4, CallByPC DEF Shows, Lifo!Idle, Lifo!Call
    <3>2. QED
      BY <1>1, <2>2, <3>1, StutterStep
  <2>5. QED
    BY <2>1, <2>3, <2>4
<1>5. CASE PopAgain(t)
  <2>1. local[t].pc = "popAgain" /\ local'[t].pc = "popLoad"
    BY <1>1, <1>5 DEF PopAgain, Idle
  <2>2. CallOf(t) = Lifo!Idle /\ CallOf(t)' = Lifo!Call("pop", Empty)
    BY <2>1, CallByPC DEF Shows, Lifo!Idle, Lifo!Call
  <2>3. QED
    BY <1>3, <2>2 DEF Lifo!InvokePop, Items, Calls
<1>6. QED
  BY <1>4, <1>5

-----------------------------------------------------------------------------
LEMMA NextRefines == RInv /\ [Next]_vars => (~ pulled' => [Lifo!Next]_(Lifo!vars))
<1> SUFFICES ASSUME RInv, [Next]_vars, ~ pulled' PROVE [Lifo!Next]_(Lifo!vars)
  OBVIOUS
<1>1. CASE UNCHANGED vars
  <2>1. \A t \in Threads : CallOf(t)' = CallOf(t)
    BY <1>1 DEF vars, CallOf
  <2>2. QED
    BY <1>1, <2>1 DEF vars, Lifo!vars
<1>2. ASSUME NEW t \in Threads, PushCas(t) PROVE Lifo!Next \/ UNCHANGED Lifo!vars
  <2>0. local \in [Threads -> LocalFields] /\ local[t] \in LocalFields /\ local[t].pc = "pushCas"
    BY <1>2, Types DEF RInv, PushCas
  <2>1. CASE head' = local[t].new /\ stack' = <<local[t].new>> \o stack /\ Goto(t, "done")
             /\ UNCHANGED node
    BY <1>2, <2>0, <2>1, PushCasRefines DEF Lifo!Next
  <2>2. CASE UNCHANGED <<head, local, stack>> \/ (Goto(t, "pushLoad") /\ stack' = stack)
    <3>1. local'[t].pc \in {"pushCas", "pushLoad"} /\ stack' = stack
      <4>1. UNCHANGED <<head, local, stack>> => local'[t].pc = "pushCas"
        BY <2>0
      <4>2. Goto(t, "pushLoad") => local'[t].pc = "pushLoad"
        BY <2>0 DEF Goto, LocalFields
      <4>3. QED
        BY <2>2, <4>1, <4>2
    <3>2. QED
      BY <1>2, <3>1, QuietSteps
  <2>3. Read(local[t].new) = {node[local[t].new]} /\ \A s : Becomes(s) <=> stack' = s
    BY <2>0, ReadsAreDefined DEF RInv, Pushing
  <2>4. QED
    BY <1>2, <2>1, <2>2, <2>3 DEF PushCas
<1>3. ASSUME NEW t \in Threads, PopCas(t) PROVE Lifo!Next \/ UNCHANGED Lifo!vars
  <2>1. CASE head = local[t].got /\ stack' = Tail(stack) /\ Goto(t, "popData")
    BY <1>3, <2>1, PopCasRefines DEF Lifo!Next
  <2>2. CASE Got(t, head) /\ stack' = stack
    BY <1>3, <2>2, GotRefines DEF Lifo!Next
  <2>3. CASE Goto(t, "popLoad") /\ stack' = stack
    BY <1>3, <2>3, QuietSteps
  <2>4. \A s : Becomes(s) <=> stack' = s
    BY ReadsAreDefined DEF RInv
  <2>5. QED
    BY <1>3, <2>1, <2>2, <2>3, <2>4 DEF PopCas
<1>4. ASSUME NEW t \in Threads, Invoke(t) PROVE Lifo!Next \/ UNCHANGED Lifo!vars
  BY <1>4, InvokeRefines
<1>5. ASSUME NEW t \in Threads, PopLoad(t) PROVE Lifo!Next \/ UNCHANGED Lifo!vars
  BY <1>5, GotRefines DEF PopLoad, Lifo!Next
<1>6. ASSUME NEW t \in Threads, Return(t) \/ PopAgain(t) PROVE Lifo!Next \/ UNCHANGED Lifo!vars
  BY <1>6, ReturnRefines DEF Lifo!Next
<1>7. ASSUME NEW t \in Threads, PushLoad(t) \/ PopNext(t) \/ PopData(t) \/ WalkStep(t)
      PROVE  UNCHANGED Lifo!vars
  <2>1. stack' = stack
    BY <1>7 DEF PushLoad, PopNext, PopData, WalkStep
  <2>2. QED
    BY <1>7, <2>1, QuietSteps
<1>8. ASSUME NEW t \in Threads, Step(t) PROVE Lifo!Next \/ UNCHANGED Lifo!vars
  BY <1>2, <1>3, <1>5, <1>6, <1>7, <1>8, ReadsAreDefined DEF Step, RInv
<1>9. QED
  BY <1>1, <1>4, <1>8 DEF Next, Terminating

\* The three stacks are linearizable, with any number of threads that push and
\* pop: each call takes effect at one instant between its start and its
\* return.  For AtomicStack this ends when a pop deletes a node that another
\* pop has loaded; the other two delete nothing, so there it never ends.
THEOREM Linearizable == Spec => RefinesLifo
<1>1. Init => Lifo!Init
  BY InitRefines
<1>2. [Next]_vars /\ (pulled \/ RInv) => [~ pulled' => [Lifo!Next]_(Lifo!vars)]_vars
  BY NextRefines, PulledStays
<1>3. QED
  BY <1>1, <1>2, MappingInvariant, PTL DEF Spec, RefinesLifo
=============================================================================
