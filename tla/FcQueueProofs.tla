--------------------------- MODULE FcQueueProofs ---------------------------
(***************************************************************************)
(* Proofs about the flat combining queue, for any threads, arguments,      *)
(* prefill, number of rounds and number of calls.                          *)
(*                                                                         *)
(* The protocol is the one of the stack: what FcStackProofs shows of it    *)
(* holds for any serial operation, and is taken over with a stack that is  *)
(* always empty, since it does not speak of the stack.                     *)
(***************************************************************************)
EXTENDS FcQueue, FiniteSetTheorems, TLAPS

Fc == INSTANCE FcStackProofs WITH top <- <<>>

LEMMA FcAssumptions == Fc!FlatCombiningAssumption /\ Fc!FcStackAssumption
  BY FlatCombiningAssumption, FcQueueAssumption
     DEF Fc!FlatCombiningAssumption, Fc!FcStackAssumption

LEMMA SameProtocol ==
  /\ \A t \in Threads : Protocol(t) <=> Fc!Protocol(t)
  /\ FcInit <=> Fc!FcInit
  /\ Calls = Fc!Calls /\ Calls' = Fc!Calls'
<1>1. FcInit <=> Fc!FcInit
  BY DEF FcInit, Request, Idle, Fc!FcInit, Fc!Request, Fc!Idle
<1>2. Calls = Fc!Calls /\ Calls' = Fc!Calls'
  BY DEF Calls, CallOf, Fc!Calls, Fc!CallOf
<1>3. ASSUME NEW t \in Threads PROVE Protocol(t) <=> Fc!Protocol(t)
  <2>1. ASSUME NEW s, NEW v PROVE Invoke(t, s, v) <=> Fc!Invoke(t, s, v)
    BY DEF Invoke, Idle, Fc!Invoke, Fc!Idle
  <2>2. TryLock(t) <=> Fc!TryLock(t)
    BY DEF TryLock, Combine, Mine, Fc!TryLock, Fc!Combine, Fc!Mine
  <2>3. Wait(t) <=> Fc!Wait(t)
    BY DEF Wait, Mine, Fc!Wait, Fc!Mine
  <2>4. ReadHead(t) <=> Fc!ReadHead(t)
    BY DEF ReadHead, Fc!ReadHead
  <2>5. CasHead(t) <=> Fc!CasHead(t)
    BY DEF CasHead, NewPlace, Fc!CasHead, Fc!NewPlace
  <2>6. StartRound(t) <=> Fc!StartRound(t)
    BY DEF StartRound, Fc!StartRound
  <2>7. Scan(t) <=> Fc!Scan(t)
    BY DEF Scan, Fc!Scan
  <2>8. Clear(t) <=> Fc!Clear(t)
    BY DEF Clear, Fc!Clear
  <2>9. Unlock(t) <=> Fc!Unlock(t)
    BY DEF Unlock, Mine, Fc!Unlock, Fc!Mine
  <2>10. Return(t) <=> Fc!Return(t)
    BY DEF Return, Idle, Fc!Return, Fc!Idle
  <2>11. QED
    BY <2>1, <2>2, <2>3, <2>4, <2>5, <2>6, <2>7, <2>8, <2>9, <2>10 DEF Protocol, Fc!Protocol
<1>4. QED
  BY <1>1, <1>2, <1>3

LEMMA SameAnswer ==
  ASSUME NEW t \in Threads, NEW answer \in Int, Answer(t, answer)
  PROVE  Fc!Answer(t, answer) /\ Fc!FcNext
<1>1. Fc!Answer(t, answer)
  BY DEF Answer, Serving, Fc!Answer, Fc!Serving
<1>2. QED
  BY <1>1 DEF Fc!FcNext, Fc!FcStep, Fc!Answers

-----------------------------------------------------------------------------
(***************************************************************************)
(* The invariant: what the serial operations find, until the two combiners *)
(* clash.                                                                  *)
(***************************************************************************)
Enqueuing == {"first", "setFirst", "setLast", "link", "storeNext", "moveLast"}
Clearing == {"reload", "clearFirst"}
Dequeuing == {"compare", "null", "again", "compareAgain", "only", "clearLast", "reload",
              "clearFirst", "several", "firstAgain", "loadNext", "moveFirst"}

Nodes == [value : Int, next : Nat]
Serials == [at : {"start"} \cup Enqueuing \cup Dequeuing, new : Nat, ret : Nat, ptr : Nat]

QueueTypes ==
  /\ node \in Seq(Nodes) /\ first \in 0..Len(node) /\ last \in 0..Len(node)
  /\ serial \in [Structs -> Serials]

\* The nodes from first to last follow each other.
Linked == first # 0 /\ last # 0 =>
  first <= last /\ \A n \in first..(last - 1) : node[n].next = n + 1

\* first and last are NULL together, but between two stores of one operation.
NullTogether ==
  \/ first = 0 <=> last = 0
  \/ serial["enqueue"].at = "setLast"
  \/ \E s \in Structs : serial[s].at \in Clearing

\* The node that is enqueued is the newest; without one last is.
EnqueueView ==
  LET me == serial["enqueue"] IN
  IF me.at \in Enqueuing
  THEN /\ me.new = Len(node) /\ me.new > 0
       /\ me.at \in {"first", "setFirst"} => first = 0 /\ last = 0
       /\ me.at = "setLast" => first = me.new /\ last = 0
       /\ me.at \in {"link", "storeNext", "moveLast"} =>
            /\ first # 0 /\ last # 0
            /\ (first = me.new /\ last = me.new) \/ last = me.new - 1
       /\ me.at \in {"storeNext", "moveLast"} => me.ptr = last
       /\ me.at = "moveLast" => last = me.new \/ node[last].next = me.new
  ELSE me.new = 0 /\ last \in {0, Len(node)}

\* What a dequeue has read is still so.
DequeueView(s) ==
  LET me == serial[s] IN
  /\ me.at = "compare" => me.ptr = first
  /\ me.at = "null" => first = last
  /\ me.at \in Dequeuing \ {"compare", "null"} => first # 0
  /\ me.at \in {"compareAgain", "loadNext"} => me.ptr = first
  /\ me.at \in {"only", "clearLast"} => first = last
  /\ me.at \in Clearing => last = 0
  /\ me.at = "clearFirst" => me.ptr = 0
  /\ me.at \in {"several", "firstAgain", "loadNext", "moveFirst"} => first < last
  /\ me.at \in {"clearLast", "firstAgain", "loadNext", "moveFirst"} \cup Clearing => me.ret = first
  /\ me.at = "moveFirst" => me.ptr = first + 1

\* A serial operation is under way only while its lock's combiner serves.
UnderLock(s) == IF serial[s].at = "start" THEN serial[s] = NotStarted ELSE Combining(s)

\* The combiner's own value decides which operation it is.
ByValue(t) ==
  /\ local[t].pc # "idle" => local[t].s \in Structs /\ local[t].value \in Arguments[local[t].s]
  /\ Serving(t) =>
       /\ Me(t).at \in Enqueuing => local[t].value >= 1 /\ node[Me(t).new].value = local[t].value
       /\ Me(t).at \in Dequeuing => local[t].value < 1

QueueInv ==
  /\ QueueTypes /\ Linked /\ NullTogether /\ EnqueueView /\ ~ Clash
  /\ \A s \in Structs : DequeueView(s) /\ UnderLock(s)
  /\ \A t \in Threads : ByValue(t)

Inv == ~ clashed => Fc!RInv /\ QueueInv

-----------------------------------------------------------------------------
(***************************************************************************)
(* Who serves                                                              *)
(***************************************************************************)
LEMMA TwoSides == \A s \in Structs : s = "enqueue" \/ s = "dequeue"
  BY FcQueueAssumption

LEMMA Sides == "enqueue" \in Structs /\ "dequeue" \in Structs
  BY FcQueueAssumption

LEMMA FcTypes ==
  ASSUME Fc!RInv, NEW t \in Threads
  PROVE  /\ local \in [Threads -> Fc!Locals] /\ local[t].pc \in Fc!PCs
         /\ local[t].pc # "idle" => local[t].s \in Structs /\ local[t].value \in Int
<1>1. local \in [Threads -> Fc!Locals] /\ Fc!CallUnderWay(t)
  BY DEF Fc!RInv, Fc!IInv, Fc!FcTypeOK, Fc!ThreadView
<1>2. QED
  BY <1>1 DEF Fc!Locals, Fc!CallUnderWay

LEMMA NobodyCrashed == Fc!RInv => ~ Crashed
<1> SUFFICES ASSUME Fc!RInv, NEW t \in Threads PROVE local[t].pc # "crashed"
  BY DEF Crashed
<1>1. QED
  BY FcTypes DEF Fc!PCs

\* One thread serves a side at a time.
LEMMA ServesAlone ==
  ASSUME Fc!RInv, NEW t \in Threads, NEW u \in Threads, Serving(t), Serving(u),
         local[t].s = local[u].s
  PROVE  t = u
<1>1. local[t].s \in Structs /\ local[t].pc = "serve" /\ local[u].pc = "serve"
  BY FcTypes DEF Serving
<1>2. Fc!HoldsToCombine(t) /\ Fc!HoldsToCombine(u) /\ Fc!OneCombiner
  BY DEF Fc!RInv, Fc!IInv, Fc!ThreadView
<1>3. local[t].holds /\ local[u].holds
  BY <1>1, <1>2 DEF Fc!HoldsToCombine, Fc!Combining
<1>4. QED
  BY <1>1, <1>2, <1>3 DEF Fc!OneCombiner, Fc!Callers

-----------------------------------------------------------------------------
(***************************************************************************)
(* How many elements are queued                                            *)
(***************************************************************************)
Size == IF first \in {0, serial["enqueue"].new} THEN 0
        ELSE IF last = 0 THEN 1 ELSE last - first + 1

LEMMA QueuedIsInterval ==
  ASSUME QueueInv
  PROVE  /\ Queued = first..(first + Size - 1) /\ Cardinality(Queued) = Size
         /\ Size \in Nat /\ first + Size - 1 <= Len(node)
         /\ Size > 0 => first \in 1..Len(node)
<1> DEFINE e == serial["enqueue"]
<1>1. /\ first \in 0..Len(node) /\ last \in 0..Len(node) /\ Len(node) \in Nat
      /\ DOMAIN node = 1..Len(node) /\ e.new \in Nat
  BY Sides DEF QueueInv, QueueTypes, Serials
<1>2. first # 0 /\ last # 0 => first <= last
  BY DEF QueueInv, Linked
<1>3. /\ e.new = 0 \/ e.new = Len(node)
      /\ e.new # 0 /\ last # 0 => last = e.new - 1 \/ (first = e.new /\ last = e.new)
  BY DEF QueueInv, EnqueueView, Enqueuing
<1> HIDE DEF e
<1>4. /\ Size = IF first \in {0, e.new} THEN 0 ELSE IF last = 0 THEN 1 ELSE last - first + 1
      /\ Queued = {n \in DOMAIN node :
           first # 0 /\ first <= n /\ (n <= last \/ n = first) /\ n # e.new}
  BY DEF Size, Queued, e
<1>5. Size \in Nat /\ first + Size - 1 <= Len(node) /\ (Size > 0 => first \in 1..Len(node))
  BY <1>1, <1>2, <1>4
<1>6. Queued = first..(first + Size - 1)
  <2>1. CASE first = 0
    BY <1>1, <1>4, <2>1
  <2>2. CASE first = e.new /\ first # 0
    <3>1. \A n \in 1..Len(node) : first <= n => n = e.new
      BY <1>1, <1>3, <2>2
    <3>2. Queued = {} /\ Size = 0
      BY <1>1, <1>4, <2>2, <3>1
    <3>3. QED
      BY <1>1, <3>2
  <2>3. CASE first # 0 /\ first # e.new /\ last = 0
    <3>1. Size = 1 /\ first..(first + Size - 1) = {first}
      BY <1>1, <1>4, <2>3
    <3>2. \A n \in 1..Len(node) : n \in Queued <=> n = first
      BY <1>1, <1>4, <2>3
    <3>3. Queued \subseteq 1..Len(node)
      BY <1>1, <1>4
    <3>4. first \in 1..Len(node)
      BY <1>1, <2>3
    <3>5. Queued = {first}
      BY <3>2, <3>3, <3>4
    <3>6. QED
      BY <3>1, <3>5
  <2>4. CASE first # 0 /\ first # e.new /\ last # 0
    <3>1. Size = last - first + 1 /\ first + Size - 1 = last
      BY <1>1, <1>4, <2>4
    <3>2. \A n \in 1..Len(node) : n \in Queued <=> first <= n /\ n <= last
      BY <1>1, <1>2, <1>3, <1>4, <2>4
    <3>3. Queued \subseteq 1..Len(node)
      BY <1>1, <1>4
    <3>4. \A n \in first..last : n \in 1..Len(node)
      BY <1>1, <2>4
    <3>5. Queued = first..last
      <4>1. \A n \in 1..Len(node) : n \in first..last <=> first <= n /\ n <= last
        BY <1>1
      <4>2. QED
        BY <3>2, <3>3, <3>4, <4>1
    <3>6. QED
      BY <3>1, <3>5
  <2>5. QED
    BY <2>1, <2>2, <2>3, <2>4
<1>7. Cardinality(Queued) = Size
  <2>1. first \in Int /\ first + Size - 1 \in Int
    BY <1>1, <1>5
  <2>2. Cardinality(first..(first + Size - 1)) =
          IF first > first + Size - 1 THEN 0 ELSE (first + Size - 1) - first + 1
    BY <2>1, FS_Interval
  <2>3. QED
    BY <1>1, <1>5, <1>6, <2>2
<1>8. QED
  BY <1>5, <1>6, <1>7

\* While both sides serve there are two elements, so that the stores of one
\* do not touch what the other reads.
LEMMA Apart ==
  ASSUME QueueInv, \A s \in Structs : Combining(s)
  PROVE  first # 0 /\ last # 0 /\ first < last /\ first # serial["enqueue"].new
<1>1. ~ (Size < 2) /\ Size \in Nat
  BY QueuedIsInterval DEF QueueInv, Clash
<1>2. first \in Nat /\ last \in Nat
  BY DEF QueueInv, QueueTypes
<1>3. QED
  BY <1>1, <1>2 DEF Size

-----------------------------------------------------------------------------
(***************************************************************************)
(* A step of a serial operation changes the locals of its side.            *)
(***************************************************************************)
\* The side t serves has come to at, with these locals.
Comes(t, at, new, ret, ptr) ==
  /\ serial' \in [Structs -> Serials]
  /\ LET me == serial'[local[t].s] IN
       me.at = at /\ me.new = new /\ me.ret = ret /\ me.ptr = ptr
  /\ \A s \in Structs : s # local[t].s => serial'[s] = serial[s]

LEMMA ServesASide ==
  ASSUME Fc!RInv, NEW t \in Threads, Serving(t)
  PROVE  local[t].s \in Structs /\ local[t].value \in Int /\ Combining(local[t].s)
  BY FcTypes DEF Serving, Combining

LEMMA GotoComes ==
  ASSUME Fc!RInv, QueueInv, NEW t \in Threads, Serving(t),
         NEW pc \in Enqueuing \cup Dequeuing, Goto(t, pc)
  PROVE  Comes(t, pc, Me(t).new, Me(t).ret, Me(t).ptr)
<1>1. serial \in [Structs -> Serials] /\ local[t].s \in Structs
  BY ServesASide DEF QueueInv, QueueTypes
<1> DEFINE s == local[t].s
           after == [serial[s] EXCEPT !.at = pc]
<1>2. /\ after \in Serials /\ after.at = pc /\ after.new = Me(t).new
      /\ after.ret = Me(t).ret /\ after.ptr = Me(t).ptr
  BY <1>1 DEF Serials, Me
<1>3. serial' = [serial EXCEPT ![s] = after]
  BY DEF Goto
<1> HIDE DEF s, after
<1>4. QED
  BY <1>1, <1>2, <1>3 DEF Comes, s

LEMMA LoadComes ==
  ASSUME Fc!RInv, QueueInv, NEW t \in Threads, Serving(t),
         NEW pc \in Enqueuing \cup Dequeuing, NEW p \in Nat
  PROVE  /\ Load(t, "ptr", p, pc) => Comes(t, pc, Me(t).new, Me(t).ret, p)
         /\ Load(t, "ret", p, pc) => Comes(t, pc, Me(t).new, p, Me(t).ptr)
<1>1. serial \in [Structs -> Serials] /\ local[t].s \in Structs
  BY ServesASide DEF QueueInv, QueueTypes
<1> DEFINE s == local[t].s
           ptr == [serial[s] EXCEPT !.ptr = p, !.at = pc]
           ret == [serial[s] EXCEPT !.ret = p, !.at = pc]
<1>2. /\ ptr \in Serials /\ ptr.at = pc /\ ptr.new = Me(t).new
      /\ ptr.ret = Me(t).ret /\ ptr.ptr = p
      /\ ret \in Serials /\ ret.at = pc /\ ret.new = Me(t).new
      /\ ret.ret = p /\ ret.ptr = Me(t).ptr
  BY <1>1 DEF Serials, Me
<1>3. ASSUME Load(t, "ptr", p, pc) PROVE serial' = [serial EXCEPT ![s] = ptr]
  BY <1>1, <1>3 DEF Load, Serials
<1>4. ASSUME Load(t, "ret", p, pc) PROVE serial' = [serial EXCEPT ![s] = ret]
  BY <1>1, <1>4 DEF Load, Serials
<1> HIDE DEF s, ptr, ret
<1>5. QED
  BY <1>1, <1>2, <1>3, <1>4 DEF Comes, s

LEMMA FinishComes ==
  ASSUME Fc!RInv, QueueInv, NEW t \in Threads, NEW answer \in Int, Finish(t, answer)
  PROVE  /\ Comes(t, "start", 0, 0, 0) /\ serial'[local[t].s] = NotStarted
         /\ Serving(t) /\ Fc!Answer(t, answer) /\ Fc!FcNext
<1>1. serial \in [Structs -> Serials] /\ local[t].s \in Structs /\ Serving(t)
  BY ServesASide DEF QueueInv, QueueTypes, Finish, Answer
<1>2. NotStarted \in Serials
  BY DEF NotStarted, Serials
<1>3. Comes(t, "start", 0, 0, 0) /\ serial'[local[t].s] = NotStarted
  BY <1>1, <1>2 DEF Finish, Comes, NotStarted
<1>4. QED
  BY <1>1, <1>3, SameAnswer DEF Finish

\* What t serves, by its value: below 1 it dequeues, otherwise it enqueues.
Enqueues(t) == Serving(t) /\ local[t].value >= 1

LEMMA WhatItServes ==
  ASSUME Fc!RInv, QueueInv, NEW t \in Threads, Serving(t)
  PROVE  /\ Me(t).at \in Dequeuing => Dequeues(t)
         /\ Me(t).at \in Enqueuing => Enqueues(t)
  BY DEF QueueInv, ByValue, Dequeues, Enqueues

\* There is one who dequeues, and nobody enqueues in less than two elements
\* meanwhile.
LEMMA DequeuesAlone ==
  ASSUME Fc!RInv, QueueInv, NEW t \in Threads, Dequeues(t)
  PROVE  /\ \A s \in Structs : s # local[t].s => serial[s].at \notin Dequeuing
         /\ serial["enqueue"].at \in Enqueuing =>
              local[t].s = "dequeue" /\ first # 0 /\ first < last /\ first # serial["enqueue"].new
<1>1. /\ Serving(t) /\ local[t].s \in Structs /\ local[t].value \in Arguments[local[t].s]
      /\ local[t].value < 1 /\ local[t].value \in Int /\ Combining(local[t].s)
  BY ServesASide DEF Dequeues, QueueInv, ByValue, Serving
<1>2. ASSUME NEW s \in Structs, s # local[t].s, serial[s].at \in Dequeuing PROVE FALSE
  <2>1. Combining(s)
    BY <1>2 DEF QueueInv, UnderLock, Dequeuing
  <2>2. PICK u \in Threads : local[u].s = s /\ Serving(u)
    BY <2>1 DEF Combining
  <2>3. Dequeues(u)
    BY <1>2, <2>2, WhatItServes DEF Me
  <2>4. \A r \in Structs : \E w \in Threads : local[w].s = r /\ Dequeues(w)
    BY <1>1, <1>2, <2>2, <2>3, TwoSides
  <2>5. \A r \in Structs : Combining(r)
    BY <2>4 DEF Combining, Dequeues
  <2>6. QED
    BY <2>4, <2>5 DEF QueueInv, Clash
<1>3. ASSUME serial["enqueue"].at \in Enqueuing
      PROVE  local[t].s = "dequeue" /\ first # 0 /\ first < last /\ first # serial["enqueue"].new
  <2>1. Combining("enqueue")
    BY <1>3, Sides DEF QueueInv, UnderLock, Enqueuing
  <2>2. local[t].s # "enqueue"
    BY <1>1, <1>3 DEF QueueInv, ByValue, Me
  <2>3. local[t].s = "dequeue" /\ \A s \in Structs : Combining(s)
    BY <1>1, <2>1, <2>2, TwoSides
  <2>4. QED
    BY <2>3, Apart
<1>4. QED
  BY <1>2, <1>3

LEMMA EnqueuesAlone ==
  ASSUME Fc!RInv, QueueInv, NEW t \in Threads, Enqueues(t)
  PROVE  /\ local[t].s = "enqueue" /\ Me(t) = serial["enqueue"]
         /\ Me(t).at \in {"start"} \cup Enqueuing
         /\ \A s \in Structs : serial[s].at \in Dequeuing =>
              s = "dequeue" /\ first # 0 /\ last # 0 /\ first < last /\ first # Me(t).new
<1>1. /\ Serving(t) /\ local[t].s \in Structs /\ local[t].value \in Arguments[local[t].s]
      /\ local[t].value >= 1 /\ Combining(local[t].s) /\ local[t].value \in Int
  BY ServesASide DEF Enqueues, QueueInv, ByValue, Serving
<1>2. local[t].s = "enqueue" /\ Me(t) = serial["enqueue"]
  BY <1>1, TwoSides, FcQueueAssumption DEF Me
<1>3. Me(t).at \in {"start"} \cup Enqueuing
  <2>1. Me(t).at \notin Dequeuing
    BY <1>1, WhatItServes DEF Dequeues
  <2>2. serial["enqueue"] \in Serials
    BY Sides DEF QueueInv, QueueTypes
  <2>3. QED
    BY <1>2, <2>1, <2>2 DEF Serials
<1>4. ASSUME NEW s \in Structs, serial[s].at \in Dequeuing
      PROVE  s = "dequeue" /\ first # 0 /\ last # 0 /\ first < last /\ first # Me(t).new
  <2>1. Combining(s)
    BY <1>4 DEF QueueInv, UnderLock, Dequeuing
  <2>2. s = "dequeue"
    BY <1>2, <1>3, <1>4, TwoSides DEF Enqueuing, Dequeuing
  <2>3. \A r \in Structs : Combining(r)
    BY <1>1, <1>2, <2>1, <2>2, TwoSides
  <2>4. QED
    BY <1>2, <2>2, <2>3, Apart
<1>5. QED
  BY <1>2, <1>3, <1>4

-----------------------------------------------------------------------------
(***************************************************************************)
(* The queue, step by step                                                 *)
(***************************************************************************)
QueueData == /\ QueueTypes /\ Linked /\ NullTogether /\ EnqueueView
             /\ \A s \in Structs : DequeueView(s)

\* A dequeue that reads only has to know what it read.
LEMMA DequeueReads ==
  ASSUME Fc!RInv, QueueInv, NEW t \in Threads, Dequeues(t),
         NEW at \in Dequeuing, Me(t).at \in Clearing => at \in Clearing, NEW ret \in Nat, NEW ptr \in Nat,
         Comes(t, at, Me(t).new, ret, ptr), UNCHANGED qVars,
         NEW d \in Structs, d = local[t].s, DequeueView(d)'
  PROVE  QueueData'
<1>1. local[t].s \in Structs /\ Me(t).at \notin Enqueuing
  BY ServesASide, WhatItServes DEF Dequeues, Enqueues
<1>2. UNCHANGED <<node, first, last>>
  BY DEF qVars
<1>3. QueueTypes' /\ Linked'
  BY <1>2 DEF QueueInv, QueueTypes, Linked, Comes
<1>4. at \notin Enqueuing
  BY DEF Dequeuing, Enqueuing
<1>5. \A s \in Structs : s # local[t].s => serial'[s] = serial[s]
  BY DEF Comes
<1>6. EnqueueView'
  <2>1. CASE local[t].s = "enqueue"
    <3>1. /\ serial'["enqueue"].at = at /\ serial'["enqueue"].new = serial["enqueue"].new
          /\ serial["enqueue"].at \notin Enqueuing
      BY <1>1, <2>1 DEF Comes, Me
    <3>2. serial["enqueue"].new = 0 /\ last \in {0, Len(node)}
      BY <3>1 DEF QueueInv, EnqueueView
    <3>3. QED
      BY <1>2, <1>4, <3>1, <3>2 DEF EnqueueView
  <2>2. CASE local[t].s # "enqueue"
    <3>1. serial'["enqueue"] = serial["enqueue"]
      BY <1>5, <2>2, Sides
    <3>2. EnqueueView
      BY DEF QueueInv
    <3>3. QED
      BY <1>2, <3>1, <3>2 DEF EnqueueView
  <2>3. QED
    BY <2>1, <2>2
<1>7. NullTogether'
  <2>1. CASE serial["enqueue"].at = "setLast"
    <3>1. local[t].s # "enqueue"
      BY <1>1, <2>1 DEF Me, Enqueuing
    <3>2. QED
      BY <1>5, <2>1, <3>1, Sides DEF NullTogether
  <2>2. ASSUME NEW s \in Structs, serial[s].at \in Clearing PROVE NullTogether'
    <3>1. serial'[s].at \in Clearing
      <4>1. CASE s = local[t].s
        BY <2>2, <4>1 DEF Me, Comes
      <4>2. CASE s # local[t].s
        BY <1>5, <2>2, <4>2
      <4>3. QED
        BY <4>1, <4>2
    <3>2. QED
      BY <3>1 DEF NullTogether
  <2>3. CASE first = 0 <=> last = 0
    BY <1>2, <2>3 DEF NullTogether
  <2>4. QED
    BY <2>1, <2>2, <2>3 DEF QueueInv, NullTogether
<1>8. ASSUME NEW s \in Structs, s # local[t].s PROVE DequeueView(s)'
  <2>1. DequeueView(s) /\ serial'[s] = serial[s]
    BY <1>5, <1>8 DEF QueueInv
  <2>2. QED
    BY <1>2, <2>1 DEF DequeueView
<1>9. QED
  BY <1>3, <1>6, <1>7, <1>8 DEF QueueData

\* What holds for a dequeue before its step.
LEMMA DequeueKnows ==
  ASSUME Fc!RInv, QueueInv, NEW t \in Threads, Serving(t), Me(t).at \in Dequeuing
  PROVE  /\ Dequeues(t) /\ DequeueView(local[t].s) /\ local[t].s \in Structs
         /\ Me(t) = serial[local[t].s] /\ Me(t) \in Serials
         /\ first \in Nat /\ last \in Nat
<1>1. local[t].s \in Structs
  BY ServesASide
<1>2. QED
  BY <1>1, WhatItServes DEF QueueInv, QueueTypes, Me

\* While t looks, and until it clears first, both ends are NULL or neither is.
LEMMA BothOrNeither ==
  ASSUME Fc!RInv, QueueInv, NEW t \in Threads, Dequeues(t), Me(t).at \notin Clearing
  PROVE  first = 0 <=> last = 0
<1>1. serial["enqueue"].at = "setLast" => FALSE
  <2>1. ASSUME serial["enqueue"].at = "setLast" PROVE FALSE
    <3>1. first = serial["enqueue"].new
      BY <2>1 DEF QueueInv, EnqueueView, Enqueuing
    <3>2. QED
      BY <2>1, <3>1, DequeuesAlone DEF Enqueuing
  <2>2. QED
    BY <2>1
<1>2. \A s \in Structs : serial[s].at \notin Clearing
  BY DequeuesAlone DEF Dequeuing, Clearing, Me
<1>3. QED
  BY <1>1, <1>2 DEF QueueInv, NullTogether

LEMMA NextKeepsDataReading ==
  ASSUME Fc!RInv, QueueInv, NEW t \in Threads,
         \/ DequeueStart(t) \/ Compare(t) \/ (IsNull(t) /\ first # 0) \/ Again(t) \/ CompareAgain(t)
         \/ TakeOnly(t) \/ Reload(t) \/ TakeFirst(t) \/ FirstAgain(t) \/ LoadNext(t)
  PROVE  QueueData' /\ UNCHANGED fcVars /\ Serving(t)
         /\ serial'[local[t].s].at \in Dequeuing /\ Dequeues(t)
         /\ \A s \in Structs : s # local[t].s => serial'[s] = serial[s]
<1>0. Serving(t) /\ first \in Nat /\ last \in Nat
  BY DEF DequeueStart, Compare, IsNull, Again, CompareAgain, TakeOnly, Reload, TakeFirst, FirstAgain,
         LoadNext, At, QueueInv, QueueTypes
<1>a. PICK d \in Structs : d = local[t].s
  BY <1>0, ServesASide
<1>1. /\ d = local[t].s /\ Me(t) \in Serials /\ Me(t).ret \in Nat /\ Me(t).ptr \in Nat
      /\ Me(t) = serial[d]
  BY <1>a DEF QueueInv, QueueTypes, Me, Serials
<1>2. CASE DequeueStart(t)
  <2>1. Dequeues(t) /\ Me(t).at = "start" /\ Load(t, "ptr", first, "compare")
    BY <1>2 DEF DequeueStart, At, Dequeues
  <2>2. Comes(t, "compare", Me(t).new, Me(t).ret, first) /\ UNCHANGED <<fcVars, qVars>>
    BY <1>0, <2>1, LoadComes DEF Load, Dequeuing
  <2>3. DequeueView(d)'
    BY <1>1, <2>2 DEF Comes, DequeueView, qVars, fcVars, Dequeuing, Clearing
  <2>4. QED
    BY <1>0, <1>1, <2>1, <2>2, <2>3, DequeueReads DEF Dequeuing, Clearing, Comes
<1>3. CASE Compare(t)
  <2> DEFINE at == IF Me(t).ptr = last THEN "null" ELSE "again"
  <2>1. Me(t).at = "compare" /\ Goto(t, at) /\ UNCHANGED <<fcVars, qVars>>
    BY <1>3 DEF Compare, At, Branch
  <2>2. Dequeues(t) /\ DequeueView(d)
    BY <1>0, <1>1, <2>1, DequeueKnows DEF Dequeuing
  <2>3. Comes(t, at, Me(t).new, Me(t).ret, Me(t).ptr)
    BY <1>0, <2>1, GotoComes DEF Dequeuing
  <2>4. first = 0 <=> last = 0
    BY <2>1, <2>2, BothOrNeither DEF Clearing
  <2>5. DequeueView(d)'
    BY <1>0, <1>1, <2>1, <2>2, <2>3, <2>4 DEF Comes, DequeueView, qVars, fcVars, Dequeuing, Clearing
  <2>6. QED
    BY <1>0, <1>1, <2>1, <2>2, <2>3, <2>5, DequeueReads DEF Dequeuing, Clearing, Comes
<1>4. CASE IsNull(t) /\ first # 0
  <2>1. Me(t).at = "null" /\ Goto(t, "again") /\ UNCHANGED <<fcVars, qVars>>
    BY <1>4 DEF IsNull, At, Branch
  <2>2. Dequeues(t)
    BY <1>0, <1>1, <2>1, DequeueKnows DEF Dequeuing
  <2>3. Comes(t, "again", Me(t).new, Me(t).ret, Me(t).ptr)
    BY <1>0, <2>1, GotoComes DEF Dequeuing
  <2>5. DequeueView(d)'
    BY <1>0, <1>1, <1>4, <2>1, <2>2, <2>3 DEF Comes, DequeueView, qVars, fcVars, Dequeuing, Clearing
  <2>6. QED
    BY <1>0, <1>1, <2>1, <2>2, <2>3, <2>5, DequeueReads DEF Dequeuing, Clearing, Comes
<1>5. CASE Again(t)
  <2>1. Me(t).at = "again" /\ Load(t, "ptr", first, "compareAgain")
    BY <1>5 DEF Again, At
  <2>2. Dequeues(t) /\ DequeueView(d)
    BY <1>0, <1>1, <2>1, DequeueKnows DEF Dequeuing
  <2>3. Comes(t, "compareAgain", Me(t).new, Me(t).ret, first) /\ UNCHANGED <<fcVars, qVars>>
    BY <1>0, <2>1, LoadComes DEF Load, Dequeuing
  <2>5. DequeueView(d)'
    BY <1>0, <1>1, <2>1, <2>2, <2>3 DEF Comes, DequeueView, qVars, fcVars, Dequeuing, Clearing
  <2>6. QED
    BY <1>0, <1>1, <2>1, <2>2, <2>3, <2>5, DequeueReads DEF Dequeuing, Clearing, Comes
<1>6. CASE CompareAgain(t)
  <2> DEFINE at == IF Me(t).ptr = last THEN "only" ELSE "several"
  <2>1. Me(t).at = "compareAgain" /\ Goto(t, at) /\ UNCHANGED <<fcVars, qVars>>
    BY <1>6 DEF CompareAgain, At, Branch
  <2>2. Dequeues(t) /\ DequeueView(d)
    BY <1>0, <1>1, <2>1, DequeueKnows DEF Dequeuing
  <2>3. Comes(t, at, Me(t).new, Me(t).ret, Me(t).ptr)
    BY <1>0, <2>1, GotoComes DEF Dequeuing
  <2>4. first # 0 /\ last # 0 /\ first <= last
    BY <1>1, <2>1, <2>2, BothOrNeither DEF DequeueView, QueueInv, Linked, Dequeuing, Clearing
  <2>5. DequeueView(d)'
    BY <1>0, <1>1, <2>1, <2>2, <2>3, <2>4 DEF Comes, DequeueView, qVars, fcVars, Dequeuing, Clearing
  <2>6. QED
    BY <1>0, <1>1, <2>1, <2>2, <2>3, <2>5, DequeueReads DEF Dequeuing, Clearing, Comes
<1>7. CASE TakeOnly(t)
  <2>1. Me(t).at = "only" /\ Load(t, "ret", first, "clearLast")
    BY <1>7 DEF TakeOnly, At
  <2>2. Dequeues(t) /\ DequeueView(d)
    BY <1>0, <1>1, <2>1, DequeueKnows DEF Dequeuing, Clearing
  <2>3. Comes(t, "clearLast", Me(t).new, first, Me(t).ptr) /\ UNCHANGED <<fcVars, qVars>>
    BY <1>0, <2>1, LoadComes DEF Load, Dequeuing, Clearing
  <2>4. DequeueView(d)'
    BY <1>0, <1>1, <2>1, <2>2, <2>3 DEF Comes, DequeueView, qVars, fcVars, Dequeuing, Clearing
  <2>5. QED
    BY <1>0, <1>1, <2>1, <2>2, <2>3, <2>4, DequeueReads DEF Dequeuing, Clearing, Comes
<1>8. CASE Reload(t)
  <2>1. Me(t).at = "reload" /\ Load(t, "ptr", last, "clearFirst")
    BY <1>8 DEF Reload, At
  <2>2. Dequeues(t) /\ DequeueView(d)
    BY <1>0, <1>1, <2>1, DequeueKnows DEF Dequeuing, Clearing
  <2>3. Comes(t, "clearFirst", Me(t).new, Me(t).ret, last) /\ UNCHANGED <<fcVars, qVars>>
    BY <1>0, <2>1, LoadComes DEF Load, Dequeuing, Clearing
  <2>4. DequeueView(d)'
    BY <1>0, <1>1, <2>1, <2>2, <2>3 DEF Comes, DequeueView, qVars, fcVars, Dequeuing, Clearing
  <2>5. QED
    BY <1>0, <1>1, <2>1, <2>2, <2>3, <2>4, DequeueReads DEF Dequeuing, Clearing, Comes
<1>9. CASE TakeFirst(t)
  <2>1. Me(t).at = "several" /\ Load(t, "ret", first, "firstAgain")
    BY <1>9 DEF TakeFirst, At
  <2>2. Dequeues(t) /\ DequeueView(d)
    BY <1>0, <1>1, <2>1, DequeueKnows DEF Dequeuing, Clearing
  <2>3. Comes(t, "firstAgain", Me(t).new, first, Me(t).ptr) /\ UNCHANGED <<fcVars, qVars>>
    BY <1>0, <2>1, LoadComes DEF Load, Dequeuing, Clearing
  <2>4. DequeueView(d)'
    BY <1>0, <1>1, <2>1, <2>2, <2>3 DEF Comes, DequeueView, qVars, fcVars, Dequeuing, Clearing
  <2>5. QED
    BY <1>0, <1>1, <2>1, <2>2, <2>3, <2>4, DequeueReads DEF Dequeuing, Clearing, Comes
<1>10. CASE FirstAgain(t)
  <2>1. Me(t).at = "firstAgain" /\ Load(t, "ptr", first, "loadNext")
    BY <1>10 DEF FirstAgain, At
  <2>2. Dequeues(t) /\ DequeueView(d)
    BY <1>0, <1>1, <2>1, DequeueKnows DEF Dequeuing, Clearing
  <2>3. Comes(t, "loadNext", Me(t).new, Me(t).ret, first) /\ UNCHANGED <<fcVars, qVars>>
    BY <1>0, <2>1, LoadComes DEF Load, Dequeuing, Clearing
  <2>4. DequeueView(d)'
    BY <1>0, <1>1, <2>1, <2>2, <2>3 DEF Comes, DequeueView, qVars, fcVars, Dequeuing, Clearing
  <2>5. QED
    BY <1>0, <1>1, <2>1, <2>2, <2>3, <2>4, DequeueReads DEF Dequeuing, Clearing, Comes
<1>11. CASE LoadNext(t)
  <2>1. Me(t).at = "loadNext"
    BY <1>11 DEF LoadNext, At
  <2>2. Dequeues(t) /\ DequeueView(d) /\ first # 0 /\ first < last /\ Me(t).ptr = first
    BY <1>0, <1>1, <2>1, DequeueKnows DEF Dequeuing, Clearing, DequeueView
  <2>3. node[Me(t).ptr].next = first + 1
    <3>1. first \in first..(last - 1) /\ last # 0
      BY <1>0, <2>2
    <3>2. QED
      BY <2>2, <3>1 DEF QueueInv, Linked
  <2>4. Comes(t, "moveFirst", Me(t).new, Me(t).ret, first + 1) /\ UNCHANGED <<fcVars, qVars>>
    <3>1. Load(t, "ptr", first + 1, "moveFirst") /\ first + 1 \in Nat
      BY <1>0, <1>11, <2>2, <2>3 DEF LoadNext
    <3>2. QED
      BY <1>0, <3>1, LoadComes DEF Load, Dequeuing
  <2>5. DequeueView(d)'
    BY <1>0, <1>1, <2>1, <2>2, <2>4 DEF Comes, DequeueView, qVars, fcVars, Dequeuing, Clearing
  <2>6. /\ Me(t).at \notin Clearing /\ "moveFirst" \in Dequeuing /\ first + 1 \in Nat
        /\ serial'[d].at = "moveFirst"
        /\ \A s \in Structs : s # d => serial'[s] = serial[s]
    BY <1>0, <1>1, <2>1, <2>4 DEF Dequeuing, Clearing, Comes
  <2>7. QueueData'
    BY <1>0, <1>1, <2>2, <2>4, <2>5, <2>6, DequeueReads
  <2>8. QED
    BY <1>0, <1>1, <2>2, <2>4, <2>6, <2>7
<1>12. QED
  BY <1>2, <1>3, <1>4, <1>5, <1>6, <1>7, <1>8, <1>9, <1>10, <1>11

\* The dequeues that write.
LEMMA ClearLastKeepsData ==
  ASSUME Fc!RInv, QueueInv, NEW t \in Threads, ClearLast(t)
  PROVE  /\ QueueData' /\ Comes(t, "reload", Me(t).new, Me(t).ret, Me(t).ptr)
         /\ Dequeues(t) /\ first # 0 /\ first = last /\ last' = 0
         /\ UNCHANGED <<fcVars, node, first>>
<1>1. Serving(t) /\ Me(t).at = "clearLast" /\ last' = 0 /\ UNCHANGED <<fcVars, node, first>>
  BY DEF ClearLast, At
<1>2. PICK d \in Structs : d = local[t].s
  BY <1>1, ServesASide
<1>3. /\ Dequeues(t) /\ DequeueView(d) /\ Me(t) = serial[d] /\ Me(t) \in Serials
      /\ first \in Nat /\ last \in Nat
  BY <1>1, <1>2, DequeueKnows DEF Dequeuing
<1>4. first # 0 /\ first = last /\ Me(t).ret = first
  BY <1>1, <1>3 DEF DequeueView, Dequeuing
<1>5. Comes(t, "reload", Me(t).new, Me(t).ret, Me(t).ptr)
  BY <1>1, GotoComes DEF ClearLast, Dequeuing, Clearing
<1>6. serial["enqueue"].at \notin Enqueuing /\ \A s \in Structs : s # d => serial'[s] = serial[s]
  BY <1>2, <1>3, <1>4, <1>5, DequeuesAlone DEF Comes
<1>7. QueueTypes' /\ Linked' /\ NullTogether'
  BY <1>1, <1>2, <1>5 DEF QueueInv, QueueTypes, Linked, NullTogether, Comes, Clearing
<1>8. EnqueueView'
  <2>1. serial["enqueue"].new = 0
    BY <1>6 DEF QueueInv, EnqueueView
  <2>2. serial'["enqueue"].new = 0 /\ serial'["enqueue"].at \notin Enqueuing
    BY <1>2, <1>3, <1>5, <1>6, <2>1, Sides DEF Comes, Enqueuing
  <2>3. QED
    BY <1>1, <2>2 DEF EnqueueView
<1>9. ASSUME NEW s \in Structs PROVE DequeueView(s)'
  <2>1. CASE s = d
    BY <1>1, <1>2, <1>3, <1>4, <1>5, <2>1 DEF DequeueView, Comes, Clearing
  <2>2. CASE s # d
    <3>1. serial'[s].at \notin Dequeuing
      BY <1>2, <1>3, <1>6, <2>2, DequeuesAlone
    <3>2. QED
      BY <3>1 DEF DequeueView, Dequeuing, Clearing
  <2>3. QED
    BY <2>1, <2>2
<1>10. QED
  BY <1>1, <1>3, <1>4, <1>5, <1>7, <1>8, <1>9 DEF QueueData

\* The last store of a dequeue, which leaves the side at rest.
LEMMA DequeueEnds ==
  ASSUME Fc!RInv, QueueInv, NEW t \in Threads, Dequeues(t),
         Comes(t, "start", 0, 0, 0), node' = node, last' = last,
         first' \in 0..Len(node), Linked', NullTogether',
         serial["enqueue"].at \in Enqueuing => first' # 0 /\ first' # serial["enqueue"].new
  PROVE  QueueData'
<1>1. PICK d \in Structs : d = local[t].s
  BY ServesASide DEF Dequeues
<1>2. \A s \in Structs : s # d => serial'[s] = serial[s]
  BY <1>1 DEF Comes
<1>3. serial'[d].at = "start" /\ serial'[d].new = 0
  BY <1>1 DEF Comes
<1>4. QueueTypes'
  BY DEF QueueInv, QueueTypes, Comes
<1>5. EnqueueView'
  <2>1. CASE d = "enqueue"
    <3>1. serial["enqueue"].at \notin Enqueuing
      <4>1. Serving(t) /\ local[t].value < 1 /\ local[t].value \in Int
        BY ServesASide DEF Dequeues
      <4>2. ~ Enqueues(t)
        BY <4>1 DEF Enqueues
      <4>3. Me(t).at \notin Enqueuing
        BY <4>1, <4>2, WhatItServes
      <4>4. QED
        BY <1>1, <2>1, <4>3 DEF Me
    <3>2. last \in {0, Len(node)}
      BY <3>1 DEF QueueInv, EnqueueView
    <3>3. QED
      BY <1>3, <2>1, <3>2 DEF EnqueueView, Enqueuing
  <2>2. CASE d # "enqueue"
    <3>1. serial'["enqueue"] = serial["enqueue"] /\ EnqueueView
      BY <1>2, <2>2, Sides DEF QueueInv
    <3>2. CASE serial["enqueue"].at \in Enqueuing
      <4>1. first # 0 /\ first < last /\ first # serial["enqueue"].new
        BY <3>2, DequeuesAlone
      <4>2. first \in Nat /\ last \in Nat /\ serial["enqueue"].at \notin {"first", "setFirst", "setLast"}
        BY <3>1, <3>2, <4>1 DEF EnqueueView, QueueInv, QueueTypes
      <4>3. QED
        BY <3>1, <3>2, <4>1, <4>2 DEF EnqueueView
    <3>3. CASE serial["enqueue"].at \notin Enqueuing
      BY <3>1, <3>3 DEF EnqueueView
    <3>4. QED
      BY <3>2, <3>3
  <2>3. QED
    BY <2>1, <2>2
<1>6. ASSUME NEW s \in Structs PROVE DequeueView(s)'
  <2>1. serial'[s].at \notin Dequeuing
    BY <1>1, <1>2, <1>3, DequeuesAlone DEF Dequeuing
  <2>2. QED
    BY <2>1 DEF DequeueView, Dequeuing, Clearing
<1>7. QED
  BY <1>4, <1>5, <1>6 DEF QueueData

LEMMA IsNullKeepsData ==
  ASSUME Fc!RInv, QueueInv, NEW t \in Threads, IsNull(t), first = 0
  PROVE  QueueData' /\ Dequeues(t) /\ Finish(t, -1) /\ UNCHANGED qVars
<1>1. Me(t).at = "null" /\ Finish(t, -1) /\ UNCHANGED qVars /\ Serving(t)
  BY DEF IsNull, At
<1>2. Dequeues(t) /\ Comes(t, "start", 0, 0, 0)
  BY <1>1, DequeueKnows, FinishComes DEF Dequeuing
<1>3. UNCHANGED <<node, first, last>> /\ first \in 0..Len(node)
  BY <1>1 DEF qVars, QueueInv, QueueTypes
<1>4. Linked' /\ NullTogether'
  <2>1. first = 0 <=> last = 0
    BY <1>1, <1>2, BothOrNeither DEF Clearing
  <2>2. QED
    BY <1>3, <2>1 DEF QueueInv, Linked, NullTogether
<1>5. serial["enqueue"].at \notin Enqueuing
  BY <1>2, DequeuesAlone
<1>6. QED
  BY <1>1, <1>2, <1>3, <1>4, <1>5, DequeueEnds

LEMMA ClearFirstKeepsData ==
  ASSUME Fc!RInv, QueueInv, NEW t \in Threads, ClearFirst(t)
  PROVE  /\ QueueData' /\ Dequeues(t) /\ UNCHANGED <<node, last>>
         /\ first \in 1..Len(node) /\ last = 0 /\ first' = 0 /\ serial["enqueue"].new = 0
         /\ Finish(t, node[first].value) /\ node[first].value \in Int
<1>1. /\ Me(t).at = "clearFirst" /\ Serving(t) /\ UNCHANGED <<node, last>> /\ first' = Me(t).ptr
      /\ Me(t).ret # 0 => Finish(t, node[Me(t).ret].value)
  BY DEF ClearFirst, StoreFirst, At
<1>2. Dequeues(t) /\ first # 0 /\ last = 0 /\ Me(t).ret = first /\ first' = 0
  BY <1>1, DequeueKnows DEF Dequeuing, Clearing, DequeueView
<1>3. first \in 1..Len(node) /\ node \in Seq(Nodes) /\ Len(node) \in Nat
  BY <1>2 DEF QueueInv, QueueTypes
<1>4. node[first].value \in Int
  <2>1. node[first] \in Nodes
    BY <1>3
  <2>2. QED
    BY <2>1 DEF Nodes
<1>5. Comes(t, "start", 0, 0, 0)
  BY <1>1, <1>2, <1>4, FinishComes
<1>6. Linked' /\ NullTogether'
  BY <1>1, <1>2 DEF Linked, NullTogether, Clearing
<1>7. serial["enqueue"].at \notin Enqueuing
  <2>1. ASSUME serial["enqueue"].at \in Enqueuing PROVE FALSE
    <3>1. first < last
      BY <1>2, <2>1, DequeuesAlone
    <3>2. QED
      BY <1>2, <1>3, <3>1
  <2>2. QED
    BY <2>1
<1>8. serial["enqueue"].new = 0
  BY <1>7 DEF QueueInv, EnqueueView
<1>9. QueueData'
  <2>1. first' \in 0..Len(node)
    BY <1>2, <1>3
  <2>2. QED
    BY <1>1, <1>2, <1>5, <1>6, <1>7, <2>1, DequeueEnds
<1>10. Finish(t, node[first].value)
  BY <1>1, <1>2
<1>11. QED
  BY <1>1, <1>2, <1>3, <1>4, <1>8, <1>9, <1>10

LEMMA MoveFirstKeepsData ==
  ASSUME Fc!RInv, QueueInv, NEW t \in Threads, MoveFirst(t)
  PROVE  /\ QueueData' /\ Dequeues(t) /\ UNCHANGED <<node, last>>
         /\ first \in 1..Len(node) /\ first < last /\ last \in Nat /\ first' = first + 1
         /\ first # serial["enqueue"].new
         /\ (serial["enqueue"].at \in Enqueuing => first + 1 # serial["enqueue"].new)
         /\ Finish(t, node[first].value) /\ node[first].value \in Int
<1>1. /\ Me(t).at = "moveFirst" /\ Serving(t) /\ UNCHANGED <<node, last>> /\ first' = Me(t).ptr
      /\ Me(t).ret # 0 => Finish(t, node[Me(t).ret].value)
  BY DEF MoveFirst, StoreFirst, At
<1>2. Dequeues(t) /\ first # 0 /\ first < last /\ Me(t).ret = first /\ Me(t).ptr = first + 1
  BY <1>1, DequeueKnows DEF Dequeuing, DequeueView
<1>3. first \in 1..Len(node) /\ last \in 1..Len(node) /\ node \in Seq(Nodes) /\ Len(node) \in Nat
  BY <1>2 DEF QueueInv, QueueTypes
<1>4. node[first].value \in Int
  <2>1. node[first] \in Nodes
    BY <1>3
  <2>2. QED
    BY <2>1 DEF Nodes
<1>5. Comes(t, "start", 0, 0, 0)
  BY <1>1, <1>2, <1>4, FinishComes
<1>6. Linked' /\ NullTogether'
  BY <1>1, <1>2, <1>3 DEF Linked, NullTogether, QueueInv
<1>7. serial["enqueue"].at \in Enqueuing => first # serial["enqueue"].new
                                            /\ first + 1 # serial["enqueue"].new
  <2>1. ASSUME serial["enqueue"].at \in Enqueuing
        PROVE  first # serial["enqueue"].new /\ first + 1 # serial["enqueue"].new
    <3>1. first # serial["enqueue"].new
      BY <1>2, <2>1, DequeuesAlone
    <3>2. EnqueueView
      BY DEF QueueInv
    <3>3. serial["enqueue"].at \in {"link", "storeNext", "moveLast"}
      BY <1>2, <2>1, <3>1, <3>2 DEF EnqueueView, Enqueuing
    <3>4. last = serial["enqueue"].new - 1 /\ serial["enqueue"].new = Len(node)
      BY <2>1, <3>1, <3>2, <3>3 DEF EnqueueView
    <3>5. QED
      BY <1>2, <1>3, <3>1, <3>4
  <2>2. QED
    BY <2>1
<1>8. first # serial["enqueue"].new
  <2>1. serial["enqueue"].at \notin Enqueuing => serial["enqueue"].new = 0
    BY DEF QueueInv, EnqueueView
  <2>2. QED
    BY <1>2, <1>7, <2>1
<1>9. QueueData'
  <2>1. first' \in 0..Len(node) /\ first' # 0
    BY <1>1, <1>2, <1>3
  <2>2. serial["enqueue"].at \in Enqueuing => first' # serial["enqueue"].new
    BY <1>1, <1>2, <1>7
  <2>3. QED
    BY <1>1, <1>2, <1>5, <1>6, <2>1, <2>2, DequeueEnds
<1>10. Finish(t, node[first].value)
  BY <1>1, <1>2
<1>11. QED
  BY <1>1, <1>2, <1>3, <1>4, <1>7, <1>8, <1>9, <1>10

\* What holds for an enqueue before its step.
LEMMA EnqueueKnows ==
  ASSUME Fc!RInv, QueueInv, NEW t \in Threads, Serving(t),
         Me(t).at \in Enqueuing \/ (Me(t).at = "start" /\ local[t].value >= 1)
  PROVE  /\ Enqueues(t) /\ local[t].s = "enqueue" /\ Me(t) = serial["enqueue"]
         /\ EnqueueView /\ Me(t) \in Serials
         /\ first \in 0..Len(node) /\ last \in 0..Len(node) /\ Len(node) \in Nat
         /\ node \in Seq(Nodes)
<1>1. Enqueues(t)
  BY WhatItServes DEF Enqueues
<1>2. local[t].s = "enqueue" /\ Me(t) = serial["enqueue"]
  BY <1>1, EnqueuesAlone
<1>3. QED
  BY <1>1, <1>2, Sides DEF QueueInv, QueueTypes

LEMMA EnqueueBoth ==
  ASSUME Fc!RInv, QueueInv, NEW t \in Threads, Enqueues(t), Me(t).at # "setLast"
  PROVE  first = 0 <=> last = 0
<1>1. serial["enqueue"].at # "setLast"
  BY EnqueuesAlone
<1>2. ASSUME NEW s \in Structs, serial[s].at \in Clearing PROVE FALSE
  <2>1. last # 0
    BY <1>2, EnqueuesAlone DEF Dequeuing, Clearing
  <2>2. DequeueView(s)
    BY DEF QueueInv
  <2>3. QED
    BY <1>2, <2>1, <2>2 DEF DequeueView
<1>3. QED
  BY <1>1, <1>2 DEF QueueInv, NullTogether

\* An enqueue leaves to a dequeue beside it what that has read.
LEMMA EnqueueFrames ==
  ASSUME Fc!RInv, QueueInv, NEW t \in Threads, Enqueues(t),
         NEW at \in Enqueuing \cup {"start"}, NEW new \in Nat, NEW ret \in Nat, NEW ptr \in Nat,
         Comes(t, at, new, ret, ptr),
         first # 0 /\ last # 0 /\ first < last /\ first # Me(t).new
           => first' = first /\ last' \in Nat /\ last' >= last
  PROVE  \A s \in Structs : DequeueView(s)'
<1>1. local[t].s = "enqueue" /\ first \in Nat /\ last \in Nat
  BY EnqueuesAlone DEF QueueInv, QueueTypes
<1>2. DequeueView("enqueue")'
  <2>1. serial'["enqueue"].at \notin Dequeuing
    BY <1>1 DEF Comes, Enqueuing, Dequeuing
  <2>2. QED
    BY <2>1 DEF DequeueView, Dequeuing, Clearing
<1>3. serial'["dequeue"] = serial["dequeue"] /\ DequeueView("dequeue")
  BY <1>1, Sides DEF Comes, QueueInv
<1>4. CASE serial["dequeue"].at \in Dequeuing
  <2>1. first # 0 /\ last # 0 /\ first < last /\ first # Me(t).new
    BY <1>4, EnqueuesAlone, Sides
  <2>2. first' = first /\ last' \in Nat /\ last' >= last
    BY <2>1
  <2>3. serial["dequeue"].at \notin {"null", "only", "clearLast"} \cup Clearing
    BY <1>1, <1>3, <2>1 DEF DequeueView
  <2>4. DequeueView("dequeue")'
    BY <1>1, <1>3, <2>1, <2>2, <2>3 DEF DequeueView, Clearing
  <2>5. QED
    BY <1>2, <2>4, TwoSides
<1>5. CASE serial["dequeue"].at \notin Dequeuing
  <2>1. DequeueView("dequeue")'
    BY <1>3, <1>5 DEF DequeueView, Dequeuing, Clearing
  <2>2. QED
    BY <1>2, <2>1, TwoSides
<1>6. QED
  BY <1>4, <1>5

LEMMA NewNodeKeepsData ==
  ASSUME Fc!RInv, QueueInv, NEW t \in Threads, NewNode(t)
  PROVE  /\ QueueData' /\ UNCHANGED <<fcVars, first, last>> /\ Enqueues(t)
         /\ node' = Append(node, [value |-> local[t].value, next |-> 0])
         /\ serial'["enqueue"].at \in Enqueuing /\ serial["enqueue"].at = "start"
         /\ serial'["enqueue"].new = Len(node) + 1
         /\ \A s \in Structs : s # "enqueue" => serial'[s] = serial[s]
<1> DEFINE at == IF last = 0 THEN "first" ELSE "link"
           item == [value |-> local[t].value, next |-> 0]
           after == [serial["enqueue"] EXCEPT !.new = Len(node) + 1, !.at = at]
<1>1. /\ Serving(t) /\ Me(t).at = "start" /\ local[t].value >= 1
      /\ node' = Append(node, item) /\ UNCHANGED <<fcVars, first, last>>
      /\ serial' = [serial EXCEPT ![local[t].s].new = Len(node) + 1, ![local[t].s].at = at]
  BY DEF NewNode, At
<1>2. /\ Enqueues(t) /\ local[t].s = "enqueue" /\ Me(t) = serial["enqueue"]
      /\ EnqueueView /\ Me(t) \in Serials
      /\ first \in 0..Len(node) /\ last \in 0..Len(node) /\ Len(node) \in Nat
      /\ node \in Seq(Nodes)
  BY <1>1, EnqueueKnows
<1>3. at \in Enqueuing /\ (last = 0 => at = "first") /\ (last # 0 => at = "link")
  BY DEF Enqueuing
<1>4. /\ after \in Serials /\ after.at = at /\ after.new = Len(node) + 1
      /\ after.ret = Me(t).ret /\ after.ptr = Me(t).ptr
  <2>1. /\ serial["enqueue"] \in Serials /\ Me(t) = serial["enqueue"]
        /\ Len(node) + 1 \in Nat /\ at \in {"start"} \cup Enqueuing \cup Dequeuing
    BY <1>2, <1>3
  <2> HIDE DEF at
  <2>2. QED
    BY <2>1 DEF Serials
<1>5. serial' = [serial EXCEPT !["enqueue"] = after] /\ serial \in [Structs -> Serials]
  <2>1. serial \in [Structs -> Serials]
    BY DEF QueueInv, QueueTypes
  <2> HIDE DEF at
  <2>2. QED
    BY <1>1, <1>2, <2>1, Sides DEF Serials
<1>6. item \in Nodes
  <2>1. local[t].value \in Int
    BY <1>1, ServesASide
  <2>2. QED
    BY <2>1 DEF Nodes
<1> HIDE DEF at, after, item
<1>7. Comes(t, at, Len(node) + 1, Me(t).ret, Me(t).ptr)
  BY <1>2, <1>4, <1>5, Sides DEF Comes
<1>8. /\ node' \in Seq(Nodes) /\ Len(node') = Len(node) + 1
      /\ \A n \in 1..Len(node) : node'[n] = node[n]
  BY <1>1, <1>2, <1>6
<1>9. QueueTypes'
  BY <1>1, <1>2, <1>7, <1>8 DEF QueueTypes, Comes
<1>10. Linked'
  BY <1>1, <1>2, <1>8 DEF QueueInv, Linked
<1>11. (first = 0 <=> last = 0) /\ NullTogether'
  BY <1>1, <1>2, EnqueueBoth DEF NullTogether
<1>12. last \in {0, Len(node)}
  BY <1>1, <1>2 DEF EnqueueView, Enqueuing
<1>13. serial'["enqueue"].at = at /\ serial'["enqueue"].new = Len(node) + 1
  BY <1>2, <1>7 DEF Comes
<1>14. EnqueueView'
  BY <1>1, <1>2, <1>3, <1>8, <1>11, <1>12, <1>13 DEF EnqueueView
<1>15. \A s \in Structs : DequeueView(s)'
  <2>1. Me(t).ret \in Nat /\ Me(t).ptr \in Nat /\ Len(node) + 1 \in Nat
    BY <1>2 DEF Serials
  <2>2. first' = first /\ last' \in Nat /\ last' >= last
    BY <1>1, <1>2
  <2>3. QED
    BY <1>2, <1>3, <1>7, <2>1, <2>2, EnqueueFrames
<1>16. \A s \in Structs : s # "enqueue" => serial'[s] = serial[s]
  BY <1>2, <1>7 DEF Comes
<1>17. QED
  BY <1>1, <1>2, <1>3, <1>9, <1>10, <1>11, <1>13, <1>14, <1>15, <1>16 DEF QueueData, item

\* The enqueues that leave the queue as it is for the others.
LEMMA EnqueueStoresKeepData ==
  ASSUME Fc!RInv, QueueInv, NEW t \in Threads,
         LookFirst(t) \/ SetFirst(t) \/ SetLast(t) \/ LoadLast(t) \/ (StoreNext(t) /\ Me(t).ptr # 0)
  PROVE  /\ QueueData' /\ UNCHANGED fcVars /\ Enqueues(t)
         /\ serial["enqueue"].at \in Enqueuing /\ serial'["enqueue"].at \in Enqueuing
         /\ serial'["enqueue"].new = serial["enqueue"].new
         /\ \A s \in Structs : s # "enqueue" => serial'[s] = serial[s]
         /\ Len(node') = Len(node) /\ \A n \in 1..Len(node) : node'[n].value = node[n].value
         /\ (first' = first /\ last' = last) \/ first \in {0, serial["enqueue"].new}
         /\ first' = first \/ first' = serial["enqueue"].new
<1>1. Serving(t) /\ Me(t).at \in Enqueuing
  BY DEF LookFirst, SetFirst, SetLast, LoadLast, StoreNext, At, Enqueuing
<1> DEFINE new == Me(t).new
<1>2. /\ Enqueues(t) /\ local[t].s = "enqueue" /\ Me(t) = serial["enqueue"]
      /\ EnqueueView /\ Me(t) \in Serials
      /\ first \in 0..Len(node) /\ last \in 0..Len(node) /\ Len(node) \in Nat
      /\ node \in Seq(Nodes)
  BY <1>1, EnqueueKnows
<1>3. new = Len(node) /\ new > 0 /\ new \in Nat /\ Me(t).ret \in Nat /\ Me(t).ptr \in Nat
  BY <1>1, <1>2 DEF EnqueueView, Serials
\* What the step leaves to be shown.
<1>4. ASSUME NEW at \in Enqueuing, NEW ptr \in Nat, Comes(t, at, new, Me(t).ret, ptr),
             UNCHANGED fcVars, node' \in Seq(Nodes), Len(node') = Len(node),
             \A n \in 1..Len(node) : node'[n].value = node[n].value,
             first' \in 0..Len(node), last' \in 0..Len(node), Linked', NullTogether',
             serial'["enqueue"].at = at /\ serial'["enqueue"].new = new
             /\ serial'["enqueue"].ptr = ptr => EnqueueView',
             (first' = first /\ last' = last) \/ first \in {0, new},
             first' = first \/ first' = new
      PROVE  /\ QueueData' /\ UNCHANGED fcVars /\ Enqueues(t)
             /\ serial["enqueue"].at \in Enqueuing /\ serial'["enqueue"].at \in Enqueuing
             /\ serial'["enqueue"].new = serial["enqueue"].new
             /\ \A s \in Structs : s # "enqueue" => serial'[s] = serial[s]
             /\ Len(node') = Len(node) /\ \A n \in 1..Len(node) : node'[n].value = node[n].value
             /\ (first' = first /\ last' = last) \/ first \in {0, serial["enqueue"].new}
             /\ first' = first \/ first' = serial["enqueue"].new
  <2>1. /\ serial'["enqueue"].at = at /\ serial'["enqueue"].new = new
        /\ serial'["enqueue"].ptr = ptr
        /\ \A s \in Structs : s # "enqueue" => serial'[s] = serial[s]
    BY <1>2, <1>4 DEF Comes
  <2>2. QueueTypes'
    BY <1>4 DEF QueueTypes, Comes
  <2>3. \A s \in Structs : DequeueView(s)'
    <3>1. first # 0 /\ last # 0 /\ first < last /\ first # new
            => first' = first /\ last' \in Nat /\ last' >= last
      BY <1>2, <1>4
    <3>2. QED
      BY <1>2, <1>3, <1>4, <3>1, EnqueueFrames
  <2>4. EnqueueView'
    BY <1>4, <2>1
  <2>5. QED
    BY <1>1, <1>2, <1>4, <2>1, <2>2, <2>3, <2>4 DEF QueueData
<1>5. CASE LookFirst(t)
  <2>1. Me(t).at = "first" /\ first = 0 /\ last = 0 /\ Goto(t, "setFirst") /\ UNCHANGED <<fcVars, qVars>>
    BY <1>2, <1>5 DEF LookFirst, Branch, At, EnqueueView, Enqueuing
  <2>2. Comes(t, "setFirst", new, Me(t).ret, Me(t).ptr) /\ "setFirst" \in Enqueuing
    BY <1>1, <2>1, GotoComes DEF Enqueuing
  <2>3. UNCHANGED <<node, first, last>> /\ Linked' /\ NullTogether'
    BY <2>1 DEF qVars, Linked, NullTogether
  <2>4. serial'["enqueue"].at = "setFirst" /\ serial'["enqueue"].new = new => EnqueueView'
    BY <1>3, <2>1, <2>3 DEF EnqueueView, Enqueuing
  <2>5. QED
    BY <1>2, <1>3, <1>4, <2>1, <2>2, <2>3, <2>4
<1>6. CASE SetFirst(t)
  <2>1. /\ Me(t).at = "setFirst" /\ first = 0 /\ last = 0 /\ Goto(t, "setLast") /\ first' = new
        /\ UNCHANGED <<fcVars, node, last>>
    BY <1>2, <1>6 DEF SetFirst, At, EnqueueView, Enqueuing
  <2>2. Comes(t, "setLast", new, Me(t).ret, Me(t).ptr) /\ "setLast" \in Enqueuing
    BY <1>1, <2>1, GotoComes DEF Enqueuing
  <2>3. Linked' /\ NullTogether' /\ first' \in 0..Len(node)
    BY <1>2, <1>3, <2>1, <2>2 DEF Linked, NullTogether, Comes
  <2>4. serial'["enqueue"].at = "setLast" /\ serial'["enqueue"].new = new => EnqueueView'
    BY <1>3, <2>1, <2>3 DEF EnqueueView, Enqueuing
  <2>5. QED
    BY <1>2, <1>3, <1>4, <2>1, <2>2, <2>3, <2>4
<1>7. CASE SetLast(t)
  <2>1. /\ Me(t).at = "setLast" /\ first = new /\ last = 0 /\ Goto(t, "link") /\ last' = new
        /\ UNCHANGED <<fcVars, node, first>>
    BY <1>2, <1>7 DEF SetLast, At, EnqueueView, Enqueuing
  <2>2. Comes(t, "link", new, Me(t).ret, Me(t).ptr) /\ "link" \in Enqueuing
    BY <1>1, <2>1, GotoComes DEF Enqueuing
  <2>3. Linked' /\ NullTogether' /\ last' \in 0..Len(node)
    BY <1>2, <1>3, <2>1 DEF Linked, NullTogether
  <2>4. serial'["enqueue"].at = "link" /\ serial'["enqueue"].new = new => EnqueueView'
    BY <1>3, <2>1, <2>3 DEF EnqueueView, Enqueuing
  <2>5. QED
    BY <1>2, <1>3, <1>4, <2>1, <2>2, <2>3, <2>4
<1>8. CASE LoadLast(t)
  <2>1. Me(t).at = "link" /\ Load(t, "ptr", last, "storeNext")
    BY <1>8 DEF LoadLast, At
  <2>2. Comes(t, "storeNext", new, Me(t).ret, last) /\ "storeNext" \in Enqueuing /\ last \in Nat
    BY <1>1, <1>2, <2>1, LoadComes DEF Enqueuing
  <2>3. UNCHANGED <<fcVars, node, first, last>> /\ Linked' /\ NullTogether'
    <3>1. UNCHANGED <<fcVars, node, first, last>>
      BY <2>1 DEF Load, qVars
    <3>2. first # 0 /\ last # 0
      BY <1>2, <2>1 DEF EnqueueView, Enqueuing
    <3>3. QED
      BY <3>1, <3>2 DEF Linked, NullTogether, QueueInv
  <2>4. serial'["enqueue"].at = "storeNext" /\ serial'["enqueue"].new = new
        /\ serial'["enqueue"].ptr = last => EnqueueView'
    BY <1>2, <1>3, <2>1, <2>3 DEF EnqueueView, Enqueuing
  <2>5. QED
    BY <1>2, <1>3, <1>4, <2>2, <2>3, <2>4
<1>9. CASE StoreNext(t) /\ Me(t).ptr # 0
  <2>1. /\ Me(t).at = "storeNext" /\ Goto(t, "moveLast") /\ UNCHANGED <<fcVars, first, last>>
        /\ node' = [node EXCEPT ![Me(t).ptr].next = new]
    BY <1>9 DEF StoreNext, At
  <2>2. Comes(t, "moveLast", new, Me(t).ret, Me(t).ptr) /\ "moveLast" \in Enqueuing
    BY <1>1, <2>1, GotoComes DEF Enqueuing
  <2>3. first # 0 /\ last # 0 /\ Me(t).ptr = last /\ last \in 1..Len(node)
    BY <1>2, <2>1 DEF EnqueueView, Enqueuing
  <2> DEFINE linked == [node[last] EXCEPT !.next = new]
  <2>4. linked \in Nodes /\ linked.next = new /\ linked.value = node[last].value
    <3>1. node[last] \in Nodes
      BY <1>2, <2>3
    <3>2. QED
      BY <1>3, <3>1 DEF Nodes
  <2>5. node' = [node EXCEPT ![last] = linked]
    BY <2>1, <2>3
  <2> HIDE DEF linked
  <2>6. /\ node' \in Seq(Nodes) /\ Len(node') = Len(node) /\ node'[last] = linked
        /\ \A n \in 1..Len(node) : n # last => node'[n] = node[n]
    BY <1>2, <2>3, <2>4, <2>5
  <2>7. \A n \in 1..Len(node) : node'[n].value = node[n].value
    BY <2>4, <2>6
  <2>8. Linked' /\ NullTogether'
    <3>1. first <= last /\ \A n \in first..(last - 1) : node[n].next = n + 1
      BY <2>3 DEF QueueInv, Linked
    <3>2. \A n \in first..(last - 1) : n \in 1..Len(node) /\ n # last
      BY <1>2, <2>3
    <3>3. QED
      BY <2>1, <2>3, <2>6, <3>1, <3>2 DEF Linked, NullTogether
  <2>9. serial'["enqueue"].at = "moveLast" /\ serial'["enqueue"].new = new
        /\ serial'["enqueue"].ptr = Me(t).ptr => EnqueueView'
    BY <1>2, <1>3, <2>1, <2>3, <2>4, <2>6 DEF EnqueueView, Enqueuing
  <2>10. QED
    BY <1>2, <1>3, <1>4, <2>1, <2>2, <2>6, <2>7, <2>8, <2>9
<1>10. QED
  BY <1>5, <1>6, <1>7, <1>8, <1>9

LEMMA MoveLastKeepsData ==
  ASSUME Fc!RInv, QueueInv, NEW t \in Threads, MoveLast(t)
  PROVE  /\ QueueData' /\ Enqueues(t) /\ UNCHANGED <<node, first>> /\ Finish(t, 0)
         /\ first # 0 /\ last # 0 /\ last' = Len(node) /\ Len(node) > 0
         /\ serial["enqueue"].at \in Enqueuing /\ serial["enqueue"].new = Len(node)
         /\ first = Len(node) \/ (last = Len(node) - 1 /\ first <= last)
         /\ serial'["enqueue"].new = 0
<1> DEFINE new == Me(t).new
<1>1. Serving(t) /\ Me(t).at = "moveLast" /\ last' = new /\ Finish(t, 0) /\ UNCHANGED <<node, first>>
  BY DEF MoveLast, At
<1>2. /\ Enqueues(t) /\ local[t].s = "enqueue" /\ Me(t) = serial["enqueue"]
      /\ EnqueueView /\ Me(t) \in Serials
      /\ first \in 0..Len(node) /\ last \in 0..Len(node) /\ Len(node) \in Nat
      /\ node \in Seq(Nodes)
  BY <1>1, EnqueueKnows DEF Enqueuing
<1>3. Comes(t, "start", 0, 0, 0)
  BY <1>1, FinishComes
<1>4. /\ new = Len(node) /\ new > 0 /\ first # 0 /\ last # 0
      /\ (first = new /\ last = new) \/ last = new - 1
      /\ last = new \/ node[last].next = new
  BY <1>1, <1>2 DEF EnqueueView, Enqueuing
<1>5. first <= last /\ \A n \in first..(last - 1) : node[n].next = n + 1
  BY <1>4 DEF QueueInv, Linked
<1>6. first = new \/ (last = new - 1 /\ first <= last)
  BY <1>4, <1>5
<1>7. Linked'
  <2>1. first <= new /\ \A n \in first..(new - 1) : node[n].next = n + 1
    <3>1. CASE last = new
      BY <1>5, <3>1
    <3>2. CASE last # new
      <4>1. last = new - 1 /\ node[last].next = last + 1 /\ first <= new
        BY <1>2, <1>4, <1>5, <3>2
      <4>2. \A n \in first..(new - 1) : n = last \/ n \in first..(last - 1)
        BY <1>2, <4>1
      <4>3. QED
        BY <1>5, <4>1, <4>2
    <3>3. QED
      BY <3>1, <3>2
  <2>2. QED
    BY <1>1, <2>1 DEF Linked
<1>8. QueueTypes' /\ NullTogether'
  BY <1>1, <1>2, <1>3, <1>4 DEF QueueTypes, NullTogether, Comes
<1>9. serial'["enqueue"].at = "start" /\ serial'["enqueue"].new = 0
  BY <1>2, <1>3 DEF Comes
<1>10. EnqueueView'
  BY <1>1, <1>4, <1>9 DEF EnqueueView, Enqueuing
<1>11. \A s \in Structs : DequeueView(s)'
  <2>1. first' = first /\ last' \in Nat /\ last' >= last
    BY <1>1, <1>2, <1>4
  <2>2. QED
    BY <1>2, <1>3, <2>1, EnqueueFrames
<1>12. QED
  BY <1>1, <1>2, <1>4, <1>6, <1>7, <1>8, <1>9, <1>10, <1>11 DEF QueueData, Enqueuing

-----------------------------------------------------------------------------
(***************************************************************************)
(* What the steps leave to the calls                                       *)
(***************************************************************************)
CallViews == (\A s \in Structs : UnderLock(s)) /\ \A u \in Threads : ByValue(u)

LEMMA NewIsANode ==
  ASSUME Fc!RInv, QueueInv, NEW t \in Threads, Serving(t), Me(t).at \in Enqueuing
  PROVE  Me(t).new \in 1..Len(node)
  BY EnqueueKnows DEF EnqueueView

LEMMA SerialKeepsViews ==
  ASSUME Fc!RInv, QueueInv, NEW t \in Threads, Serving(t), UNCHANGED fcVars,
         \A s \in Structs : s # local[t].s => serial'[s] = serial[s],
         \A n \in 1..Len(node) : node'[n].value = node[n].value,
         NEW d \in Structs, d = local[t].s,
         \/ Enqueues(t) /\ serial'[d].at \in Enqueuing /\ node'[serial'[d].new].value = local[t].value
         \/ Dequeues(t) /\ serial'[d].at \in Dequeuing
  PROVE  CallViews'
<1>1. local' = local /\ serial'[d].at # "start"
  BY DEF fcVars, Enqueuing, Dequeuing
<1>2. ASSUME NEW s \in Structs PROVE UnderLock(s)'
  <2>1. CASE s = d
    BY <1>1, <2>1 DEF UnderLock, Combining, Serving
  <2>2. CASE s # d
    BY <1>1, <2>2 DEF QueueInv, UnderLock, Combining, Serving
  <2>3. QED
    BY <2>1, <2>2
<1>3. ASSUME NEW u \in Threads PROVE ByValue(u)'
  <2>1. ByValue(u) /\ ByValue(t)
    BY DEF QueueInv
  <2>2. CASE u = t
    BY <1>1, <2>1, <2>2 DEF ByValue, Me, Serving, Enqueues, Dequeues, Enqueuing, Dequeuing
  <2>3. CASE u # t /\ ~ Serving(u)
    BY <1>1, <2>1, <2>3 DEF ByValue, Serving
  <2>4. CASE u # t /\ Serving(u)
    <3>1. local[u].s \in Structs /\ local[u].s # local[t].s
      BY <2>4, ServesAlone, ServesASide
    <3>2. Me(u)' = Me(u)
      BY <1>1, <3>1 DEF Me
    <3>3. Me(u).at \in Enqueuing => node'[Me(u).new].value = node[Me(u).new].value
      BY <2>4, NewIsANode
    <3>4. QED
      BY <1>1, <2>1, <2>4, <3>2, <3>3 DEF ByValue, Serving
  <2>5. QED
    BY <2>2, <2>3, <2>4
<1>4. QED
  BY <1>2, <1>3 DEF CallViews

LEMMA FinishKeepsViews ==
  ASSUME Fc!RInv, QueueInv, NEW t \in Threads, NEW answer \in Int, Finish(t, answer),
         UNCHANGED node
  PROVE  CallViews'
<1>1. PICK d \in Structs : d = local[t].s
  BY ServesASide DEF Finish, Answer
<1>2. /\ \A s \in Structs : s # d => serial'[s] = serial[s]
      /\ serial'[d] = NotStarted /\ Serving(t) /\ Fc!Answer(t, answer)
  BY <1>1, FinishComes DEF Comes
<1>3. Fc!IInv /\ Fc!Answers(t) /\ Fc!FcStep(t)
  BY <1>2 DEF Fc!RInv, Fc!FcStep, Fc!Answers
<1>4. local'[t].pc = "clear" /\ local'[t].s = local[t].s /\ local'[t].value = local[t].value
  BY <1>3, FcAssumptions, Fc!ServeEffect
<1>5. \A u \in Threads : u # t =>
        local'[u].pc = local[u].pc /\ local'[u].s = local[u].s /\ local'[u].value = local[u].value
  BY <1>3, FcAssumptions, Fc!OthersStay DEF Fc!SameCall
<1>6. ASSUME NEW s \in Structs PROVE UnderLock(s)'
  <2>1. CASE s = d
    BY <1>2, <2>1 DEF UnderLock, NotStarted
  <2>2. CASE s # d /\ serial[s].at # "start"
    <3>1. PICK u \in Threads : local[u].s = s /\ Serving(u)
      BY <2>2 DEF QueueInv, UnderLock, Combining
    <3>2. u # t
      BY <1>1, <2>2, <3>1
    <3>3. Combining(s)'
      BY <1>5, <3>1, <3>2 DEF Combining, Serving
    <3>4. QED
      BY <1>2, <2>2, <3>3 DEF UnderLock
  <2>3. CASE s # d /\ serial[s].at = "start"
    BY <1>2, <2>3 DEF QueueInv, UnderLock, NotStarted
  <2>4. QED
    BY <2>1, <2>2, <2>3
<1>7. ASSUME NEW u \in Threads PROVE ByValue(u)'
  <2>1. ByValue(u)
    BY DEF QueueInv
  <2>2. CASE u = t
    BY <1>2, <1>4, <2>1, <2>2 DEF ByValue, Serving
  <2>3. CASE u # t /\ ~ Serving(u)
    BY <1>5, <2>1, <2>3 DEF ByValue, Serving
  <2>4. CASE u # t /\ Serving(u)
    <3>1. local[u].s \in Structs /\ local[u].s # d
      BY <1>1, <1>2, <2>4, ServesAlone, ServesASide
    <3>2. Me(u)' = Me(u)
      BY <1>2, <1>5, <2>4, <3>1 DEF Me
    <3>3. QED
      BY <1>5, <2>1, <2>4, <3>2 DEF ByValue, Serving
  <2>5. QED
    BY <2>2, <2>3, <2>4
<1>8. QED
  BY <1>6, <1>7 DEF CallViews

\* A step of the protocol is none of the serial operations; the one that
\* comes to serve a side finds it at rest.
LEMMA ProtocolKeepsInv ==
  ASSUME Fc!RInv, QueueInv, NEW t \in Threads, Protocol(t), UNCHANGED <<qVars, serial>>
  PROVE  Fc!RInv' /\ QueueData' /\ CallViews'
<1>1. Fc!Protocol(t) /\ Fc!FcStep(t) /\ Fc!FcNext /\ Fc!IInv /\ Fc!FcTypeOK
  BY SameProtocol DEF Fc!FcNext, Fc!FcStep, Fc!RInv, Fc!IInv
<1>2. Fc!RInv'
  BY <1>1, FcAssumptions, Fc!NextKeepsWait
<1>3. QueueData'
  BY DEF QueueData, QueueInv, qVars, QueueTypes, Linked, NullTogether, EnqueueView, DequeueView
<1>4. UNCHANGED <<node, first, last, serial>>
  BY DEF qVars
<1>5. ~ Serving(t)
  BY DEF Serving, Protocol, Invoke, TryLock, Wait, ReadHead, CasHead, StartRound, Scan, Clear,
         Unlock, Return
<1>6. \A u \in Threads : u # t =>
        local'[u].pc = local[u].pc /\ local'[u].s = local[u].s /\ local'[u].value = local[u].value
  BY <1>1, FcAssumptions, Fc!OthersStay DEF Fc!SameCall
<1>7. ASSUME NEW s \in Structs PROVE UnderLock(s)'
  <2>1. CASE serial[s].at # "start"
    <3>1. PICK u \in Threads : local[u].s = s /\ Serving(u)
      BY <2>1 DEF QueueInv, UnderLock, Combining
    <3>2. u # t
      BY <1>5, <3>1
    <3>3. Combining(s)'
      BY <1>6, <3>1, <3>2 DEF Combining, Serving
    <3>4. QED
      BY <1>4, <2>1, <3>3 DEF UnderLock
  <2>2. CASE serial[s].at = "start"
    BY <1>4, <2>2 DEF QueueInv, UnderLock
  <2>3. QED
    BY <2>1, <2>2
<1>8. ASSUME NEW u \in Threads, u # t PROVE ByValue(u)'
  <2>1. ByValue(u)
    BY DEF QueueInv
  <2>2. local[u].pc # "idle" => Me(u)' = Me(u)
    BY <1>4, <1>6, <1>8 DEF Me
  <2>3. QED
    BY <1>4, <1>6, <1>8, <2>1, <2>2 DEF ByValue, Serving
<1>9. ByValue(t)'
  <2>1. ByValue(t) /\ Fc!ThreadView(t)
    BY <1>1 DEF QueueInv, Fc!IInv
  <2>2. CASE \E s \in Structs : \E v \in Arguments[s] : Fc!Invoke(t, s, v)
    <3>1. PICK s \in Structs : \E v \in Arguments[s] : Fc!Begins(t, s, v)
      BY <1>1, <2>2, FcAssumptions, Fc!InvokeEffect
    <3>2. QED
      BY <3>1 DEF Fc!Begins, Fc!Moves, ByValue, Serving
  <2>3. CASE Fc!Return(t)
    BY <1>1, <2>3, FcAssumptions, Fc!ReturnEffect DEF Fc!Moves, ByValue, Serving
  <2>4. CASE Fc!Scan(t)
    <3>1. /\ local'[t].s = local[t].s /\ local'[t].value = local[t].value
          /\ local'[t].pc \in {"scan", "round", "serve"} /\ local[t].pc = "scan"
      BY <1>1, <2>4, FcAssumptions, Fc!ScanEffect DEF Fc!SameTask, Fc!SameWork, Fc!Moves
    <3>2. local[t].s \in Structs /\ local[t].holds
      BY <2>1, <3>1 DEF ByValue, Fc!ThreadView, Fc!HoldsToCombine, Fc!Combining
    <3>3. ~ Combining(local[t].s)
      <4>1. ASSUME NEW u \in Threads, local[u].s = local[t].s, Serving(u) PROVE FALSE
        <5>1. Fc!ThreadView(u) /\ Fc!OneCombiner
          BY <1>1 DEF Fc!IInv
        <5>2. local[u].holds
          BY <4>1, <5>1 DEF Fc!ThreadView, Fc!HoldsToCombine, Fc!Combining, Serving
        <5>3. u = t
          BY <3>2, <4>1, <5>1, <5>2 DEF Fc!OneCombiner, Fc!Callers
        <5>4. QED
          BY <1>5, <4>1, <5>3
      <4>2. QED
        BY <4>1 DEF Combining
    <3>4. serial[local[t].s].at = "start"
      BY <3>2, <3>3 DEF QueueInv, UnderLock
    <3>5. Me(t)'.at = "start"
      BY <1>4, <3>1, <3>4 DEF Me
    <3>6. QED
      BY <2>1, <3>1, <3>5 DEF ByValue, Enqueuing, Dequeuing
  <2>5. CASE Fc!TryLock(t) \/ Fc!Wait(t) \/ Fc!ReadHead(t) \/ Fc!CasHead(t) \/ Fc!StartRound(t)
               \/ Fc!Clear(t) \/ Fc!Unlock(t)
    <3>1. local[t].pc # "idle" /\ Fc!CallUnderWay(t) /\ Fc!ServesSomebody(t)
      BY <2>1, <2>5 DEF Fc!ThreadView, Fc!TryLock, Fc!Wait, Fc!ReadHead, Fc!CasHead, Fc!StartRound,
                        Fc!Clear, Fc!Unlock
    <3>2. local[t].s \in Structs
      BY <3>1 DEF Fc!CallUnderWay
    <3>3. Fc!Clear(t) => local[t].cur \in Threads
      BY <3>1 DEF Fc!ServesSomebody, Fc!Clear
    <3>4. local'[t].s = local[t].s /\ local'[t].value = local[t].value /\ local'[t].pc # "serve"
      BY <1>1, <2>5, <3>2, <3>3, FcAssumptions, Fc!TryLockEffect, Fc!WaitEffect,
         Fc!ReadHeadEffect, Fc!CasHeadEffect, Fc!StartRoundEffect, Fc!ClearEffect, Fc!UnlockEffect
         DEF Fc!SameTask, Fc!SameWork, Fc!Moves
    <3>5. QED
      BY <2>1, <3>1, <3>4 DEF ByValue, Serving
  <2>6. QED
    BY <1>1, <2>2, <2>3, <2>4, <2>5 DEF Fc!Protocol
<1>10. QED
  BY <1>2, <1>3, <1>7, <1>8, <1>9 DEF CallViews

-----------------------------------------------------------------------------
(***************************************************************************)
(* The invariant holds                                                     *)
(***************************************************************************)
\* Nobody dereferences NULL: last is not NULL when it is linked from, first
\* is not when there are several elements.
LEMMA SerialKeepsInv ==
  ASSUME Fc!RInv, QueueInv, NEW t \in Threads, Serial(t)
  PROVE  Fc!RInv' /\ QueueData' /\ CallViews'
<1>0. Serving(t)
  BY DEF Serial, NewNode, LookFirst, SetFirst, SetLast, LoadLast, StoreNext, MoveLast, DequeueStart,
         Compare, IsNull, Again, CompareAgain, TakeOnly, ClearLast, Reload, ClearFirst, TakeFirst,
         FirstAgain, LoadNext, MoveFirst, At
<1>a. PICK d \in Structs : d = local[t].s
  BY <1>0, ServesASide
<1>b. ASSUME UNCHANGED fcVars PROVE Fc!RInv'
  <2>1. Fc!FcNext
    BY <1>b DEF Fc!FcNext, fcVars, Fc!fcVars
  <2>2. QED
    BY <2>1, FcAssumptions, Fc!NextKeepsWait
<1>c. ASSUME NEW answer \in Int, Finish(t, answer), UNCHANGED node PROVE Fc!RInv' /\ CallViews'
  <2>1. Fc!FcNext
    BY <1>c, FinishComes
  <2>2. QED
    BY <1>c, <2>1, FinishKeepsViews, FcAssumptions, Fc!NextKeepsWait
<1>1. CASE \/ DequeueStart(t) \/ Compare(t) \/ (IsNull(t) /\ first # 0) \/ Again(t) \/ CompareAgain(t)
           \/ TakeOnly(t) \/ Reload(t) \/ TakeFirst(t) \/ FirstAgain(t) \/ LoadNext(t)
  <2>1. /\ QueueData' /\ UNCHANGED fcVars /\ serial'[d].at \in Dequeuing /\ Dequeues(t)
        /\ \A s \in Structs : s # local[t].s => serial'[s] = serial[s]
    BY <1>1, <1>a, NextKeepsDataReading
  <2>2. node' = node
    BY <1>1 DEF DequeueStart, Compare, IsNull, Again, CompareAgain, TakeOnly, Reload, TakeFirst,
                FirstAgain, LoadNext, Load, Branch, Crash, qVars
  <2>3. CallViews'
    BY <1>0, <1>a, <2>1, <2>2, SerialKeepsViews
  <2>4. QED
    BY <1>b, <2>1, <2>3
<1>2. CASE IsNull(t) /\ first = 0
  <2>1. QueueData' /\ Finish(t, -1) /\ UNCHANGED node
    BY <1>2, IsNullKeepsData DEF qVars
  <2>2. QED
    BY <1>c, <2>1
<1>3. CASE ClearLast(t)
  <2>1. /\ QueueData' /\ Dequeues(t) /\ UNCHANGED <<fcVars, node>>
        /\ Comes(t, "reload", Me(t).new, Me(t).ret, Me(t).ptr)
    BY <1>3, ClearLastKeepsData
  <2>2. serial'[d].at \in Dequeuing /\ \A s \in Structs : s # local[t].s => serial'[s] = serial[s]
    BY <1>a, <2>1 DEF Comes, Dequeuing, Clearing
  <2>3. CallViews'
    BY <1>0, <1>a, <2>1, <2>2, SerialKeepsViews
  <2>4. QED
    BY <1>b, <2>1, <2>3
<1>4. CASE ClearFirst(t)
  <2>1. QueueData' /\ Finish(t, node[first].value) /\ UNCHANGED node /\ node[first].value \in Int
    BY <1>4, ClearFirstKeepsData
  <2>2. QED
    BY <1>c, <2>1
<1>5. CASE MoveFirst(t)
  <2>1. QueueData' /\ Finish(t, node[first].value) /\ UNCHANGED node /\ node[first].value \in Int
    BY <1>5, MoveFirstKeepsData
  <2>2. QED
    BY <1>c, <2>1
<1>6. CASE NewNode(t)
  <2>1. /\ QueueData' /\ UNCHANGED fcVars /\ Enqueues(t)
        /\ node' = Append(node, [value |-> local[t].value, next |-> 0])
        /\ serial'["enqueue"].at \in Enqueuing /\ serial'["enqueue"].new = Len(node) + 1
        /\ \A s \in Structs : s # "enqueue" => serial'[s] = serial[s]
    BY <1>6, NewNodeKeepsData
  <2>2. d = "enqueue" /\ node \in Seq(Nodes)
    BY <1>a, <2>1, EnqueuesAlone DEF QueueInv, QueueTypes
  <2>3. /\ \A n \in 1..Len(node) : node'[n].value = node[n].value
        /\ node'[serial'[d].new].value = local[t].value
    <3> DEFINE item == [value |-> local[t].value, next |-> 0]
    <3>1. node' = Append(node, item) /\ item.value = local[t].value
      BY <2>1
    <3> HIDE DEF item
    <3>2. QED
      BY <2>1, <2>2, <3>1
  <2>4. UNCHANGED fcVars /\ QueueData'
    BY <2>1
  <2>5. CallViews'
    <3>1. \A s \in Structs : s # local[t].s => serial'[s] = serial[s]
      BY <1>a, <2>1, <2>2
    <3>2. Enqueues(t) /\ serial'[d].at \in Enqueuing /\ node'[serial'[d].new].value = local[t].value
      BY <2>1, <2>2, <2>3
    <3>3. QED
      BY <1>0, <1>a, <2>3, <2>4, <3>1, <3>2, SerialKeepsViews
  <2>6. QED
    BY <1>b, <2>4, <2>5
<1>7. CASE LookFirst(t) \/ SetFirst(t) \/ SetLast(t) \/ LoadLast(t) \/ StoreNext(t)
  <2>1. ASSUME StoreNext(t) PROVE Me(t).ptr # 0
    <3>1. Me(t).at = "storeNext"
      BY <2>1 DEF StoreNext, At
    <3>2. Me(t) = serial["enqueue"] /\ EnqueueView
      BY <1>0, <3>1, EnqueueKnows DEF Enqueuing
    <3>3. QED
      BY <3>1, <3>2 DEF EnqueueView, Enqueuing
  <2>2. /\ QueueData' /\ UNCHANGED fcVars /\ Enqueues(t)
        /\ serial["enqueue"].at \in Enqueuing /\ serial'["enqueue"].at \in Enqueuing
        /\ serial'["enqueue"].new = serial["enqueue"].new
        /\ \A s \in Structs : s # "enqueue" => serial'[s] = serial[s]
        /\ \A n \in 1..Len(node) : node'[n].value = node[n].value
    BY <1>7, <2>1, EnqueueStoresKeepData
  <2>3. d = "enqueue" /\ Me(t) = serial["enqueue"]
    BY <1>a, <2>2, EnqueuesAlone
  <2>4. node'[serial'[d].new].value = local[t].value
    <3>1. Me(t).new \in 1..Len(node)
      BY <1>0, <2>2, <2>3, NewIsANode
    <3>2. node[Me(t).new].value = local[t].value
      BY <1>0, <2>2, <2>3 DEF QueueInv, ByValue
    <3>3. QED
      BY <2>2, <2>3, <3>1, <3>2
  <2>5. CallViews'
    BY <1>0, <1>a, <2>2, <2>3, <2>4, SerialKeepsViews
  <2>6. QED
    BY <1>b, <2>2, <2>5
<1>8. CASE MoveLast(t)
  <2>1. QueueData' /\ Finish(t, 0) /\ UNCHANGED node
    BY <1>8, MoveLastKeepsData
  <2>2. QED
    BY <1>c, <2>1
<1>9. QED
  BY <1>1, <1>2, <1>3, <1>4, <1>5, <1>6, <1>7, <1>8 DEF Serial

LEMMA NextKeepsInv == Inv /\ [Next]_vars => Inv'
<1> SUFFICES ASSUME Inv, [Next]_vars, ~ clashed' PROVE Fc!RInv' /\ QueueInv'
  BY DEF Inv
<1>1. CASE UNCHANGED vars
  <2>1. UNCHANGED <<fcVars, node, first, last, serial, clashed>> /\ local' = local
    BY <1>1 DEF vars, qVars, fcVars
  <2>2. Fc!RInv /\ QueueInv
    BY <2>1 DEF Inv
  <2>3. Fc!RInv'
    <3>1. Fc!FcNext
      BY <2>1 DEF Fc!FcNext, fcVars, Fc!fcVars
    <3>2. QED
      BY <2>2, <3>1, FcAssumptions, Fc!NextKeepsWait
  <2>4. ~ Clash'
    BY <2>1, <2>2 DEF QueueInv, Clash, Queued, Combining, Serving, Dequeues
  <2>5. (QueueTypes /\ Linked /\ NullTogether /\ EnqueueView)'
    BY <2>1, <2>2 DEF QueueInv, QueueTypes, Linked, NullTogether, EnqueueView
  <2>6. \A s \in Structs : DequeueView(s)' /\ UnderLock(s)'
    BY <2>1, <2>2 DEF QueueInv, DequeueView, UnderLock, Combining, Serving
  <2>7. \A t \in Threads : ByValue(t)'
    BY <2>1, <2>2 DEF QueueInv, ByValue, Me, Serving
  <2>8. QED
    BY <2>3, <2>4, <2>5, <2>6, <2>7 DEF QueueInv
<1>2. ASSUME NEW t \in Threads, Step(t) PROVE Fc!RInv' /\ QueueInv'
  <2>1. ~ clashed /\ ~ Clash'
    BY <1>2 DEF Step
  <2>2. Fc!RInv /\ QueueInv
    BY <2>1 DEF Inv
  <2>3. Fc!RInv' /\ QueueData' /\ CallViews'
    BY <1>2, <2>2, SerialKeepsInv, ProtocolKeepsInv DEF Step
  <2>4. QED
    BY <2>1, <2>3 DEF QueueInv, QueueData, CallViews
<1>3. QED
  BY <1>1, <1>2 DEF Next, Terminating

LEMMA InitInv == Init => Inv
<1> SUFFICES ASSUME Init PROVE Fc!RInv /\ QueueInv
  BY DEF Inv
<1>1. Fc!RInv
  BY SameProtocol, FcAssumptions, Fc!InitWait DEF Init
<1>2. Prefill \in Seq(Nat \ {0})
  BY FcQueueAssumption
<1>3. \A t \in Threads : local[t].pc = "idle"
  BY DEF Init, FcInit, Idle
<1>4. /\ serial \in [Structs -> Serials]
      /\ \A s \in Structs : serial[s] = NotStarted /\ serial[s].at = "start" /\ serial[s].new = 0
  BY DEF Init, NotStarted, Serials
<1>5. /\ node \in Seq(Nodes) /\ Len(node) = Len(Prefill)
      /\ \A n \in 1..Len(node) : node[n].next =
           IF n < Len(Prefill) THEN n + 1 ELSE IF n = 1 THEN 1 ELSE 0
  <2> DEFINE next(n) == IF n < Len(Prefill) THEN n + 1 ELSE IF n = 1 THEN 1 ELSE 0
             item(n) == [value |-> Prefill[n], next |-> next(n)]
  <2>1. DOMAIN Prefill = 1..Len(Prefill) /\ Len(Prefill) \in Nat
    BY <1>2
  <2>2. \A n \in 1..Len(Prefill) : Prefill[n] \in Int /\ next(n) \in Nat
    BY <1>2
  <2>3. \A n \in 1..Len(Prefill) : item(n) \in Nodes /\ item(n).next = next(n)
    BY <2>2 DEF Nodes
  <2>4. node = [n \in 1..Len(Prefill) |-> item(n)]
    BY <2>1 DEF Init
  <2> HIDE DEF item
  <2>5. QED
    BY <2>1, <2>3, <2>4
<1>6. first = (IF Prefill = <<>> THEN 0 ELSE 1) /\ last = Len(Prefill) /\ Len(Prefill) \in Nat
      /\ (Prefill = <<>> <=> Len(Prefill) = 0)
  BY <1>2 DEF Init
<1>7. QueueTypes /\ Linked /\ NullTogether
  BY <1>4, <1>5, <1>6 DEF QueueTypes, Linked, NullTogether, Clearing
<1>8. EnqueueView /\ \A s \in Structs : DequeueView(s) /\ UnderLock(s)
  BY <1>4, <1>5, <1>6, Sides DEF EnqueueView, DequeueView, UnderLock, Enqueuing, Dequeuing, Clearing
<1>9. ~ Clash /\ \A t \in Threads : ByValue(t)
  BY <1>3, Sides DEF Clash, Combining, ByValue, Serving
<1>10. QED
  BY <1>1, <1>7, <1>8, <1>9 DEF QueueInv

LEMMA InvariantHolds == Spec => []Inv
  BY InitInv, NextKeepsInv, PTL DEF Spec

\* The two combiners work on first, last and the nodes between them at the
\* same time: a load of first, last or next can return the NULL that ends the
\* process only after both were at work on less than two elements, or both
\* dequeued, because an enqueuer combines with a value below 1.
THEOREM CrashesFollowAClash == Spec => []CrashOnlyAfterClash
<1>1. Inv => CrashOnlyAfterClash
  BY NobodyCrashed DEF Inv, CrashOnlyAfterClash
<1>2. QED
  BY <1>1, InvariantHolds, PTL

-----------------------------------------------------------------------------
(***************************************************************************)
(* Refinement: the two combiners together make one first-in first-out      *)
(* queue, until they clash.                                                *)
(***************************************************************************)
\* The queue that the nodes stand for.
LEMMA ElementsAre ==
  QueueInv =>
    /\ Elements \in Seq(Int) /\ Len(Elements) = Size /\ Size \in Nat
    /\ Elements = [i \in 1..Size |-> node[first + i - 1].value]
<1> SUFFICES ASSUME QueueInv
             PROVE  /\ Elements \in Seq(Int) /\ Len(Elements) = Size /\ Size \in Nat
                    /\ Elements = [i \in 1..Size |-> node[first + i - 1].value]
  OBVIOUS
<1>1. /\ Cardinality(Queued) = Size /\ Size \in Nat /\ first + Size - 1 <= Len(node)
      /\ Size > 0 => first \in 1..Len(node)
  BY QueuedIsInterval
<1>2. node \in Seq(Nodes) /\ Len(node) \in Nat /\ first \in Nat
  BY DEF QueueInv, QueueTypes
<1>3. Elements = [i \in 1..Size |-> node[first + i - 1].value]
  BY <1>1 DEF Elements
<1>4. \A i \in 1..Size : node[first + i - 1].value \in Int
  <2>1. ASSUME NEW i \in 1..Size PROVE node[first + i - 1].value \in Int
    <3>1. first + i - 1 \in 1..Len(node)
      BY <1>1, <1>2
    <3>2. node[first + i - 1] \in Nodes
      BY <1>2, <3>1
    <3>3. QED
      BY <3>2 DEF Nodes
  <2>2. QED
    BY <2>1
<1>5. Elements \in [1..Size -> Int]
  BY <1>3, <1>4
<1>6. Elements \in Seq(Int) /\ Len(Elements) = Size
  BY <1>1, <1>5
<1>7. QED
  BY <1>1, <1>3, <1>6

LEMMA ElementsThen == Inv /\ [Next]_vars /\ ~ clashed' =>
    /\ Elements' \in Seq(Int) /\ Len(Elements') = Size' /\ Size' \in Nat
    /\ \A i \in 1..Size' : Elements'[i] = node'[first' + i - 1].value
<1>1. (QueueInv => /\ Elements \in Seq(Int) /\ Len(Elements) = Size /\ Size \in Nat
                   /\ Elements = [i \in 1..Size |-> node[first + i - 1].value])'
  BY ElementsAre, PTL
<1>2. QED
  BY <1>1, NextKeepsInv DEF Inv

LEMMA ElementsNow == QueueInv =>
    /\ Elements \in Seq(Int) /\ Len(Elements) = Size /\ Size \in Nat
    /\ \A i \in 1..Size : Elements[i] = node[first + i - 1].value
    /\ first + Size - 1 <= Len(node) /\ (Size > 0 => first \in 1..Len(node))
  BY ElementsAre, QueuedIsInterval

\* One element behind, or without its first, a sequence is what Append or
\* Tail makes of it.
LEMMA Appended ==
  ASSUME NEW q \in Seq(Int), NEW r \in Seq(Int), NEW v \in Int, Len(r) = Len(q) + 1,
         \A i \in 1..Len(q) : r[i] = q[i], r[Len(r)] = v
  PROVE  r = Append(q, v)
<1>1. Append(q, v) \in Seq(Int) /\ Len(Append(q, v)) = Len(r)
  OBVIOUS
<1>2. \A i \in 1..Len(r) : r[i] = Append(q, v)[i]
  <2>1. ASSUME NEW i \in 1..Len(r) PROVE r[i] = Append(q, v)[i]
    <3>1. i \in 1..Len(q) \/ i = Len(q) + 1
      OBVIOUS
    <3>2. QED
      BY <3>1
  <2>2. QED
    BY <2>1
<1>3. QED
  BY <1>1, <1>2

LEMMA Dropped ==
  ASSUME NEW q \in Seq(Int), NEW r \in Seq(Int), Len(r) + 1 = Len(q),
         \A i \in 1..Len(r) : r[i] = q[i + 1]
  PROVE  r = Tail(q) /\ q # <<>> /\ Head(q) = q[1]
<1>1. q # <<>> /\ Head(q) = q[1] /\ Tail(q) \in Seq(Int) /\ Len(Tail(q)) = Len(r)
  OBVIOUS
<1>2. \A i \in 1..Len(r) : r[i] = Tail(q)[i]
  BY <1>1
<1>3. QED
  BY <1>1, <1>2

\* What Apply makes of a value of either kind.
LEMMA Applied ==
  ASSUME NEW s, NEW v \in Int, NEW q
  PROVE  /\ v >= 1 => Apply(s, v, q) = [object |-> Append(q, v), answer |-> 0]
         /\ v < 1 /\ q = <<>> => Apply(s, v, q) = [object |-> q, answer |-> -1]
         /\ v < 1 /\ q # <<>> => Apply(s, v, q) = [object |-> Tail(q), answer |-> Head(q)]
  BY DEF Apply

\* A store inside a serial operation does not show.
LEMMA QuietKeepsElements ==
  ASSUME Inv, [Next]_vars, ~ clashed, ~ clashed', Size' = Size, first' = first \/ Size = 0,
         \A n \in 1..Len(node) : node'[n].value = node[n].value
  PROVE  Elements' = Elements
<1>1. /\ Elements \in Seq(Int) /\ Len(Elements) = Size /\ Size \in Nat
      /\ \A i \in 1..Size : Elements[i] = node[first + i - 1].value
      /\ first + Size - 1 <= Len(node) /\ (Size > 0 => first \in 1..Len(node))
  BY ElementsNow DEF Inv
<1>2. /\ Elements' \in Seq(Int) /\ Len(Elements') = Size'
      /\ \A i \in 1..Size' : Elements'[i] = node'[first' + i - 1].value
  BY ElementsThen
<1>3. Len(node) \in Nat /\ first \in Nat
  BY DEF Inv, QueueInv, QueueTypes
<1>4. ASSUME NEW i \in 1..Size PROVE Elements'[i] = Elements[i]
  <2>1. first' = first /\ first + i - 1 \in 1..Len(node)
    BY <1>1, <1>3
  <2>2. QED
    BY <1>1, <1>2, <2>1
<1>5. QED
  BY <1>1, <1>2, <1>4

LEMMA AnswerRefines ==
  ASSUME Fc!RInv, Fc!RInv', QueueInv, NEW t \in Threads, NEW answer \in Int, Finish(t, answer),
         Apply(local[t].s, local[t].value, Elements) = [object |-> Elements', answer |-> answer]
  PROVE  Combined!Next
<1> DEFINE u == local[t].cur
<1>1. Fc!Answer(t, answer) /\ Fc!FcTypeOK'
  BY FinishComes DEF Fc!RInv, Fc!IInv
<1>2. /\ u \in Threads
      /\ Calls[u].phase = "busy" /\ Calls[u].s = local[t].s
      /\ Calls[t].phase \in {"busy", "done"}
      /\ Calls[t].s = local[t].s /\ Calls[t].value = local[t].value
      /\ Calls' = [Calls EXCEPT ![u] = [phase |-> "done", s |-> @.s, value |-> @.value,
                                        res |-> answer]]
  BY <1>1, FcAssumptions, Fc!AnswerShows, SameProtocol
<1>3. Calls[t] # Combined!Idle
  BY <1>2 DEF Combined!Idle
<1> DEFINE after == Apply(Calls[u].s, Calls[t].value, Elements)
<1>4. after.object = Elements' /\ after.answer = answer
  BY <1>2
<1> HIDE DEF after
<1>5. Calls' = [Calls EXCEPT ![u] = [phase |-> "done", s |-> @.s, value |-> @.value,
                                     res |-> after.answer]]
  BY <1>2, <1>4
<1>6. Combined!Serve(u, t)
  BY <1>2, <1>3, <1>4, <1>5 DEF Combined!Serve, after
<1>7. QED
  BY <1>2, <1>6 DEF Combined!Next

LEMMA SerialRefines ==
  ASSUME Inv, [Next]_vars, ~ clashed, ~ clashed', NEW t \in Threads, Serial(t)
  PROVE  Combined!Next \/ UNCHANGED Combined!vars
<1>1. Fc!RInv /\ QueueInv /\ Fc!RInv'
  BY SerialKeepsInv DEF Inv
<1>2. /\ Elements \in Seq(Int) /\ Len(Elements) = Size /\ Size \in Nat
      /\ \A i \in 1..Size : Elements[i] = node[first + i - 1].value
      /\ Elements' \in Seq(Int) /\ Len(Elements') = Size' /\ Size' \in Nat
      /\ \A i \in 1..Size' : Elements'[i] = node'[first' + i - 1].value
  BY <1>1, ElementsNow, ElementsThen
<1>3. first \in 0..Len(node) /\ last \in 0..Len(node) /\ Len(node) \in Nat
  BY <1>1 DEF QueueInv, QueueTypes
<1>4. serial["enqueue"].at \notin Enqueuing => serial["enqueue"].new = 0
  BY <1>1 DEF QueueInv, EnqueueView
<1>s. Size \in Nat /\ Size' \in Nat /\ first \in Nat /\ Len(node) \in Nat
  BY <1>2, <1>3
<1> DEFINE new == serial["enqueue"].new
<1>5. ASSUME Size' = Size, first' = first \/ Size = 0, UNCHANGED fcVars,
             \A n \in 1..Len(node) : node'[n].value = node[n].value
      PROVE  UNCHANGED Combined!vars
  <2>1. Calls' = Calls
    BY <1>5 DEF Calls, CallOf, fcVars
  <2>2. Elements' = Elements
    BY <1>5, QuietKeepsElements
  <2>3. QED
    BY <2>1, <2>2 DEF Combined!vars
<1>6. CASE \/ DequeueStart(t) \/ Compare(t) \/ (IsNull(t) /\ first # 0) \/ Again(t) \/ CompareAgain(t)
           \/ TakeOnly(t) \/ Reload(t) \/ TakeFirst(t) \/ FirstAgain(t) \/ LoadNext(t)
  <2>1. UNCHANGED qVars
    BY <1>6 DEF DequeueStart, Compare, IsNull, Again, CompareAgain, TakeOnly, Reload, TakeFirst,
                FirstAgain, LoadNext, Load, Branch, Crash
  <2>2. /\ QueueData' /\ UNCHANGED fcVars /\ serial'[local[t].s].at \in Dequeuing /\ Dequeues(t)
        /\ \A s \in Structs : s # local[t].s => serial'[s] = serial[s]
    BY <1>1, <1>6, NextKeepsDataReading
  <2>3. serial'["enqueue"].new = new
    <3>1. CASE local[t].s = "enqueue"
      <4>1. serial'["enqueue"].at \notin Enqueuing
        BY <2>2, <3>1 DEF Enqueuing, Dequeuing, Clearing
      <4>2. serial'["enqueue"].new = 0
        BY <2>2, <4>1 DEF QueueData, EnqueueView
      <4>3. serial["enqueue"].at \notin Enqueuing
        BY <1>1, <2>2, <3>1, DequeuesAlone
      <4>4. QED
        BY <1>4, <4>2, <4>3
    <3>2. CASE local[t].s # "enqueue"
      BY <2>2, <3>2, Sides
    <3>3. QED
      BY <3>1, <3>2
  <2>4. UNCHANGED <<node, first, last>>
    BY <2>1 DEF qVars
  <2>5. Size' = Size
    BY <2>3, <2>4 DEF Size
  <2>6. QED
    BY <1>5, <2>2, <2>4, <2>5
<1>7. CASE ClearLast(t)
  <2>1. /\ Comes(t, "reload", Me(t).new, Me(t).ret, Me(t).ptr)
        /\ Dequeues(t) /\ first # 0 /\ first = last /\ last' = 0
        /\ UNCHANGED <<fcVars, node, first>>
    BY <1>1, <1>7, ClearLastKeepsData
  <2>2. serial["enqueue"].at \notin Enqueuing
    BY <1>1, <1>3, <2>1, DequeuesAlone
  <2>3. new = 0 /\ serial'["enqueue"].new = 0
    BY <1>4, <2>1, <2>2, Sides DEF Comes, Me
  <2>4. Size' = Size
    BY <1>3, <2>1, <2>3 DEF Size
  <2>5. QED
    BY <1>5, <2>1, <2>4
<1>8. CASE LookFirst(t) \/ SetFirst(t) \/ SetLast(t) \/ LoadLast(t) \/ StoreNext(t)
  <2>1. ASSUME StoreNext(t) PROVE Me(t).ptr # 0
    <3>1. Me(t).at = "storeNext" /\ Serving(t)
      BY <2>1 DEF StoreNext, At
    <3>2. Me(t) = serial["enqueue"] /\ EnqueueView
      BY <1>1, <3>1, EnqueueKnows DEF Enqueuing
    <3>3. QED
      BY <3>1, <3>2 DEF EnqueueView, Enqueuing
  <2>2. /\ UNCHANGED fcVars /\ serial'["enqueue"].new = new
        /\ \A n \in 1..Len(node) : node'[n].value = node[n].value
        /\ (first' = first /\ last' = last) \/ first \in {0, new}
        /\ first' = first \/ first' = new
    BY <1>1, <1>8, <2>1, EnqueueStoresKeepData
  <2>3. Size' = Size /\ (first' = first \/ Size = 0)
    BY <2>2 DEF Size
  <2>4. QED
    BY <1>5, <2>2, <2>3
<1>9. CASE NewNode(t)
  <2> DEFINE item == [value |-> local[t].value, next |-> 0]
  <2>1. /\ UNCHANGED <<fcVars, first, last>> /\ node' = Append(node, item)
        /\ serial'["enqueue"].new = Len(node) + 1 /\ serial["enqueue"].at \notin Enqueuing
    BY <1>1, <1>9, NewNodeKeepsData DEF Enqueuing
  <2> HIDE DEF item
  <2>2. \A n \in 1..Len(node) : node'[n].value = node[n].value
    BY <1>1, <2>1 DEF QueueInv, QueueTypes
  <2>3. Size' = Size
    BY <1>3, <1>4, <2>1 DEF Size
  <2>4. QED
    BY <1>5, <2>1, <2>2, <2>3
<1>10. CASE IsNull(t) /\ first = 0
  <2>1. Finish(t, -1) /\ UNCHANGED <<node, first, last>> /\ Dequeues(t)
    BY <1>1, <1>10, IsNullKeepsData DEF qVars
  <2>2. Size = 0 /\ Size' = 0
    BY <1>10, <2>1 DEF Size
  <2>3. Elements = <<>> /\ Elements' = Elements
    BY <1>2, <2>2
  <2>4. Apply(local[t].s, local[t].value, Elements) = [object |-> Elements', answer |-> -1]
    BY <1>1, <2>1, <2>3, ServesASide, Applied DEF Dequeues
  <2>5. QED
    BY <1>1, <2>1, <2>4, AnswerRefines
<1>11. CASE ClearFirst(t) \/ MoveFirst(t)
  <2>1. /\ Dequeues(t) /\ Finish(t, node[first].value) /\ node[first].value \in Int
        /\ node' = node
    BY <1>1, <1>11, ClearFirstKeepsData, MoveFirstKeepsData
  <2>2. /\ Size' = Size - 1
        /\ first' = first + 1 \/ Size' = 0
    <3>1. CASE ClearFirst(t)
      <4>1. first # 0 /\ first \in Nat /\ last = 0 /\ first' = 0 /\ new = 0
        BY <1>1, <3>1, ClearFirstKeepsData
      <4>2. QED
        BY <4>1 DEF Size
    <3>2. CASE MoveFirst(t)
      <4>1. /\ first \in 1..Len(node) /\ first < last /\ last \in Nat /\ first' = first + 1
            /\ first # new /\ last' = last /\ Comes(t, "start", 0, 0, 0)
            /\ serial["enqueue"].at \in Enqueuing => first + 1 # new
        BY <1>1, <2>1, <3>2, MoveFirstKeepsData, FinishComes
      <4>2. serial'["enqueue"].new = new \/ serial'["enqueue"].new = 0
        BY <4>1, Sides DEF Comes
      <4>3. first' \notin {0, serial'["enqueue"].new}
        BY <1>3, <1>4, <4>1, <4>2
      <4>4. Size = last - first + 1 /\ Size' = last - first' + 1
        BY <1>3, <4>1, <4>3 DEF Size
      <4>5. QED
        BY <1>3, <4>1, <4>4
    <3>3. QED
      BY <1>11, <3>1, <3>2
  <2>3. Elements[1] = node[first].value
    <3>1. 1 \in 1..Size /\ first + 1 - 1 = first
      BY <1>s, <2>2
    <3>2. QED
      BY <1>2, <3>1
  <2>4. \A i \in 1..Size' : Elements'[i] = Elements[i + 1]
    <3>1. ASSUME NEW i \in 1..Size' PROVE Elements'[i] = Elements[i + 1]
      <4>1. i + 1 \in 1..Size /\ first' + i - 1 = first + (i + 1) - 1
        BY <1>s, <2>2
      <4>2. QED
        BY <1>2, <2>1, <4>1
    <3>2. QED
      BY <3>1
  <2>5. Elements' = Tail(Elements) /\ Elements # <<>> /\ Head(Elements) = node[first].value
    <3>1. Elements \in Seq(Int) /\ Elements' \in Seq(Int) /\ Len(Elements') + 1 = Len(Elements)
      BY <1>2, <1>s, <2>2
    <3>2. \A i \in 1..Len(Elements') : Elements'[i] = Elements[i + 1]
      BY <1>2, <2>4
    <3>3. Elements' = Tail(Elements) /\ Elements # <<>> /\ Head(Elements) = Elements[1]
      BY <3>1, <3>2, Dropped
    <3>4. QED
      BY <2>3, <3>3
  <2>6. Apply(local[t].s, local[t].value, Elements) = [object |-> Elements', answer |-> node[first].value]
    BY <1>1, <2>1, <2>5, ServesASide, Applied DEF Dequeues
  <2>7. QED
    BY <1>1, <2>1, <2>6, AnswerRefines
<1>12. CASE MoveLast(t)
  <2>1. /\ Enqueues(t) /\ UNCHANGED <<node, first>> /\ Finish(t, 0)
        /\ first # 0 /\ last # 0 /\ last' = Len(node) /\ Len(node) > 0
        /\ serial["enqueue"].at \in Enqueuing /\ new = Len(node)
        /\ first = Len(node) \/ (last = Len(node) - 1 /\ first <= last)
        /\ serial'["enqueue"].new = 0
    BY <1>1, <1>12, MoveLastKeepsData
  <2>2. Size' = Size + 1 /\ first + Size = Len(node)
    BY <1>3, <2>1 DEF Size
  <2>3. node[Len(node)].value = local[t].value /\ local[t].value \in Int /\ local[t].value >= 1
    <3>1. Serving(t) /\ Me(t) = serial["enqueue"]
      BY <1>1, <2>1, EnqueuesAlone DEF Enqueues
    <3>2. QED
      BY <1>1, <2>1, <3>1, ServesASide DEF QueueInv, ByValue, Enqueues
  <2>4. \A i \in 1..Size : Elements'[i] = Elements[i]
    <3>1. ASSUME NEW i \in 1..Size PROVE Elements'[i] = Elements[i]
      <4>1. i \in 1..Size' /\ first' + i - 1 = first + i - 1
        BY <1>s, <2>1, <2>2
      <4>2. QED
        BY <1>2, <2>1, <4>1
    <3>2. QED
      BY <3>1
  <2>5. Elements'[Size'] = local[t].value
    <3>1. Size' \in 1..Size' /\ first' + Size' - 1 = Len(node)
      BY <1>s, <2>1, <2>2
    <3>2. QED
      BY <1>2, <2>1, <2>3, <3>1
  <2>6. Elements' = Append(Elements, local[t].value)
    BY <1>2, <2>2, <2>3, <2>4, <2>5, Appended
  <2>7. Apply(local[t].s, local[t].value, Elements) = [object |-> Elements', answer |-> 0]
    BY <2>3, <2>6, Applied
  <2>8. QED
    BY <1>1, <2>1, <2>7, AnswerRefines
<1>13. QED
  BY <1>6, <1>7, <1>8, <1>9, <1>10, <1>11, <1>12 DEF Serial

LEMMA ProtocolRefines ==
  ASSUME Inv, [Next]_vars, ~ clashed, ~ clashed', NEW t \in Threads, Protocol(t),
         UNCHANGED <<qVars, serial>>
  PROVE  Combined!Next \/ UNCHANGED Combined!vars
<1>1. Fc!RInv /\ QueueInv /\ Fc!RInv'
  BY ProtocolKeepsInv DEF Inv
<1>2. Fc!FcTypeOK' /\ Calls = Fc!Calls /\ Calls' = Fc!Calls'
  BY <1>1, SameProtocol DEF Fc!RInv, Fc!IInv
<1>3. Elements' = Elements
  BY DEF qVars, Elements, Queued
<1>4. ASSUME NEW s \in Structs, NEW v \in Arguments[s], Fc!Invoke(t, s, v) PROVE Combined!Next
  BY <1>1, <1>2, <1>3, <1>4, FcAssumptions, Fc!InvokeShows
     DEF Combined!Next, Combined!Invoke, Combined!Idle
<1>5. CASE Fc!Return(t)
  BY <1>1, <1>2, <1>3, <1>5, FcAssumptions, Fc!ReturnShows
     DEF Combined!Next, Combined!Return, Combined!Idle
<1>6. CASE ~ Fc!Return(t) /\ \A s \in Structs : \A v \in Arguments[s] : ~ Fc!Invoke(t, s, v)
  <2>1. Fc!Protocol(t)
    BY SameProtocol
  <2>2. Calls' = Calls
    BY <1>1, <1>2, <1>6, <2>1, FcAssumptions, Fc!QuietSteps DEF Fc!Protocol
  <2>3. QED
    BY <1>3, <2>2 DEF Combined!vars
<1>7. QED
  BY <1>4, <1>5, <1>6

LEMMA NextRefines == Inv /\ [Next]_vars => [~ clashed' => [Combined!Next]_(Combined!vars)]_vars
<1> SUFFICES ASSUME Inv, [Next]_vars, ~ clashed', ~ UNCHANGED vars
             PROVE  Combined!Next \/ UNCHANGED Combined!vars
  OBVIOUS
<1>1. PICK t \in Threads : Step(t)
  BY DEF Next, Terminating
<1>2. ~ clashed
  BY <1>1 DEF Step
<1>3. QED
  BY <1>1, <1>2, SerialRefines, ProtocolRefines DEF Step

LEMMA InitRefines == Init => Combined!Init
<1> SUFFICES ASSUME Init PROVE Combined!Init
  OBVIOUS
<1>1. Prefill \in Seq(Nat \ {0})
  BY FcQueueAssumption
<1>2. QueueInv
  BY InitInv DEF Inv, Init
<1>3. /\ Elements \in Seq(Int) /\ Len(Elements) = Size /\ Size \in Nat
      /\ \A i \in 1..Size : Elements[i] = node[first + i - 1].value
  BY <1>2, ElementsNow
<1>4. serial["enqueue"].new = 0 /\ \A n \in 1..Len(Prefill) : node[n].value = Prefill[n]
  BY <1>1, Sides DEF Init, NotStarted
<1>5. Size = Len(Prefill)
  BY <1>1, <1>4 DEF Init, Size
<1>6. \A i \in 1..Size : Elements[i] = Prefill[i]
  <2>1. ASSUME NEW i \in 1..Size PROVE Elements[i] = Prefill[i]
    <3>1. first = 1 /\ first + i - 1 = i
      BY <1>1, <1>5, <2>1 DEF Init
    <3>2. QED
      BY <1>3, <1>4, <1>5, <3>1
  <2>2. QED
    BY <2>1
<1>7. Elements = Prefill
  <2>1. Prefill \in Seq(Int) /\ Len(Prefill) = Len(Elements)
    BY <1>1, <1>3, <1>5
  <2>2. \A i \in 1..Len(Elements) : Elements[i] = Prefill[i]
    BY <1>3, <1>6
  <2> DEFINE q == Elements
  <2>3. q \in Seq(Int) /\ Len(Prefill) = Len(q) /\ \A i \in 1..Len(q) : q[i] = Prefill[i]
    BY <1>3, <2>1, <2>2
  <2> HIDE DEF q
  <2>4. q = Prefill
    BY <2>1, <2>3
  <2>5. QED
    BY <2>4 DEF q
<1>8. \A t \in Threads : CallOf(t) = [phase |-> "idle"]
  BY DEF Init, FcInit, Idle, CallOf
<1>9. QED
  BY <1>7, <1>8 DEF Combined!Init, Combined!Idle, Calls

\* Whatever ints are enqueued: as long as they have not worked together on
\* less than two elements, nor dequeued at the same time, the combiners of the
\* two sides answer every call of enqueue and dequeue once, with the answer of
\* one serial operation on the queue that all earlier operations of both sides
\* left.
THEOREM OneQueueUntilClash == Spec => CombinesUntilClash
<1>1. Init => Combined!Init
  BY InitRefines
<1>2. Spec => [][~ clashed' => [Combined!Next]_(Combined!vars)]_vars
  BY NextRefines, InvariantHolds, PTL DEF Spec
<1>3. QED
  BY <1>1, <1>2 DEF Spec, CombinesUntilClash
=============================================================================
