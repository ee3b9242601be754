-------------------------- MODULE RingQueueProofs ---------------------------
(***************************************************************************)
(* Proofs about the ring of slots, for any set of threads, any capacity    *)
(* and any number of calls.  What keeps two threads out of one slot are    *)
(* the tickets: a thread owns the slot whose tail is its ticket, and the   *)
(* slot's head says whether its producer or its consumer.                  *)
(***************************************************************************)
EXTENDS RingQueue, TLAPS

Pcs == {"idle", "lookTail", "casTail", "publish", "lookHead", "casHead", "release", "size", "done"}
Mine(t) == slot[At(local[t].ticket)]

\* No slot is ready for a ticket a lap ahead of head, none shows a ticket that
\* was not handed out, and one that waits for its consumer shows its own.
SlotsInOrder == \A i \in Slots :
  /\ slot[i].tail < head + Capacity
  /\ slot[i].head < tail
  /\ slot[i].head >= head => slot[i].tail = slot[i].head

\* What a thread may rely on between its steps.  The slot it looked at is still
\* the same as long as nobody took its ticket.
ThreadView(t) ==
  LET k == local[t].ticket IN
  /\ local[t].pc \in {"lookTail", "casTail"} => k <= tail
  /\ local[t].pc \in {"lookHead", "casHead", "size"} => k <= head
  /\ local[t].pc = "casTail" /\ k = tail => Mine(t).tail = k
  /\ local[t].pc = "casHead" /\ k = head => Mine(t).head = k
  /\ local[t].pc = "publish" => k < tail /\ Mine(t).tail = k /\ Mine(t).head # k
  /\ local[t].pc = "release" => k < head /\ Mine(t).tail = k /\ Mine(t).head = k

TicketsDiffer == \A t, u \in Threads :
  t # u /\ Owns(t) /\ Owns(u) /\ local[t].pc = local[u].pc => local[t].ticket # local[u].ticket

IInv == TypeOK /\ WithinCapacity /\ SlotsInOrder /\ TicketsDiffer /\ \A t \in Threads : ThreadView(t)

-----------------------------------------------------------------------------
\* A ticket names a slot.
LEMMA AtIsSlot == \A k \in Nat : At(k) \in Slots
  BY RingQueueAssumption DEF At, Slots

\* Two threads that own slots own different ones: of one slot they would have
\* the same ticket, as producers, as consumers, or one of each.
LEMMA OwnersApart ==
  ASSUME IInv, NEW t \in Threads, NEW u \in Threads, t # u, Owns(t), Owns(u)
  PROVE  At(local[t].ticket) # At(local[u].ticket)
BY DEF IInv, TicketsDiffer, ThreadView, Mine, Owns

LEMMA InitInvariant == Init => IInv
<1> SUFFICES ASSUME Init PROVE IInv
  OBVIOUS
<1> USE RingQueueAssumption DEF Init
<1>1. TypeOK
  BY DEF TypeOK, Idle, Slots, NoTicket
<1>2. WithinCapacity
  BY DEF WithinCapacity
<1>3. SlotsInOrder
  BY DEF SlotsInOrder, Slots, NoTicket
<1>4. TicketsDiffer /\ \A t \in Threads : ThreadView(t)
  BY DEF TicketsDiffer, ThreadView, Owns, Idle
<1>5. QED
  BY <1>1, <1>2, <1>3, <1>4 DEF IInv

LocalFields == [pc : Pcs, ticket : Nat, res : BOOLEAN, count : Int, emptying : BOOLEAN]

\* A step of t that leaves the counters and the slots alone and does not make
\* it own a slot.
LEMMA LocalStep ==
  ASSUME IInv, NEW t \in Threads, UNCHANGED <<tail, head, slot>>,
         NEW me \in LocalFields, local' = [local EXCEPT ![t] = me],
         calls' \in [Threads -> 0..MaxCalls],
         ThreadView(t)', ~ Owns(t)'
  PROVE  IInv'
<1>1. local \in [Threads -> LocalFields]
  BY DEF IInv, TypeOK, LocalFields, Pcs
<1>2. \A u \in Threads \ {t} : local'[u] = local[u]
  BY <1>1
<1>3. TypeOK'
  BY <1>1 DEF IInv, TypeOK, LocalFields, Pcs
<1>4. WithinCapacity' /\ SlotsInOrder'
  BY DEF IInv, WithinCapacity, SlotsInOrder
<1>5. TicketsDiffer'
  BY <1>2 DEF IInv, TicketsDiffer, Owns
<1>6. ASSUME NEW u \in Threads PROVE ThreadView(u)'
  BY <1>2 DEF IInv, ThreadView, Mine
<1>7. QED
  BY <1>3, <1>4, <1>5, <1>6 DEF IInv

\* A thread reads, compares, fails or returns.
LEMMA QuietSteps ==
  ASSUME IInv, NEW t \in Threads,
         \/ Enqueue(t) \/ LookTail(t) \/ (CasTail(t) /\ UNCHANGED tail)
         \/ Dequeue(t) \/ LookHead(t) \/ (CasHead(t) /\ UNCHANGED head)
         \/ Return(t) \/ Size(t) \/ SizeTail(t)
  PROVE  IInv'
<1> USE DEF Goto, Take, Finish
<1> DEFINE me == local'[t]
<1>1. /\ local \in [Threads -> LocalFields] /\ tail \in Nat /\ head \in Nat
      /\ calls \in [Threads -> 0..MaxCalls] /\ MaxCalls \in Nat
  BY RingQueueAssumption DEF IInv, TypeOK, LocalFields, Pcs
<1>2. UNCHANGED <<tail, head, slot>>
  BY DEF Enqueue, LookTail, CasTail, Dequeue, LookHead, CasHead, Return, Size, SizeTail
<1>3. calls' \in [Threads -> 0..MaxCalls]
  <2>1. calls[t] \in 0..MaxCalls
    BY <1>1
  <2>2. calls' = calls \/ (calls[t] < MaxCalls /\ calls' = [calls EXCEPT ![t] = calls[t] + 1])
    BY <1>1 DEF Enqueue, LookTail, CasTail, Dequeue, LookHead, CasHead, Return, Size, SizeTail
  <2>3. QED
    BY <1>1, <2>1, <2>2
<1>4. local' = [local EXCEPT ![t] = me] /\ me \in LocalFields /\ ~ Owns(t)' /\ ThreadView(t)'
  <2>1. CASE Enqueue(t)
    <3>1. /\ local' = [local EXCEPT ![t] = me] /\ me \in LocalFields
          /\ me.pc = "lookTail" /\ me.ticket = tail
      BY <2>1, <1>1 DEF Enqueue, LocalFields, Pcs
    <3>2. QED
      BY <3>1, <1>1, <1>2 DEF Owns, ThreadView
  <2>2. CASE LookTail(t)
    BY <2>2, <1>1, <1>2 DEF LookTail, LocalFields, Pcs, Owns, ThreadView, Mine, IInv
  <2>3. CASE CasTail(t) /\ UNCHANGED tail
    BY <2>3, <1>1, <1>2 DEF CasTail, LocalFields, Pcs, Owns, ThreadView, Mine
  <2>4. CASE Dequeue(t)
    <3>1. /\ local' = [local EXCEPT ![t] = me] /\ me \in LocalFields
          /\ me.pc = "lookHead" /\ me.ticket = head
      <4>1. PICK e \in BOOLEAN : local' = [local EXCEPT
              ![t] = [Idle EXCEPT !.pc = "lookHead", !.ticket = head, !.emptying = e]]
        BY <2>4 DEF Dequeue
      <4>2. me = [Idle EXCEPT !.pc = "lookHead", !.ticket = head, !.emptying = e]
            /\ local' = [local EXCEPT ![t] = me]
        BY <4>1, <1>1
      <4> HIDE DEF me
      <4>3. me = [pc |-> "lookHead", ticket |-> head, res |-> FALSE, count |-> 0, emptying |-> e]
        BY <4>2 DEF Idle
      <4>4. me \in LocalFields /\ me.pc = "lookHead" /\ me.ticket = head
        BY <4>3, <1>1 DEF LocalFields, Pcs
      <4>5. QED
        BY <4>2, <4>4
    <3>2. QED
      BY <3>1, <1>1, <1>2 DEF Owns, ThreadView
  <2>5. CASE LookHead(t)
    BY <2>5, <1>1, <1>2 DEF LookHead, LocalFields, Pcs, Owns, ThreadView, Mine, IInv
  <2>6. CASE CasHead(t) /\ UNCHANGED head
    BY <2>6, <1>1, <1>2 DEF CasHead, LocalFields, Pcs, Owns, ThreadView, Mine
  <2>7. CASE Return(t)
    <3>1. /\ local' = [local EXCEPT ![t] = me] /\ me \in LocalFields
          /\ me.pc = "idle" \/ (me.pc = "lookHead" /\ me.ticket = head)
      <4>1. \/ me = Idle
            \/ me = [local[t] EXCEPT !.pc = "lookHead", !.ticket = head]
        BY <2>7, <1>1 DEF Return
      <4>2. local' = [local EXCEPT ![t] = me]
        BY <2>7, <1>1 DEF Return
      <4> HIDE DEF me
      <4>3. CASE me = Idle
        BY <4>2, <4>3 DEF Idle, LocalFields, Pcs
      <4>4. CASE me = [local[t] EXCEPT !.pc = "lookHead", !.ticket = head]
        <5>1. local[t] \in LocalFields
          BY <1>1
        <5>2. me \in LocalFields /\ me.pc = "lookHead" /\ me.ticket = head
          BY <4>4, <5>1, <1>1 DEF LocalFields, Pcs
        <5>3. QED
          BY <4>2, <5>2
      <4>5. QED
        BY <4>1, <4>3, <4>4
    <3>2. QED
      BY <3>1, <1>1, <1>2 DEF Owns, ThreadView
  <2>8. CASE Size(t)
    <3>1. /\ local' = [local EXCEPT ![t] = me] /\ me \in LocalFields
          /\ me.pc = "size" /\ me.ticket = head
      BY <2>8, <1>1 DEF Size, LocalFields, Pcs
    <3>2. QED
      BY <3>1, <1>1, <1>2 DEF Owns, ThreadView
  <2>9. CASE SizeTail(t)
    <3>1. /\ local' = [local EXCEPT ![t] = me] /\ me \in LocalFields
          /\ me.pc = "done"
      <4>1. me = [local[t] EXCEPT !.pc = "done", !.count = tail - local[t].ticket]
            /\ local' = [local EXCEPT ![t] = me]
        BY <2>9, <1>1 DEF SizeTail
      <4>2. tail - local[t].ticket \in Int
        BY <1>1 DEF LocalFields
      <4>3. QED
        BY <4>1, <4>2, <1>1 DEF LocalFields, Pcs
    <3>2. QED
      BY <3>1, <1>1, <1>2 DEF Owns, ThreadView
  <2>10. QED
    BY <2>1, <2>2, <2>3, <2>4, <2>5, <2>6, <2>7, <2>8, <2>9
<1>5. QED
  BY <1>2, <1>3, <1>4, LocalStep

\* A producer takes its ticket: the slot it looked at is still open, so the
\* ticket is less than a lap ahead of head.
LEMMA TakeTailStep ==
  ASSUME IInv, NEW t \in Threads, CasTail(t), tail' # tail
  PROVE  IInv'
<1> USE DEF IInv, Goto, Take
<1> DEFINE k == local[t].ticket
<1>1. /\ local \in [Threads -> LocalFields] /\ tail \in Nat /\ head \in Nat
      /\ slot \in [Slots -> [tail : Nat, head : Nat \cup {NoTicket}]]
      /\ Capacity \in Nat /\ NoTicket \in Int /\ At(k) \in Slots
  BY AtIsSlot, RingQueueAssumption DEF TypeOK, LocalFields, Pcs, NoTicket
<1>2. /\ k = tail /\ tail' = tail + 1 /\ local[t].pc = "casTail"
      /\ local' = [local EXCEPT ![t].pc = "publish"] /\ UNCHANGED <<head, slot, calls>>
  BY <1>1 DEF CasTail, TypeOK
<1>3. local'[t].pc = "publish" /\ local'[t].ticket = k /\ \A u \in Threads \ {t} : local'[u] = local[u]
  BY <1>1, <1>2 DEF LocalFields
<1>4. slot[At(k)].tail = k /\ slot[At(k)].head < k
  BY <1>1, <1>2 DEF ThreadView, Mine, SlotsInOrder
<1>5. TypeOK'
  BY <1>1, <1>2 DEF TypeOK
<1>6. WithinCapacity'
  BY <1>1, <1>2, <1>4 DEF WithinCapacity, SlotsInOrder
<1>7. SlotsInOrder'
  BY <1>1, <1>2 DEF SlotsInOrder
<1>8. TicketsDiffer'
  BY <1>1, <1>2, <1>3 DEF TicketsDiffer, ThreadView, Owns, LocalFields
<1>9. ThreadView(t)'
  BY <1>1, <1>2, <1>3, <1>4 DEF ThreadView, Mine
<1>10. ASSUME NEW u \in Threads \ {t} PROVE ThreadView(u)'
  BY <1>1, <1>2, <1>3 DEF ThreadView, Mine, LocalFields
<1>11. QED
  BY <1>5, <1>6, <1>7, <1>8, <1>9, <1>10

\* A consumer takes its ticket: the slot still shows it, so it was handed to a
\* producer who has left.
LEMMA TakeHeadStep ==
  ASSUME IInv, NEW t \in Threads, CasHead(t), head' # head
  PROVE  IInv'
<1> USE DEF IInv, Goto, Take
<1> DEFINE k == local[t].ticket
<1>1. /\ local \in [Threads -> LocalFields] /\ tail \in Nat /\ head \in Nat
      /\ slot \in [Slots -> [tail : Nat, head : Nat \cup {NoTicket}]]
      /\ Capacity \in Nat /\ NoTicket \in Int /\ At(k) \in Slots
  BY AtIsSlot, RingQueueAssumption DEF TypeOK, LocalFields, Pcs, NoTicket
<1>2. /\ k = head /\ head' = head + 1 /\ local[t].pc = "casHead"
      /\ local' = [local EXCEPT ![t].pc = "release"] /\ UNCHANGED <<tail, slot, calls>>
  BY <1>1 DEF CasHead, TypeOK
<1>3. local'[t].pc = "release" /\ local'[t].ticket = k /\ \A u \in Threads \ {t} : local'[u] = local[u]
  BY <1>1, <1>2 DEF LocalFields
<1>4. slot[At(k)].head = k /\ slot[At(k)].tail = k /\ k < tail
  BY <1>1, <1>2 DEF ThreadView, Mine, SlotsInOrder
<1>5. TypeOK'
  BY <1>1, <1>2 DEF TypeOK
<1>6. WithinCapacity'
  BY <1>1, <1>2, <1>4 DEF WithinCapacity
<1>7. SlotsInOrder'
  BY <1>1, <1>2 DEF SlotsInOrder
<1>8. TicketsDiffer'
  BY <1>1, <1>2, <1>3 DEF TicketsDiffer, ThreadView, Owns, LocalFields
<1>9. ThreadView(t)'
  BY <1>1, <1>2, <1>3, <1>4 DEF ThreadView, Mine
<1>10. ASSUME NEW u \in Threads \ {t} PROVE ThreadView(u)'
  BY <1>1, <1>2, <1>3 DEF ThreadView, Mine, LocalFields
<1>11. QED
  BY <1>5, <1>6, <1>7, <1>8, <1>9, <1>10

\* A producer shows its slot, or a consumer opens it for the next lap: the
\* slot is its own, so nobody else relies on what is overwritten.
LEMMA LeaveSlotStep ==
  ASSUME IInv, NEW t \in Threads, Publish(t) \/ Release(t)
  PROVE  IInv'
<1> USE DEF IInv, Finish
<1> DEFINE k == local[t].ticket
<1>1. /\ local \in [Threads -> LocalFields] /\ tail \in Nat /\ head \in Nat
      /\ slot \in [Slots -> [tail : Nat, head : Nat \cup {NoTicket}]]
      /\ Capacity \in Nat \ {0} /\ NoTicket \in Int /\ At(k) \in Slots /\ k \in Nat
  BY AtIsSlot, RingQueueAssumption DEF TypeOK, LocalFields, Pcs, NoTicket
<1>2. /\ local[t].pc \in {"publish", "release"} /\ UNCHANGED <<tail, head, calls>>
      /\ local' = [local EXCEPT ![t].pc = "done", ![t].res = TRUE]
  BY DEF Publish, Release
<1>3. /\ local'[t].pc = "done" /\ ~ Owns(t)' /\ \A u \in Threads \ {t} : local'[u] = local[u]
      /\ local' \in [Threads -> LocalFields]
  BY <1>1, <1>2 DEF LocalFields, Owns, Pcs
<1>4. \A i \in Slots : i # At(k) => slot'[i] = slot[i]
  BY <1>1 DEF Publish, Release
<1>5. \/ Publish(t) /\ slot'[At(k)].tail = k /\ slot'[At(k)].head = k
      \/ Release(t) /\ slot'[At(k)].tail = k + Capacity /\ slot'[At(k)].head = k
  BY <1>1 DEF Publish, Release, ThreadView, Mine
<1>6. slot[At(k)].tail = k /\ k < tail /\ (local[t].pc = "release" => k < head)
  BY <1>1, <1>2 DEF ThreadView, Mine, WithinCapacity
<1>7. slot' \in [Slots -> [tail : Nat, head : Nat \cup {NoTicket}]]
  BY <1>1 DEF Publish, Release
<1>8. TypeOK'
  BY <1>1, <1>2, <1>3, <1>7 DEF TypeOK, LocalFields, Pcs
<1>9. WithinCapacity'
  BY <1>2 DEF WithinCapacity
<1>10. SlotsInOrder'
  <2>1. ASSUME NEW i \in Slots, i # At(k)
        PROVE  /\ slot'[i].tail < head' + Capacity /\ slot'[i].head < tail'
               /\ slot'[i].head >= head' => slot'[i].tail = slot'[i].head
    BY <2>1, <1>2, <1>4 DEF SlotsInOrder
  <2>2. /\ slot'[At(k)].tail < head' + Capacity /\ slot'[At(k)].head < tail'
        /\ slot'[At(k)].head >= head' => slot'[At(k)].tail = slot'[At(k)].head
    <3>1. CASE Publish(t)
      BY <3>1, <1>1, <1>2, <1>5, <1>6 DEF SlotsInOrder, Publish, Release
    <3>2. CASE Release(t)
      BY <3>2, <1>1, <1>2, <1>5, <1>6 DEF Publish, Release
    <3>3. QED
      BY <3>1, <3>2
  <2>3. QED
    BY <2>1, <2>2 DEF SlotsInOrder
<1>11. TicketsDiffer'
  BY <1>3 DEF TicketsDiffer, Owns
<1>12. ThreadView(t)'
  BY <1>3 DEF ThreadView
<1>13. ASSUME NEW u \in Threads \ {t} PROVE ThreadView(u)'
  <2>1. local'[u] = local[u] /\ local[u].ticket \in Nat /\ At(local[u].ticket) \in Slots
        /\ ThreadView(u)
    BY <1>1, <1>3, AtIsSlot DEF LocalFields
  <2>2. CASE At(local[u].ticket) # At(k)
    BY <2>1, <2>2, <1>2, <1>4 DEF ThreadView, Mine
  <2>3. CASE At(local[u].ticket) = At(k)
    <3>1. ~ Owns(u)
      BY <2>3, <1>2, OwnersApart DEF Owns
    <3>2. local[u].pc = "casTail" => local[u].ticket # tail
      BY <2>1, <2>3, <1>1, <1>6 DEF ThreadView, Mine
    <3>3. local[u].pc = "casHead" /\ local[u].ticket = head => slot'[At(k)].head = head
      <4>1. SUFFICES ASSUME local[u].pc = "casHead", local[u].ticket = head
                     PROVE  slot'[At(k)].head = head
        OBVIOUS
      <4>2. slot[At(k)].head = head /\ slot[At(k)].tail = head
        BY <4>1, <2>1, <2>3, <1>1 DEF ThreadView, Mine, SlotsInOrder
      <4>3. QED
        BY <4>2, <1>5, <1>6
    <3>4. QED
      BY <2>1, <2>3, <3>1, <3>2, <3>3, <1>2 DEF ThreadView, Mine, Owns
  <2>4. QED
    BY <2>2, <2>3
<1>14. QED
  BY <1>8, <1>9, <1>10, <1>11, <1>12, <1>13

LEMMA NextKeepsInvariant == IInv /\ [Next]_vars => IInv'
<1> SUFFICES ASSUME IInv, [Next]_vars PROVE IInv'
  OBVIOUS
<1>1. ASSUME NEW t \in Threads, Step(t) PROVE IInv'
  <2>1. CASE CasTail(t)
    BY <2>1, QuietSteps, TakeTailStep
  <2>2. CASE CasHead(t)
    BY <2>2, QuietSteps, TakeHeadStep
  <2>3. CASE Publish(t) \/ Release(t)
    BY <2>3, LeaveSlotStep
  <2>4. CASE Enqueue(t) \/ LookTail(t) \/ Dequeue(t) \/ LookHead(t) \/ Return(t) \/ Size(t) \/ SizeTail(t)
    BY <2>4, QuietSteps
  <2>5. QED
    BY <1>1, <2>1, <2>2, <2>3, <2>4 DEF Step
<1>2. CASE UNCHANGED vars
  BY <1>2 DEF vars, IInv, TypeOK, WithinCapacity, SlotsInOrder, TicketsDiffer, ThreadView, Mine, Owns
<1>3. QED
  BY <1>1, <1>2 DEF Next, Terminating

\* What the other theorems rest on.
THEOREM InductiveInvariant == Spec => []IInv
  BY InitInvariant, NextKeepsInvariant, PTL DEF Spec

\* The counters, slots and locals keep their types: tickets are never negative.
THEOREM TypeCorrect == Spec => []TypeOK
  BY InductiveInvariant, PTL DEF IInv

\* No two threads are ever in one slot (the code between the CAS and the store
\* of enqueue and of dequeue), whatever the capacity and however many laps.
THEOREM SlotsAreExclusive == Spec => []SlotExclusive
<1>1. IInv => SlotExclusive
  BY OwnersApart DEF SlotExclusive
<1>2. QED
  BY <1>1, InductiveInvariant, PTL

\* _tail never runs more than a lap ahead of _head, and never behind it.
THEOREM NeverOverfull == Spec => []WithinCapacity
  BY InductiveInvariant, PTL DEF IInv

\* size() never wraps round, and answers at least what the ring holds.
THEOREM SizesAreHonest == Spec => SizeIsHonest
<1>1. IInv /\ [Next]_vars => [\A t \in Threads :
        local[t].pc = "size" /\ local'[t].pc = "done" =>
          local'[t].count >= 0 /\ local'[t].count >= tail - head]_vars
  <2> SUFFICES ASSUME IInv, Next, NEW t \in Threads,
                      local[t].pc = "size", local'[t].pc = "done"
               PROVE  local'[t].count >= 0 /\ local'[t].count >= tail - head
    BY DEF vars
  <2>1. local \in [Threads -> LocalFields]
    BY DEF IInv, TypeOK, LocalFields, Pcs
  <2>2. PICK u \in Threads : Step(u)
    BY DEF Next, Terminating, vars
  <2>3. u = t
    BY <2>1, <2>2 DEF Step, Enqueue, LookTail, CasTail, Publish, Dequeue, LookHead,
                      CasHead, Release, Return, Size, SizeTail, Goto, Take, Finish
  <2>4. SizeTail(t)
    BY <2>2, <2>3 DEF Step, Enqueue, LookTail, CasTail, Publish, Dequeue, LookHead,
                      CasHead, Release, Return, Size
  <2>5. local'[t].count = tail - local[t].ticket
    BY <2>1, <2>4 DEF SizeTail, LocalFields
  <2>6. local[t].ticket \in Nat /\ local[t].ticket <= head /\ head <= tail /\ head \in Nat /\ tail \in Nat
    BY <2>1 DEF IInv, TypeOK, ThreadView, WithinCapacity, LocalFields
  <2>7. QED
    BY <2>5, <2>6
<1>2. QED
  BY <1>1, InductiveInvariant, PTL DEF Spec, SizeIsHonest

\* Types, ownership of slots and capacity together.
THEOREM RingStaysSound == Spec => []RingIsSound
<1>1. TypeOK /\ SlotExclusive /\ WithinCapacity => RingIsSound
  BY DEF RingIsSound
<1>2. QED
  BY <1>1, TypeCorrect, SlotsAreExclusive, NeverOverfull, PTL

-----------------------------------------------------------------------------
(***************************************************************************)
(* Refusals: every ticket that is out is accounted for by its slot or by   *)
(* the thread that still works on it.                                      *)
(***************************************************************************)
\* Division with a remainder is unique.
LEMMA OneQuotient ==
  ASSUME NEW C \in Nat \ {0}, NEW q \in Int, NEW p \in Int, NEW r \in 0..(C - 1),
         NEW s \in 0..(C - 1), C * q + r = C * p + s
  PROVE  q = p
<1>1. CASE q > p
  <2>1. C * q >= C * p + C
    BY <1>1, SMTT(20)
  <2>2. QED
    BY <2>1
<1>2. CASE q < p
  <2>1. C * p >= C * q + C
    BY <1>2, SMTT(20)
  <2>2. QED
    BY <2>1
<1>3. QED
  BY <1>1, <1>2

LEMMA Divided ==
  ASSUME NEW C \in Nat \ {0}, NEW k \in Nat
  PROVE  k % C \in 0..(C - 1) /\ k = C * (k \div C) + (k % C) /\ k \div C \in Int
BY SMTT(20)

\* The first lap goes through the slots in order, every other like the one before.
LEMMA Laps ==
  /\ \A k \in Slots : At(k) = k
  /\ \A k \in Nat : At(k + Capacity) = At(k)
<1> DEFINE C == Capacity
<1>0. C \in Nat \ {0}
  BY RingQueueAssumption
<1>1. ASSUME NEW k \in Slots PROVE At(k) = k
  <2>1. k \in Nat /\ k < C
    BY <1>0 DEF Slots
  <2> HIDE DEF C
  <2>2. k % C = k
    BY <1>0, <2>1, SMTT(20)
  <2>3. QED
    BY <2>2 DEF C, At
<1>2. ASSUME NEW k \in Nat PROVE At(k + Capacity) = At(k)
  <2> HIDE DEF C
  <2>0. k + C \in Nat
    BY <1>0
  <2>1. k % C \in 0..(C - 1) /\ k = C * (k \div C) + (k % C) /\ k \div C \in Int
    BY <1>0, Divided
  <2>2. /\ (k + C) % C \in 0..(C - 1) /\ k + C = C * ((k + C) \div C) + ((k + C) % C)
        /\ (k + C) \div C \in Int
    BY <1>0, <2>0, Divided
  <2>3. k + C = C * ((k \div C) + 1) + (k % C)
    BY <1>0, <2>1
  <2> DEFINE a == (k + C) \div C
             b == (k \div C) + 1
             r == (k + C) % C
             s == k % C
  <2>4. /\ a \in Int /\ b \in Int /\ r \in 0..(C - 1) /\ s \in 0..(C - 1)
        /\ C * a + r = C * b + s
    BY <2>1, <2>2, <2>3
  <2> HIDE DEF a, b, r, s
  <2>5. a = b
    BY <1>0, <2>4, OneQuotient
  <2>6. C * a = C * b /\ C * a \in Int
    BY <1>0, <2>4, <2>5
  <2>7. r = s
    BY <1>0, <2>4, <2>6
  <2>8. QED
    BY <2>7 DEF r, s, C, At
<1>3. QED
  BY <1>1, <1>2

Publishes(u, k) == local[u].pc = "publish" /\ local[u].ticket = k
Releases(u, k) == local[u].pc = "release" /\ local[u].ticket + Capacity = k

\* A ticket between head and tail has its slot, and the element is there or
\* its producer is at work; a ticket of the lap ahead finds its slot open, or
\* the consumer of the lap before is still in it.
TicketsAccounted ==
  /\ \A k \in Nat : head <= k /\ k < tail =>
       slot[At(k)].tail = k /\ (slot[At(k)].head = k \/ \E u \in Threads : Publishes(u, k))
  /\ \A k \in Nat : tail <= k /\ k < head + Capacity =>
       slot[At(k)].tail = k \/ \E u \in Threads : Releases(u, k)

AccountedInv == IInv /\ TicketsAccounted

LEMMA AccountedAtFirst == Init => TicketsAccounted
<1> SUFFICES ASSUME Init PROVE TicketsAccounted
  OBVIOUS
<1>1. ASSUME NEW k \in Nat, k < Capacity PROVE slot[At(k)].tail = k
  <2>1. k \in Slots /\ At(k) = k
    BY <1>1, RingQueueAssumption, Laps DEF Slots
  <2>2. QED
    BY <2>1 DEF Init
<1>2. QED
  BY <1>1, RingQueueAssumption DEF Init, TicketsAccounted

\* A step that leaves the counters and the slots alone keeps the threads at
\* work in their slots.
LEMMA QuietKeepsAccounts ==
  ASSUME AccountedInv, UNCHANGED <<tail, head, slot>>,
         \A u \in Threads : Owns(u) => local'[u] = local[u]
  PROVE  TicketsAccounted'
<1>1. \A u \in Threads, k \in Nat :
        (Publishes(u, k) => Publishes(u, k)') /\ (Releases(u, k) => Releases(u, k)')
  BY DEF Publishes, Releases, Owns
<1>2. QED
  BY <1>1 DEF AccountedInv, TicketsAccounted

\* The slot a producer has found open is now its own.
LEMMA TakeTailKeepsAccounts ==
  ASSUME AccountedInv, NEW t \in Threads, CasTail(t), tail' # tail
  PROVE  TicketsAccounted'
<1> USE DEF AccountedInv, IInv, Goto, Take
<1>1. /\ local \in [Threads -> LocalFields] /\ tail \in Nat /\ head \in Nat /\ Capacity \in Nat
      /\ tail = local[t].ticket /\ tail' = tail + 1 /\ local[t].pc = "casTail"
      /\ local' = [local EXCEPT ![t].pc = "publish"] /\ UNCHANGED <<head, slot>>
  BY RingQueueAssumption DEF CasTail, TypeOK, LocalFields, Pcs
<1>2. slot[At(tail)].tail = tail
  BY <1>1 DEF ThreadView, Mine
<1>3. \A k \in Nat : k = tail => Publishes(t, k)'
  <2>1. local'[t].pc = "publish" /\ local'[t].ticket = local[t].ticket
    BY <1>1 DEF LocalFields
  <2>2. local'[t].ticket = tail
    BY <1>1, <2>1
  <2>3. QED
    BY <1>1, <2>1, <2>2 DEF Publishes
<1>4. \A u \in Threads, k \in Nat :
        (Publishes(u, k) => Publishes(u, k)') /\ (Releases(u, k) => Releases(u, k)')
  BY <1>1 DEF Publishes, Releases, LocalFields
<1>5. QED
  BY <1>1, <1>2, <1>3, <1>4 DEF TicketsAccounted

\* The oldest element's slot is its consumer's; it will be the one of the
\* ticket that comes into reach.
LEMMA TakeHeadKeepsAccounts ==
  ASSUME AccountedInv, NEW t \in Threads, CasHead(t), head' # head
  PROVE  TicketsAccounted'
<1> USE DEF AccountedInv, IInv, Goto, Take
<1>1. /\ local \in [Threads -> LocalFields] /\ tail \in Nat /\ head \in Nat
      /\ Capacity \in Nat \ {0}
      /\ head = local[t].ticket /\ head' = head + 1 /\ local[t].pc = "casHead"
      /\ local' = [local EXCEPT ![t].pc = "release"] /\ UNCHANGED <<tail, slot>>
  BY RingQueueAssumption DEF CasHead, TypeOK, LocalFields, Pcs
<1>2. \A k \in Nat : k = head + Capacity => Releases(t, k)'
  <2>1. local'[t].pc = "release" /\ local'[t].ticket = local[t].ticket
    BY <1>1 DEF LocalFields
  <2>2. local'[t].ticket = head
    BY <1>1, <2>1
  <2>3. QED
    BY <1>1, <2>1, <2>2 DEF Releases
<1>3. \A u \in Threads, k \in Nat :
        (Publishes(u, k) => Publishes(u, k)') /\ (Releases(u, k) => Releases(u, k)')
  BY <1>1 DEF Publishes, Releases, LocalFields
<1>4. ASSUME NEW k \in Nat, head' <= k, k < tail'
      PROVE  slot'[At(k)].tail = k /\ (slot'[At(k)].head = k \/ \E u \in Threads : Publishes(u, k)')
  BY <1>1, <1>3, <1>4 DEF TicketsAccounted
<1>5. ASSUME NEW k \in Nat, tail' <= k, k < head' + Capacity
      PROVE  slot'[At(k)].tail = k \/ \E u \in Threads : Releases(u, k)'
  <2>1. CASE k = head + Capacity
    BY <1>2, <2>1
  <2>2. CASE k # head + Capacity
    <3>1. tail <= k /\ k < head + Capacity
      BY <1>1, <1>5, <2>2
    <3>2. QED
      BY <1>1, <1>3, <3>1 DEF TicketsAccounted
  <2>3. QED
    BY <2>1, <2>2
<1>6. QED
  BY <1>4, <1>5 DEF TicketsAccounted

\* A producer leaves its slot, and its element is there.
LEMMA PublishKeepsAccounts ==
  ASSUME AccountedInv, NEW t \in Threads, Publish(t)
  PROVE  TicketsAccounted'
<1> USE DEF AccountedInv, IInv, Finish
<1> DEFINE m == local[t].ticket
<1>1. /\ local \in [Threads -> LocalFields] /\ tail \in Nat /\ head \in Nat
      /\ slot \in [Slots -> [tail : Nat, head : Nat \cup {NoTicket}]]
      /\ m \in Nat /\ At(m) \in Slots /\ local[t].pc = "publish"
      /\ slot' = [slot EXCEPT ![At(m)].head = m] /\ UNCHANGED <<tail, head>>
  BY AtIsSlot, RingQueueAssumption DEF Publish, TypeOK, LocalFields, Pcs
<1>2. \A u \in Threads \ {t} : local'[u] = local[u]
  BY <1>1 DEF Publish
<1>3. slot[At(m)].tail = m
  BY <1>1 DEF ThreadView, Mine
<1>4. \A i \in Slots : slot'[i].tail = slot[i].tail /\ (i # At(m) => slot'[i].head = slot[i].head)
  BY <1>1
<1>5. slot'[At(m)].head = m
  BY <1>1
<1>6. ASSUME NEW k \in Nat, head <= k, k < tail
      PROVE  slot'[At(k)].tail = k /\ (slot'[At(k)].head = k \/ \E u \in Threads : Publishes(u, k)')
  <2>1. /\ At(k) \in Slots /\ slot[At(k)].tail = k
        /\ slot[At(k)].head = k \/ \E u \in Threads : Publishes(u, k)
    BY <1>6, AtIsSlot DEF TicketsAccounted
  <2>2. CASE k = m
    BY <1>4, <1>5, <2>1, <2>2
  <2>3. CASE k # m
    <3>1. At(k) # At(m)
      BY <1>3, <2>1, <2>3
    <3>2. \A u \in Threads : Publishes(u, k) => Publishes(u, k)'
      BY <1>2, <2>3 DEF Publishes
    <3>3. QED
      BY <1>4, <2>1, <3>1, <3>2
  <2>4. QED
    BY <2>2, <2>3
<1>7. ASSUME NEW k \in Nat, tail <= k, k < head + Capacity
      PROVE  slot'[At(k)].tail = k \/ \E u \in Threads : Releases(u, k)'
  <2>1. At(k) \in Slots /\ (slot[At(k)].tail = k \/ \E u \in Threads : Releases(u, k))
    BY <1>7, AtIsSlot DEF TicketsAccounted
  <2>2. \A u \in Threads : Releases(u, k) => Releases(u, k)'
    BY <1>1, <1>2 DEF Releases
  <2>3. QED
    BY <1>4, <2>1, <2>2
<1>8. QED
  BY <1>1, <1>6, <1>7 DEF TicketsAccounted

\* A consumer leaves its slot open for the ticket of the next lap.
LEMMA ReleaseKeepsAccounts ==
  ASSUME AccountedInv, NEW t \in Threads, Release(t)
  PROVE  TicketsAccounted'
<1> USE DEF AccountedInv, IInv, Finish
<1> DEFINE m == local[t].ticket
<1>1. /\ local \in [Threads -> LocalFields] /\ tail \in Nat /\ head \in Nat
      /\ slot \in [Slots -> [tail : Nat, head : Nat \cup {NoTicket}]]
      /\ Capacity \in Nat \ {0}
      /\ m \in Nat /\ At(m) \in Slots /\ local[t].pc = "release"
      /\ slot' = [slot EXCEPT ![At(m)].tail = m + Capacity] /\ UNCHANGED <<tail, head>>
  BY AtIsSlot, RingQueueAssumption DEF Release, TypeOK, LocalFields, Pcs
<1>2. \A u \in Threads \ {t} : local'[u] = local[u]
  BY <1>1 DEF Release
<1>3. slot[At(m)].tail = m /\ m < head
  BY <1>1 DEF ThreadView, Mine
<1>4. /\ \A i \in Slots : slot'[i].head = slot[i].head /\ (i # At(m) => slot'[i].tail = slot[i].tail)
      /\ slot'[At(m)].tail = m + Capacity
  BY <1>1
<1>5. ASSUME NEW k \in Nat, head <= k, k < tail
      PROVE  slot'[At(k)].tail = k /\ (slot'[At(k)].head = k \/ \E u \in Threads : Publishes(u, k)')
  <2>1. /\ At(k) \in Slots /\ slot[At(k)].tail = k
        /\ slot[At(k)].head = k \/ \E u \in Threads : Publishes(u, k)
    BY <1>5, AtIsSlot DEF TicketsAccounted
  <2>2. At(k) # At(m)
    BY <1>1, <1>3, <1>5, <2>1
  <2>3. \A u \in Threads : Publishes(u, k) => Publishes(u, k)'
    BY <1>1, <1>2 DEF Publishes
  <2>4. QED
    BY <1>4, <2>1, <2>2, <2>3
<1>6. ASSUME NEW k \in Nat, tail <= k, k < head + Capacity
      PROVE  slot'[At(k)].tail = k \/ \E u \in Threads : Releases(u, k)'
  <2>1. At(k) \in Slots /\ (slot[At(k)].tail = k \/ \E u \in Threads : Releases(u, k))
    BY <1>6, AtIsSlot DEF TicketsAccounted
  <2>2. CASE k = m + Capacity
    BY <1>1, <1>4, <2>2, Laps
  <2>3. CASE k # m + Capacity
    <3>1. \A u \in Threads : Releases(u, k) => Releases(u, k)'
      BY <1>1, <1>2, <2>3 DEF Releases
    <3>2. ASSUME slot[At(k)].tail = k, At(k) = At(m) PROVE FALSE
      <4>1. k = m
        BY <1>3, <3>2
      <4>2. k >= head
        BY <1>1, <1>6 DEF WithinCapacity
      <4>3. QED
        BY <1>1, <1>3, <4>1, <4>2
    <3>3. QED
      BY <1>4, <2>1, <3>1, <3>2
  <2>4. QED
    BY <2>2, <2>3
<1>7. QED
  BY <1>1, <1>5, <1>6 DEF TicketsAccounted

LEMMA NextKeepsAccounts == AccountedInv /\ [Next]_vars => AccountedInv'
<1> SUFFICES ASSUME AccountedInv, [Next]_vars PROVE AccountedInv'
  OBVIOUS
<1>1. IInv /\ local \in [Threads -> LocalFields]
  BY DEF AccountedInv, IInv, TypeOK, LocalFields, Pcs
<1>2. IInv'
  BY <1>1, NextKeepsInvariant
<1>3. CASE UNCHANGED vars
  <2>1. TicketsAccounted'
    BY <1>3, QuietKeepsAccounts DEF vars
  <2>2. QED
    BY <1>2, <2>1 DEF AccountedInv
<1>4. ASSUME NEW t \in Threads, Step(t) PROVE TicketsAccounted'
  <2>1. CASE \/ Enqueue(t) \/ LookTail(t) \/ (CasTail(t) /\ UNCHANGED tail)
             \/ Dequeue(t) \/ LookHead(t) \/ (CasHead(t) /\ UNCHANGED head)
             \/ Return(t) \/ Size(t) \/ SizeTail(t)
    <3>1. UNCHANGED <<tail, head, slot>> /\ ~ Owns(t)
      BY <2>1 DEF Enqueue, LookTail, CasTail, Dequeue, LookHead, CasHead, Return, Size, SizeTail, Owns
    <3>2. \A u \in Threads \ {t} : local'[u] = local[u]
      BY <1>1, <2>1 DEF Enqueue, LookTail, CasTail, Dequeue, LookHead, CasHead, Return, Size,
                        SizeTail, Goto, Take, Finish
    <3>3. QED
      BY <3>1, <3>2, QuietKeepsAccounts
  <2>2. CASE (CasTail(t) /\ tail' # tail) \/ (CasHead(t) /\ head' # head)
    BY <2>2, TakeTailKeepsAccounts, TakeHeadKeepsAccounts
  <2>3. CASE Publish(t) \/ Release(t)
    BY <2>3, PublishKeepsAccounts, ReleaseKeepsAccounts
  <2>4. QED
    BY <1>4, <2>1, <2>2, <2>3 DEF Step
<1>5. QED
  BY <1>2, <1>3, <1>4 DEF Next, Terminating, AccountedInv

\* A refusal is a look at the slot that did not show the ticket.
LEMMA WhoStepped ==
  ASSUME IInv, Next, NEW t \in Threads, local'[t].pc = "done"
  PROVE  /\ local \in [Threads -> LocalFields]
         /\ local[t].pc = "lookTail" => LookTail(t)
         /\ local[t].pc = "lookHead" => LookHead(t)
<1>1. local \in [Threads -> LocalFields]
  BY DEF IInv, TypeOK, LocalFields, Pcs
<1>2. CASE UNCHANGED vars
  BY <1>1, <1>2 DEF vars
<1>3. ASSUME NEW u \in Threads, Step(u), local[t].pc \in {"lookTail", "lookHead"}
      PROVE  (local[t].pc = "lookTail" => LookTail(t)) /\ (local[t].pc = "lookHead" => LookHead(t))
  <2>1. u = t
    BY <1>1, <1>3 DEF Step, Enqueue, LookTail, CasTail, Publish, Dequeue, LookHead,
                      CasHead, Release, Return, Size, SizeTail, Goto, Take, Finish
  <2>2. QED
    BY <1>3, <2>1 DEF Step, Enqueue, LookTail, CasTail, Publish, Dequeue, LookHead,
                      CasHead, Release, Return, Size, SizeTail
<1>4. QED
  BY <1>1, <1>2, <1>3 DEF Next, Terminating

\* A refusal always has its reason: the ring is full or empty, another thread
\* is still in the slot, or the ticket was used up meanwhile.
THEOREM RefusalsHaveReasons == Spec => RefusalsAreHonest
<1>1. ASSUME AccountedInv, Next, NEW t \in Threads,
             local[t].pc = "lookTail", local'[t].pc = "done"
      PROVE  \/ tail = head + Capacity
             \/ \E u \in Threads :
                  local[u].pc = "release" /\ local[u].ticket + Capacity = local[t].ticket
             \/ local[t].ticket < head
  <2> DEFINE k == local[t].ticket
  <2>1. slot[At(k)].tail # k
    BY <1>1, WhoStepped DEF LookTail, Goto, LocalFields, AccountedInv
  <2>2. k \in Nat /\ k <= tail /\ tail \in Nat /\ head \in Nat /\ tail <= head + Capacity /\ Capacity \in Nat
    BY <1>1, WhoStepped, RingQueueAssumption DEF AccountedInv, IInv, TypeOK, ThreadView, WithinCapacity, LocalFields
  <2>3. CASE head <= k /\ k < tail
    BY <1>1, <2>1, <2>2, <2>3 DEF AccountedInv, TicketsAccounted
  <2>4. CASE k = tail /\ k < head + Capacity
    BY <1>1, <2>1, <2>2, <2>4 DEF AccountedInv, TicketsAccounted, Releases
  <2>5. QED
    BY <2>2, <2>3, <2>4
<1>2. ASSUME AccountedInv, Next, NEW t \in Threads,
             local[t].pc = "lookHead", local'[t].pc = "done"
      PROVE  \/ tail = head
             \/ \E u \in Threads :
                  local[u].pc = "publish" /\ local[u].ticket = local[t].ticket
             \/ local[t].ticket < head
  <2> DEFINE k == local[t].ticket
  <2>1. slot[At(k)].head # k
    BY <1>2, WhoStepped DEF LookHead, Goto, LocalFields, AccountedInv
  <2>2. k \in Nat /\ k <= head /\ tail \in Nat /\ head \in Nat /\ head <= tail
    BY <1>2, WhoStepped DEF AccountedInv, IInv, TypeOK, ThreadView, WithinCapacity, LocalFields
  <2>3. CASE k = head /\ k < tail
    BY <1>2, <2>1, <2>2, <2>3 DEF AccountedInv, TicketsAccounted, Publishes
  <2>4. QED
    BY <2>2, <2>3
<1>3. Spec => []AccountedInv
  <2>1. Init => AccountedInv
    BY InitInvariant, AccountedAtFirst DEF AccountedInv
  <2>2. QED
    BY <2>1, NextKeepsAccounts, PTL DEF Spec
<1>4. AccountedInv /\ [Next]_vars => [\A t \in Threads :
        local[t].pc = "lookTail" /\ local'[t].pc = "done" =>
          \/ tail = head + Capacity
          \/ \E u \in Threads :
               local[u].pc = "release" /\ local[u].ticket + Capacity = local[t].ticket
          \/ local[t].ticket < head]_vars
  BY <1>1
<1>5. AccountedInv /\ [Next]_vars => [\A t \in Threads :
        local[t].pc = "lookHead" /\ local'[t].pc = "done" =>
          \/ tail = head
          \/ \E u \in Threads :
               local[u].pc = "publish" /\ local[u].ticket = local[t].ticket
          \/ local[t].ticket < head]_vars
  BY <1>2
<1>6. Spec => FullIsHonest
  BY <1>3, <1>4, PTL DEF Spec, FullIsHonest
<1>7. Spec => EmptyIsHonest
  BY <1>3, <1>5, PTL DEF Spec, EmptyIsHonest
<1>8. QED
  BY <1>6, <1>7 DEF RefusalsAreHonest
=============================================================================
