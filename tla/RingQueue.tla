----------------------------- MODULE RingQueue -----------------------------
(***************************************************************************)
(* LockFreeQueueCpp11 of src/lib/DS/Queues/QueueLF/QueueLf.hpp: a ring of  *)
(* slots.  A producer takes a ticket from _tail, a consumer one from       *)
(* _head; a slot's own tail and head say which ticket it is ready for.     *)
(*                                                                         *)
(* One action is one access to an atomic, and compare_exchange_weak may    *)
(* fail for no reason.  Tickets are size_t in the code: 2^64 of them are   *)
(* never used up, so they are natural numbers here, and the (size_t)-1 in  *)
(* the head of a fresh slot is a number no ticket has.  dequeue gives no   *)
(* data back, so an element is its ticket.                                 *)
(***************************************************************************)
EXTENDS Integers

CONSTANTS
  Threads,
  Capacity,  \* what the constructor makes of its argument: see Rounded
  MaxCalls   \* bound: how many calls each thread makes

ASSUME RingQueueAssumption == Capacity \in Nat \ {0} /\ MaxCalls \in Nat

\* The constructor fills the bits below the highest one of capacity - 1 and
\* adds one: the least power of two that is large enough.
Rounded(capacity) ==
  CHOOSE p \in {2 ^ i : i \in 0..capacity} :
    p >= capacity /\ \A i \in 0..capacity : 2 ^ i >= capacity => p <= 2 ^ i

VARIABLES
  tail, head,  \* the next tickets of producers and consumers
  slot,        \* slot[i]: the tail and the head of _queue[i]
  local,       \* local[t]: the locals of a call
  calls        \* how many calls each thread has made

vars == <<tail, head, slot, local, calls>>

NoTicket == -1
Slots == 0..(Capacity - 1)
At(ticket) == ticket % Capacity   \* ticket & _capacityMask

Idle == [pc |-> "idle", ticket |-> 0, res |-> FALSE, count |-> 0, emptying |-> FALSE]

Init ==
  /\ tail = 0 /\ head = 0
  /\ slot = [i \in Slots |-> [tail |-> i, head |-> NoTicket]]
  /\ local = [t \in Threads |-> Idle]
  /\ calls = [t \in Threads |-> 0]

Goto(t, pc) == local' = [local EXCEPT ![t].pc = pc]
Take(t, ticket, pc) == local' = [local EXCEPT ![t].pc = pc, ![t].ticket = ticket]
Finish(t, res) == local' = [local EXCEPT ![t].pc = "done", ![t].res = res]

Enqueue(t) ==
  /\ local[t].pc = "idle" /\ calls[t] < MaxCalls
  /\ calls' = [calls EXCEPT ![t] = @ + 1]
  /\ Take(t, tail, "lookTail")
  /\ UNCHANGED <<tail, head, slot>>

\* Slip: enqueue waits for a slot instead of refusing.
LookTailSpin(t) ==
  /\ local[t].pc = "lookTail"
  /\ IF slot[At(local[t].ticket)].tail # local[t].ticket THEN Take(t, tail, "lookTail")
     ELSE Goto(t, "casTail")
  /\ UNCHANGED <<tail, head, slot, calls>>

LookTail(t) ==
  /\ local[t].pc = "lookTail"
  /\ IF slot[At(local[t].ticket)].tail # local[t].ticket THEN Finish(t, FALSE)
     ELSE Goto(t, "casTail")
  /\ UNCHANGED <<tail, head, slot, calls>>

\* Slip: the slot is not looked at again after a CAS that failed.
CasTailBlind(t) ==
  /\ local[t].pc = "casTail"
  /\ \/ tail = local[t].ticket /\ tail' = tail + 1 /\ Goto(t, "publish")
     \/ tail # local[t].ticket /\ Take(t, tail, "casTail") /\ UNCHANGED tail
  /\ UNCHANGED <<head, slot, calls>>

CasTail(t) ==
  /\ local[t].pc = "casTail"
  /\ \/ tail = local[t].ticket /\ tail' = tail + 1 /\ Goto(t, "publish")
     \/ Take(t, tail, "lookTail") /\ UNCHANGED tail
  /\ UNCHANGED <<head, slot, calls>>

\* The data is written and the slot shown to consumers.
Publish(t) ==
  /\ local[t].pc = "publish"
  /\ slot' = [slot EXCEPT ![At(local[t].ticket)].head = local[t].ticket]
  /\ Finish(t, TRUE)
  /\ UNCHANGED <<tail, head, calls>>

\* dequeue, or the first one of empty().
Dequeue(t) ==
  /\ local[t].pc = "idle" /\ calls[t] < MaxCalls
  /\ calls' = [calls EXCEPT ![t] = @ + 1]
  /\ \E emptying \in BOOLEAN : local' = [local EXCEPT
       ![t] = [Idle EXCEPT !.pc = "lookHead", !.ticket = head, !.emptying = emptying]]
  /\ UNCHANGED <<tail, head, slot>>

LookHead(t) ==
  /\ local[t].pc = "lookHead"
  /\ IF slot[At(local[t].ticket)].head # local[t].ticket THEN Finish(t, FALSE)
     ELSE Goto(t, "casHead")
  /\ UNCHANGED <<tail, head, slot, calls>>

CasHead(t) ==
  /\ local[t].pc = "casHead"
  /\ \/ head = local[t].ticket /\ head' = head + 1 /\ Goto(t, "release")
     \/ Take(t, head, "lookHead") /\ UNCHANGED head
  /\ UNCHANGED <<tail, slot, calls>>

\* Slip: the slot is released for the ticket it just had.
ReleaseSame(t) ==
  /\ local[t].pc = "release"
  /\ slot' = [slot EXCEPT ![At(local[t].ticket)].tail = local[t].ticket]
  /\ Finish(t, TRUE)
  /\ UNCHANGED <<tail, head, calls>>

\* The slot is ready for the producer of the next lap.
Release(t) ==
  /\ local[t].pc = "release"
  /\ slot' = [slot EXCEPT ![At(local[t].ticket)].tail = local[t].ticket + Capacity]
  /\ Finish(t, TRUE)
  /\ UNCHANGED <<tail, head, calls>>

\* empty() dequeues until it is refused.
Return(t) ==
  /\ local[t].pc = "done"
  /\ IF local[t].emptying /\ local[t].res THEN Take(t, head, "lookHead")
     ELSE local' = [local EXCEPT ![t] = Idle]
  /\ UNCHANGED <<tail, head, slot, calls>>

Size(t) ==
  /\ local[t].pc = "idle" /\ calls[t] < MaxCalls
  /\ calls' = [calls EXCEPT ![t] = @ + 1]
  /\ Take(t, head, "size")
  /\ UNCHANGED <<tail, head, slot>>

\* Slip: the places in the ring are subtracted, not the tickets.
SizeTailMasked(t) ==
  /\ local[t].pc = "size"
  /\ local' = [local EXCEPT ![t].pc = "done", ![t].count = At(tail) - At(local[t].ticket)]
  /\ UNCHANGED <<tail, head, slot, calls>>

SizeTail(t) ==
  /\ local[t].pc = "size"
  /\ local' = [local EXCEPT ![t].pc = "done", ![t].count = tail - local[t].ticket]
  /\ UNCHANGED <<tail, head, slot, calls>>

Step(t) ==
  \/ Enqueue(t) \/ LookTail(t) \/ CasTail(t) \/ Publish(t)
  \/ Dequeue(t) \/ LookHead(t) \/ CasHead(t) \/ Release(t)
  \/ Return(t) \/ Size(t) \/ SizeTail(t)

Finished == \A t \in Threads : local[t].pc = "idle" /\ calls[t] = MaxCalls
Terminating == Finished /\ UNCHANGED vars

Next == (\E t \in Threads : Step(t)) \/ Terminating

Spec == Init /\ [][Next]_vars

-----------------------------------------------------------------------------
Owns(t) == local[t].pc \in {"publish", "release"}

\* Type invariant.
TypeOK ==
  /\ tail \in Nat /\ head \in Nat
  /\ slot \in [Slots -> [tail : Nat, head : Nat \cup {NoTicket}]]
  /\ local \in [Threads ->
       [pc : {"idle", "lookTail", "casTail", "publish", "lookHead", "casHead",
              "release", "size", "done"},
        ticket : Nat, res : BOOLEAN, count : Int, emptying : BOOLEAN]]
  /\ calls \in [Threads -> 0..MaxCalls]

\* A slot is written or emptied by one thread at a time, even when producers
\* and consumers are a whole lap apart: the data is never overwritten before
\* its consumer has left, nor read before its producer has.
SlotExclusive == \A t, u \in Threads :
  t # u /\ Owns(t) /\ Owns(u) => At(local[t].ticket) # At(local[u].ticket)

\* The ring never holds more elements than it has slots, nor fewer than none.
WithinCapacity == head <= tail /\ tail <= head + Capacity

\* What no interleaving of the calls breaks.
RingIsSound == TypeOK /\ SlotExclusive /\ WithinCapacity

\* size() never wraps round, although it loads _head and _tail one after the
\* other while they move, and answers at least what is in the ring when it
\* returns; it may answer more than the ring can hold.
SizeIsHonest == [][\A t \in Threads :
  local[t].pc = "size" /\ local'[t].pc = "done" =>
    local'[t].count >= 0 /\ local'[t].count >= tail - head]_vars

\* enqueue refuses only a full ring, a slot whose consumer has not left yet,
\* or when its ticket was used up while it waited.
FullIsHonest == [][\A t \in Threads :
  local[t].pc = "lookTail" /\ local'[t].pc = "done" =>
    \/ tail = head + Capacity
    \/ \E u \in Threads :
         local[u].pc = "release" /\ local[u].ticket + Capacity = local[t].ticket
    \/ local[t].ticket < head]_vars

\* dequeue refuses only an empty ring, an element whose producer has not
\* published it yet, or when its ticket was used up while it waited.
EmptyIsHonest == [][\A t \in Threads :
  local[t].pc = "lookHead" /\ local'[t].pc = "done" =>
    \/ tail = head
    \/ \E u \in Threads :
         local[u].pc = "publish" /\ local[u].ticket = local[t].ticket
    \/ local[t].ticket < head]_vars

\* enqueue and dequeue refuse only for a reason.
RefusalsAreHonest == FullIsHonest /\ EmptyIsHonest

\* Fairness: a spurious failure of the weak CAS does not go on for ever, and a thread
\* that can step does.
FairSpec == Spec /\ \A t \in Threads :
  /\ WF_vars(Step(t))
  /\ SF_vars(CasTail(t) /\ local'[t].pc = "publish")
  /\ SF_vars(CasHead(t) /\ local'[t].pc = "release")

\* Every call returns: nobody waits in a loop for another thread, and empty()
\* ends when the others stop enqueueing.
EveryCallReturns == <>Finished
=============================================================================
