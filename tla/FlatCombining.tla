--------------------------- MODULE FlatCombining ---------------------------
(***************************************************************************)
(* FcApplyOp and FcEnqueueRequest, the flat combining protocol that        *)
(* src/lib/DS/FC/fcStack/fcStack.hpp and src/lib/DS/FC/fcQueue/fcqueue.hpp *)
(* share.  A thread publishes its request in a list; whoever gets the lock *)
(* serves every pending request it finds, RoundMax times over the list.    *)
(*                                                                         *)
(* The object is left to the modules that extend this one: they compose    *)
(* their serial operation with Answer.  Reads of a thread's own request    *)
(* that nobody else can be writing go with the step before them.  count is *)
(* always 1 in the code, so its clean-up never runs and a listed request   *)
(* stays listed.                                                           *)
(***************************************************************************)
EXTENDS Naturals

CONSTANTS
  Threads, NULL,
  Structs,    \* the FcStructs: one lock and one request list each
  Arguments,  \* Arguments[s]: the values FcApplyOp is called with on s
  RoundMax,   \* FC_COMBINING_ROUNDS
  MaxCalls    \* bound: how many calls are made in all

ASSUME FlatCombiningAssumption ==
  /\ NULL \notin Threads
  /\ RoundMax \in Nat \ {0} /\ MaxCalls \in Nat

VARIABLES
  head,     \* head[s]: the newest request of the list
  lock,     \* lock[s]: whether somebody combines
  request,  \* request[s][t]: the request record of thread t
  local,    \* local[t]: the locals of t's call
  calls     \* how many calls have been made

fcVars == <<head, lock, request, local, calls>>

\* place is where a listed request stands, counted from the end of the list
\* (a history; 0 as long as it is not listed).
Request == [value |-> NULL, pending |-> FALSE, active |-> FALSE, next |-> NULL,
            place |-> 0]

\* served counts the answers that were written for the call (a history).
Idle == [pc |-> "idle", s |-> NULL, value |-> NULL, holds |-> FALSE, supposed |-> NULL,
         round |-> 0, cur |-> NULL, served |-> 0, res |-> NULL]

FcInit ==
  /\ head = [s \in Structs |-> NULL]
  /\ lock = [s \in Structs |-> FALSE]
  /\ request = [s \in Structs |-> [t \in Threads |-> Request]]
  /\ local = [t \in Threads |-> Idle]
  /\ calls = 0

Mine(t) == request[local[t].s][t]

\* The request is written before anybody can look at it.
Invoke(t, s, v) ==
  /\ local[t].pc = "idle" /\ calls < MaxCalls
  /\ calls' = calls + 1
  /\ request' = [request EXCEPT ![s][t] = [@ EXCEPT !.value = v, !.pending = TRUE]]
  /\ local' = [local EXCEPT ![t] = [Idle EXCEPT !.pc = "try", !.s = s, !.value = v]]
  /\ UNCHANGED <<head, lock>>

\* The holder combines, once its request is in the list.
Combine(t) == local' = [local EXCEPT ![t] =
  [@ EXCEPT !.holds = TRUE, !.pc = IF Mine(t).active THEN "round" ELSE "readHead"]]

\* Slip: the lock is stored without looking at it.
TryLockStore(t) ==
  /\ local[t].pc = "try"
  /\ lock' = [lock EXCEPT ![local[t].s] = TRUE]
  /\ Combine(t)
  /\ UNCHANGED <<head, request, calls>>

TryLock(t) ==
  /\ local[t].pc = "try"
  /\ \/ /\ ~lock[local[t].s]
        /\ lock' = [lock EXCEPT ![local[t].s] = TRUE]
        /\ Combine(t)
     \/ /\ lock[local[t].s]
        /\ local' = [local EXCEPT ![t].pc = "wait"]
        /\ UNCHANGED lock
  /\ UNCHANGED <<head, request, calls>>

\* The spinning loop and what is asked when it ends.
Wait(t) ==
  /\ local[t].pc = "wait"
  /\ \/ /\ ~Mine(t).pending
        /\ local' = [local EXCEPT ![t] = [@ EXCEPT !.pc = "done", !.res = Mine(t).value]]
     \/ /\ Mine(t).pending /\ ~Mine(t).active
        /\ local' = [local EXCEPT ![t].pc = "readHead"]
     \/ /\ Mine(t).pending /\ Mine(t).active /\ ~lock[local[t].s]
        /\ local' = [local EXCEPT ![t].pc = "try"]
  /\ UNCHANGED <<head, lock, request, calls>>

\* FcEnqueueRequest.
ReadHead(t) ==
  LET s == local[t].s IN
  /\ local[t].pc = "readHead"
  /\ request' = [request EXCEPT ![s][t] = [@ EXCEPT !.active = TRUE, !.next = head[s]]]
  /\ local' = [local EXCEPT ![t] = [@ EXCEPT !.pc = "casHead", !.supposed = head[s]]]
  /\ UNCHANGED <<head, lock, calls>>

NewPlace(s) == IF head[s] = NULL THEN 1 ELSE request[s][head[s]].place + 1

\* Slip: the head is stored without comparing it.
CasHeadStore(t) ==
  LET s == local[t].s IN
  /\ local[t].pc = "casHead"
  /\ head' = [head EXCEPT ![s] = t]
  /\ request' = [request EXCEPT ![s][t].place = NewPlace(s)]
  /\ local' = [local EXCEPT ![t].pc = IF local[t].holds THEN "round" ELSE "try"]
  /\ UNCHANGED <<lock, calls>>

CasHead(t) ==
  LET s == local[t].s IN
  /\ local[t].pc = "casHead"
  /\ \/ /\ head[s] = local[t].supposed
        /\ head' = [head EXCEPT ![s] = t]
        /\ request' = [request EXCEPT ![s][t].place = NewPlace(s)]
        /\ local' = [local EXCEPT ![t].pc = IF local[t].holds THEN "round" ELSE "try"]
     \/ /\ head[s] # local[t].supposed
        /\ local' = [local EXCEPT ![t].pc = "readHead"]
        /\ UNCHANGED <<head, request>>
  /\ UNCHANGED <<lock, calls>>

\* Slip: passes are not counted.
StartRoundAgain(t) ==
  /\ local[t].pc = "round"
  /\ local' = [local EXCEPT ![t] = [@ EXCEPT !.pc = "scan", !.cur = head[local[t].s]]]
  /\ UNCHANGED <<head, lock, request, calls>>

\* The combiner starts a pass over the list, or has made all its passes.
StartRound(t) ==
  LET me == local[t] IN
  /\ me.pc = "round" /\ me.round < RoundMax
  /\ local' = [local EXCEPT ![t] =
                 [me EXCEPT !.pc = "scan", !.round = me.round + 1, !.cur = head[me.s]]]
  /\ UNCHANGED <<head, lock, request, calls>>

Unlock(t) ==
  /\ local[t].pc = "round" /\ local[t].round = RoundMax
  /\ lock' = [lock EXCEPT ![local[t].s] = FALSE]
  /\ local' = [local EXCEPT ![t] =
                 [@ EXCEPT !.pc = "done", !.holds = FALSE, !.res = Mine(t).value]]
  /\ UNCHANGED <<head, request, calls>>

Scan(t) ==
  LET me == local[t] IN
  /\ me.pc = "scan"
  /\ \/ me.cur = NULL /\ local' = [local EXCEPT ![t].pc = "round"]
     \/ /\ me.cur # NULL
        /\ local' = IF request[me.s][me.cur].pending THEN [local EXCEPT ![t].pc = "serve"]
                    ELSE [local EXCEPT ![t].cur = request[me.s][me.cur].next]
  /\ UNCHANGED <<head, lock, request, calls>>

\* The serial operation has returned: its answer is written, then the flag.
Serving(t) == local[t].pc = "serve"

Answer(t, answer) ==
  LET me == local[t] IN
  /\ Serving(t)
  /\ request' = [request EXCEPT ![me.s][me.cur].value = answer]
  /\ local' = [local EXCEPT ![t].pc = "clear", ![me.cur].served = @ + 1]
  /\ UNCHANGED <<head, lock, calls>>

Clear(t) ==
  LET me == local[t] IN
  /\ me.pc = "clear"
  /\ request' = [request EXCEPT ![me.s][me.cur].pending = FALSE]
  /\ local' = [local EXCEPT ![t] =
                 [@ EXCEPT !.pc = "scan", !.cur = request[me.s][me.cur].next]]
  /\ UNCHANGED <<head, lock, calls>>

Return(t) ==
  /\ local[t].pc = "done"
  /\ local' = [local EXCEPT ![t] = Idle]
  /\ UNCHANGED <<head, lock, request, calls>>

\* Everything but the serial operation itself.
Protocol(t) ==
  \/ \E s \in Structs : \E v \in Arguments[s] : Invoke(t, s, v)
  \/ TryLock(t) \/ Wait(t) \/ ReadHead(t) \/ CasHead(t)
  \/ StartRound(t) \/ Scan(t) \/ Clear(t) \/ Unlock(t) \/ Return(t)

Finished == calls = MaxCalls /\ \A t \in Threads : local[t].pc = "idle"

\* What a caller sees of its call: it has taken effect once its answer is
\* written.
CallOf(t) ==
  LET me == local[t] IN
  CASE me.pc = "idle" -> [phase |-> "idle"]
    [] me.pc # "idle" /\ me.served = 0 ->
         [phase |-> "busy", s |-> me.s, value |-> me.value]
    [] me.pc # "idle" /\ me.served > 0 ->
         [phase |-> "done", s |-> me.s, value |-> me.value,
          res |-> IF me.pc = "done" THEN me.res ELSE request[me.s][t].value]

Calls == [t \in Threads |-> CallOf(t)]

-----------------------------------------------------------------------------
Callers(s) == {t \in Threads : local[t].s = s}

\* At most one thread combines on a structure, and the lock is held exactly
\* while it does: it is the one that may touch the object and the answers.
OneCombiner == \A s \in Structs :
  /\ \A t, u \in Callers(s) : local[t].holds /\ local[u].holds => t = u
  /\ lock[s] <=> \E t \in Callers(s) : local[t].holds

Listed(s) == {t \in Threads : request[s][t].place > 0}
Enlisting(t) == local[t].pc \in {"readHead", "casHead"}

\* The list runs from its head through every active request to NULL, each
\* request once: requests enlisted at the same time do not push each other
\* out, so that no waiting request is overlooked.
ListIsWhole == \A s \in Structs :
  /\ \A t \in Threads :
       request[s][t].active =>
         t \in Listed(s) \/ (t \in Callers(s) /\ Enlisting(t))
  /\ \A t \in Listed(s) : request[s][t].active
  /\ \A t \in Listed(s) :
       LET next == request[s][t].next IN
       IF request[s][t].place = 1 THEN next = NULL
       ELSE next \in Threads /\ request[s][next].place = request[s][t].place - 1
  /\ \A t, u \in Listed(s) : request[s][t].place = request[s][u].place => t = u
  /\ IF head[s] = NULL THEN Listed(s) = {}
     ELSE /\ head[s] \in Listed(s)
          /\ \A t \in Listed(s) : request[s][t].place <= request[s][head[s]].place
=============================================================================
