--------------------------- MODULE FcStackProofs ----------------------------
(***************************************************************************)
(* Proofs about the flat combining stack, for any threads, structures,     *)
(* arguments, number of rounds and number of calls.                        *)
(*                                                                         *)
(* What is proved of the protocol is proved for any serial operation       *)
(* (FcStep and FcNext), so that FcQueueProofs can take it from here.       *)
(***************************************************************************)
EXTENDS FcStack, TLAPS

OrNull(S) == S \cup {NULL}

PCs == {"idle", "try", "wait", "readHead", "casHead", "round", "scan", "serve", "clear", "done"}

Requests == [value : OrNull(Int), pending : BOOLEAN, active : BOOLEAN,
             next : OrNull(Threads), place : Nat]

Locals == [pc : PCs, s : OrNull(Structs), value : OrNull(Int), holds : BOOLEAN,
           supposed : OrNull(Threads), round : Nat, cur : OrNull(Threads), served : Nat,
           res : OrNull(Int)]

FcTypeOK ==
  /\ head \in [Structs -> OrNull(Threads)]
  /\ lock \in [Structs -> BOOLEAN]
  /\ request \in [Structs -> [Threads -> Requests]]
  /\ local \in [Threads -> Locals] /\ calls \in Nat

TypeOK == FcTypeOK /\ top \in Seq(Int)

\* Whatever the serial operation does, its answer is all the protocol sees.
Answers(t) == \E answer \in Int : Answer(t, answer)
FcStep(t) == Answers(t) \/ Protocol(t)
FcNext == (\E t \in Threads : FcStep(t)) \/ UNCHANGED fcVars

Combining(t) == local[t].pc \in {"round", "scan", "serve", "clear"}

\* What a thread knows by the place it has come to.
CallUnderWay(t) == local[t].pc # "idle" => local[t].s \in Structs /\ local[t].value \in Int
ServesSomebody(t) == local[t].pc \in {"serve", "clear"} => local[t].cur \in Threads

\* Who combines holds the lock; who holds it combines or enlists first.
HoldsToCombine(t) ==
  /\ Combining(t) => local[t].holds
  /\ local[t].holds => Combining(t) \/ Enlisting(t)

\* A request that is being enlisted is not yet in the list.
EnlistsOnce(t) == Enlisting(t) =>
  /\ Mine(t).place = 0
  /\ local[t].pc = "casHead" => Mine(t).active /\ Mine(t).next = local[t].supposed

\* Passes are counted from when the thread combines.
CountsFromZero(t) == Combining(t) \/ local[t].pc = "done" \/ local[t].round = 0

ThreadView(t) == /\ CallUnderWay(t) /\ ServesSomebody(t) /\ HoldsToCombine(t)
                 /\ EnlistsOnce(t) /\ CountsFromZero(t)

IInv == FcTypeOK /\ OneCombiner /\ ListIsWhole /\ \A t \in Threads : ThreadView(t)

-----------------------------------------------------------------------------
(***************************************************************************)
(* Types                                                                   *)
(***************************************************************************)
LEMMA SerialTypes ==
  ASSUME NEW value \in Int, NEW stack \in Seq(Int)
  PROVE  /\ SerialPushPop(value, stack).object \in Seq(Int)
         /\ SerialPushPop(value, stack).answer \in Int
<1>1. value >= 0 => <<value>> \o stack \in Seq(Int)
  OBVIOUS
<1>2. stack # <<>> => Tail(stack) \in Seq(Int) /\ Head(stack) \in Int
  OBVIOUS
<1>3. QED
  BY <1>1, <1>2 DEF SerialPushPop

LEMMA IdleTypes == Idle \in Locals /\ Request \in Requests
  BY DEF Idle, Request, Locals, Requests, PCs, OrNull

LEMMA Places == /\ "idle" \in PCs /\ "try" \in PCs /\ "wait" \in PCs /\ "readHead" \in PCs
                /\ "casHead" \in PCs /\ "round" \in PCs /\ "scan" \in PCs
                /\ "serve" \in PCs /\ "clear" \in PCs /\ "done" \in PCs
  BY DEF PCs

LEMMA Fields ==
  /\ \A m \in Locals :
       /\ m.pc \in PCs /\ m.s \in OrNull(Structs) /\ m.value \in OrNull(Int)
       /\ m.holds \in BOOLEAN /\ m.supposed \in OrNull(Threads) /\ m.round \in Nat
       /\ m.cur \in OrNull(Threads) /\ m.served \in Nat /\ m.res \in OrNull(Int)
  /\ \A r \in Requests :
       /\ r.value \in OrNull(Int) /\ r.pending \in BOOLEAN /\ r.active \in BOOLEAN
       /\ r.next \in OrNull(Threads) /\ r.place \in Nat
  BY DEF Locals, Requests

LEMMA Types ==
  ASSUME FcTypeOK, NEW s \in Structs, NEW t \in Threads
  PROVE  local[t] \in Locals /\ request[s][t] \in Requests /\ head[s] \in OrNull(Threads)
  BY DEF FcTypeOK

LEMMA NextKeepsTypes == IInv /\ FcNext => FcTypeOK'
<1> SUFFICES ASSUME IInv, FcNext PROVE FcTypeOK'
  OBVIOUS
<1> DEFINE FcTypes == /\ head \in [Structs -> OrNull(Threads)]
                      /\ lock \in [Structs -> BOOLEAN]
                      /\ request \in [Structs -> [Threads -> Requests]]
                      /\ local \in [Threads -> Locals] /\ calls \in Nat
<1>1. FcTypes
  BY DEF IInv, FcTypeOK
<1>2. CASE UNCHANGED fcVars
  BY <1>1, <1>2 DEF fcVars, FcTypeOK
<1>3. ASSUME NEW t \in Threads, FcStep(t) PROVE FcTypeOK'
  <2> DEFINE me == local[t]
             s == me.s
             own == request[s][t]
  <2>0. ThreadView(t) /\ me \in Locals
    BY <1>1 DEF IInv
  <2>a. me.pc # "idle" => s \in Structs /\ own \in Requests /\ head[s] \in OrNull(Threads)
    BY <1>1, <2>0 DEF ThreadView, CallUnderWay
  <2>b. me.pc # "idle" => own.value \in OrNull(Int)
    BY <2>a, Fields
  <2>1. ASSUME NEW r \in Structs, NEW v \in Arguments[r], Invoke(t, r, v) PROVE FcTypes'
    <3>1. v \in Int /\ v \in OrNull(Int)
      BY FcStackAssumption, <2>1 DEF OrNull
    <3>2. [request[r][t] EXCEPT !.value = v, !.pending = TRUE] \in Requests
      <4>1. request[r][t] \in Requests
        BY <1>1
      <4>2. QED
        BY <4>1, <3>1 DEF Requests
    <3>3. [Idle EXCEPT !.pc = "try", !.s = r, !.value = v] \in Locals
      BY <3>1, <2>1, IdleTypes DEF Locals, PCs, OrNull
    <3>4. QED
      BY <1>1, <2>1, <3>2, <3>3 DEF Invoke
  <2>2. ASSUME TryLock(t) PROVE FcTypes'
    <3>1. (IF Mine(t).active THEN "round" ELSE "readHead") \in PCs
      BY Places
    <3>2. [me EXCEPT !.holds = TRUE, !.pc = IF Mine(t).active THEN "round" ELSE "readHead"] \in Locals
      <4>1. \A pc \in PCs : [me EXCEPT !.holds = TRUE, !.pc = pc] \in Locals
        BY <2>0 DEF Locals
      <4>2. QED
        BY <4>1, <3>1
    <3>3. [me EXCEPT !.pc = "wait"] \in Locals
      BY <2>0, Places DEF Locals
    <3>4. local' \in [Threads -> Locals]
      <4>1. CASE Combine(t)
        BY <1>1, <3>2, <4>1 DEF Combine
      <4>2. CASE local' = [local EXCEPT ![t].pc = "wait"]
        BY <1>1, <3>3, <4>2
      <4>3. QED
        BY <2>2, <4>1, <4>2 DEF TryLock
    <3>5. lock' \in [Structs -> BOOLEAN]
      BY <1>1, <2>2 DEF TryLock
    <3>6. QED
      BY <1>1, <2>2, <3>4, <3>5 DEF TryLock
  <2>3. ASSUME Wait(t) PROVE FcTypes'
    <3>1. [me EXCEPT !.pc = "done", !.res = own.value] \in Locals
      <4>1. \A v \in OrNull(Int) : [me EXCEPT !.pc = "done", !.res = v] \in Locals
        BY <2>0, Places DEF Locals
      <4>2. QED
        BY <2>b, <2>3, <4>1 DEF Wait
    <3>2. [me EXCEPT !.pc = "readHead"] \in Locals /\ [me EXCEPT !.pc = "try"] \in Locals
      BY <2>0, Places DEF Locals
    <3>3. QED
      BY <1>1, <2>3, <3>1, <3>2 DEF Wait, Mine
  <2>4. ASSUME ReadHead(t) PROVE FcTypes'
    <3>1. [own EXCEPT !.active = TRUE, !.next = head[s]] \in Requests
      <4>1. \A c \in OrNull(Threads) : [own EXCEPT !.active = TRUE, !.next = c] \in Requests
        BY <2>a, <2>4 DEF ReadHead, Requests
      <4>2. QED
        BY <2>a, <2>4, <4>1 DEF ReadHead
    <3>2. [me EXCEPT !.pc = "casHead", !.supposed = head[s]] \in Locals
      <4>1. \A c \in OrNull(Threads) : [me EXCEPT !.pc = "casHead", !.supposed = c] \in Locals
        BY <2>0, Places DEF Locals
      <4>2. QED
        BY <2>a, <2>4, <4>1 DEF ReadHead
    <3>3. QED
      BY <1>1, <2>4, <3>1, <3>2 DEF ReadHead
  <2>5. ASSUME CasHead(t) PROVE FcTypes'
    <3>1. NewPlace(s) \in Nat
      BY <1>1, <2>a, <2>5, Fields DEF CasHead, NewPlace, OrNull
    <3>3. (IF me.holds THEN "round" ELSE "try") \in PCs
      BY Places
    <3>4. [me EXCEPT !.pc = IF me.holds THEN "round" ELSE "try"] \in Locals
          /\ [me EXCEPT !.pc = "readHead"] \in Locals
      <4>1. \A pc \in PCs : [me EXCEPT !.pc = pc] \in Locals
        BY <2>0 DEF Locals
      <4>2. QED
        BY <3>3, <4>1, Places
    <3>5. t \in OrNull(Threads)
      BY DEF OrNull
    <3>6. local' \in [Threads -> Locals]
      BY <1>1, <2>5, <3>4 DEF CasHead
    <3>7. request' \in [Structs -> [Threads -> Requests]]
      <4> DEFINE placed == [own EXCEPT !.place = NewPlace(s)]
      <4>1. placed \in Requests
        BY <2>a, <2>5, <3>1 DEF CasHead, Requests
      <4>2. request' = request \/ request' = [request EXCEPT ![s] = [request[s] EXCEPT ![t] = placed]]
        BY <2>5 DEF CasHead
      <4> HIDE DEF placed
      <4>3. CASE request' = request
        BY <1>1, <4>3
      <4>4. CASE request' = [request EXCEPT ![s] = [request[s] EXCEPT ![t] = placed]]
        BY <1>1, <4>1, <4>4
      <4>5. QED
        BY <4>2, <4>3, <4>4
    <3>8. head' \in [Structs -> OrNull(Threads)]
      BY <1>1, <2>5, <3>5 DEF CasHead
    <3>9. QED
      BY <1>1, <2>5, <3>6, <3>7, <3>8 DEF CasHead
  <2>6. ASSUME StartRound(t) PROVE FcTypes'
    <3>1. me.round + 1 \in Nat /\ head[s] \in OrNull(Threads)
      BY <2>0, <2>a, <2>6, Fields DEF StartRound
    <3>2. [me EXCEPT !.pc = "scan", !.round = me.round + 1, !.cur = head[me.s]] \in Locals
      <4>1. \A n \in Nat, c \in OrNull(Threads) :
              [me EXCEPT !.pc = "scan", !.round = n, !.cur = c] \in Locals
        BY <2>0, Places DEF Locals
      <4>2. QED
        BY <3>1, <4>1
    <3>3. QED
      BY <1>1, <2>6, <3>2 DEF StartRound
  <2>7. ASSUME Scan(t) PROVE FcTypes'
    <3>1. me.cur # NULL => request[s][me.cur].next \in OrNull(Threads)
      BY <1>1, <2>0, <2>a, <2>7, Fields DEF Scan, OrNull
    <3>2. /\ [me EXCEPT !.pc = "round"] \in Locals /\ [me EXCEPT !.pc = "serve"] \in Locals
          /\ me.cur # NULL => [me EXCEPT !.cur = request[s][me.cur].next] \in Locals
      <4>1. /\ \A pc \in PCs : [me EXCEPT !.pc = pc] \in Locals
            /\ \A c \in OrNull(Threads) : [me EXCEPT !.cur = c] \in Locals
        BY <2>0 DEF Locals
      <4>2. QED
        BY <3>1, <4>1, Places
    <3>3. QED
      BY <1>1, <2>7, <3>2 DEF Scan
  <2>8. ASSUME Clear(t) PROVE FcTypes'
    <3>1. me.cur \in Threads /\ request[s][me.cur] \in Requests
      BY <1>1, <2>0, <2>a, <2>8 DEF Clear, ThreadView, ServesSomebody
    <3>2. request[s][me.cur].next \in OrNull(Threads)
      BY <3>1, Fields
    <3>3. [request[s][me.cur] EXCEPT !.pending = FALSE] \in Requests
      BY <3>1 DEF Requests
    <3>4. [me EXCEPT !.pc = "scan", !.cur = request[me.s][me.cur].next] \in Locals
      <4>1. \A c \in OrNull(Threads) : [me EXCEPT !.pc = "scan", !.cur = c] \in Locals
        BY <2>0, Places DEF Locals
      <4>2. QED
        BY <3>2, <4>1
    <3>5. QED
      BY <1>1, <2>8, <3>3, <3>4 DEF Clear
  <2>9. ASSUME Unlock(t) PROVE FcTypes'
    <3>1. [me EXCEPT !.pc = "done", !.holds = FALSE, !.res = own.value] \in Locals
      <4>1. \A v \in OrNull(Int) : [me EXCEPT !.pc = "done", !.holds = FALSE, !.res = v] \in Locals
        BY <2>0, Places DEF Locals
      <4>2. QED
        BY <2>b, <2>9, <4>1 DEF Unlock
    <3>2. QED
      BY <1>1, <2>9, <3>1 DEF Unlock, Mine
  <2>10. ASSUME Return(t) PROVE FcTypes'
    BY <1>1, <2>10, IdleTypes DEF Return
  <2>11. ASSUME NEW answer \in Int, Answer(t, answer) PROVE FcTypes'
    <3>1. me.cur \in Threads /\ request[s][me.cur] \in Requests
      BY <1>1, <2>0, <2>a, <2>11 DEF Answer, Serving, ThreadView, CallUnderWay, ServesSomebody
    <3>4. [request[s][me.cur] EXCEPT !.value = answer] \in Requests
      <4>1. \A v \in OrNull(Int) : [request[s][me.cur] EXCEPT !.value = v] \in Requests
        BY <3>1 DEF Requests
      <4>2. QED
        BY <4>1 DEF OrNull
    <3>5. request' \in [Structs -> [Threads -> Requests]]
      BY <1>1, <2>11, <3>4 DEF Answer
    <3>6. local' \in [Threads -> Locals]
      <4> DEFINE moved == [local EXCEPT ![t] = [me EXCEPT !.pc = "clear"]]
      <4>1. [me EXCEPT !.pc = "clear"] \in Locals
        BY <2>0, Places DEF Locals
      <4>2. moved \in [Threads -> Locals]
        BY <1>1, <4>1
      <4>3. local' = [moved EXCEPT ![me.cur] = [moved[me.cur] EXCEPT !.served = moved[me.cur].served + 1]]
        BY <2>11 DEF Answer
      <4> HIDE DEF moved
      <4>4. moved[me.cur] \in Locals /\ moved[me.cur].served + 1 \in Nat
        BY <3>1, <4>2, Fields
      <4>5. [moved[me.cur] EXCEPT !.served = moved[me.cur].served + 1] \in Locals
        <5>1. \A m \in Locals, n \in Nat : [m EXCEPT !.served = n] \in Locals
          BY DEF Locals
        <5>2. QED
          BY <4>4, <5>1
      <4>6. QED
        BY <3>1, <4>2, <4>3, <4>5
    <3>7. QED
      BY <1>1, <2>11, <3>5, <3>6 DEF Answer
  <2>12. CASE Protocol(t)
    BY <1>1, <2>1, <2>2, <2>3, <2>4, <2>5, <2>6, <2>7, <2>8, <2>9, <2>10, <2>12
       DEF Protocol, FcTypeOK
  <2>13. QED
    BY <1>3, <2>11, <2>12 DEF FcStep, Answers, FcTypeOK
<1>4. QED
  BY <1>2, <1>3 DEF FcNext

-----------------------------------------------------------------------------
(***************************************************************************)
(* What a step leaves as it was.                                           *)
(***************************************************************************)
\* Of a call, all but its number of answers.
SameCall(u) ==
  /\ local'[u].pc = local[u].pc /\ local'[u].s = local[u].s
  /\ local'[u].value = local[u].value /\ local'[u].holds = local[u].holds
  /\ local'[u].supposed = local[u].supposed /\ local'[u].round = local[u].round
  /\ local'[u].cur = local[u].cur /\ local'[u].res = local[u].res

SameListing(s, u) ==
  /\ request'[s][u].active = request[s][u].active
  /\ request'[s][u].next = request[s][u].next
  /\ request'[s][u].place = request[s][u].place

LEMMA ServeEffect ==
  ASSUME IInv, NEW t \in Threads, Answers(t)
  PROVE  /\ local[t].pc = "serve" /\ local'[t].pc = "clear"
         /\ local[t].s \in Structs /\ local[t].cur \in Threads
         /\ UNCHANGED <<head, lock>>
         /\ \A u \in Threads : u # t => SameCall(u)
         /\ local'[t].s = local[t].s /\ local'[t].value = local[t].value
         /\ local'[t].holds = local[t].holds /\ local'[t].cur = local[t].cur
         /\ local'[t].round = local[t].round
         /\ \A u \in Threads : local'[u].served =
              IF u = local[t].cur THEN local[u].served + 1 ELSE local[u].served
         /\ \A s \in Structs, u \in Threads :
              SameListing(s, u) /\ request'[s][u].pending = request[s][u].pending
<1> DEFINE me == local[t]
           moved == [local EXCEPT ![t] = [me EXCEPT !.pc = "clear"]]
<1>1. PICK answer \in Int : Answer(t, answer)
  BY DEF Answers
<1>2. me.pc = "serve" /\ UNCHANGED <<head, lock>>
  BY <1>1 DEF Answer, Serving
<1>3. me.s \in Structs /\ me.cur \in Threads /\ local \in [Threads -> Locals]
      /\ request \in [Structs -> [Threads -> Requests]]
  BY <1>2 DEF IInv, FcTypeOK, ThreadView, CallUnderWay, ServesSomebody
<1>4. local' = [moved EXCEPT ![me.cur] = [moved[me.cur] EXCEPT !.served = moved[me.cur].served + 1]]
  BY <1>1 DEF Answer
<1>5. moved \in [Threads -> Locals]
  <2>1. [me EXCEPT !.pc = "clear"] \in Locals
    BY <1>3, Places DEF Locals
  <2>2. QED
    BY <1>3, <2>1
<1>6. \A u \in Threads :
        /\ moved[u].pc = IF u = t THEN "clear" ELSE local[u].pc
        /\ moved[u].s = local[u].s /\ moved[u].value = local[u].value
        /\ moved[u].holds = local[u].holds /\ moved[u].supposed = local[u].supposed
        /\ moved[u].round = local[u].round /\ moved[u].cur = local[u].cur
        /\ moved[u].res = local[u].res /\ moved[u].served = local[u].served
  BY <1>3 DEF Locals
<1> HIDE DEF moved
<1>7. \A u \in Threads :
        /\ local'[u].pc = moved[u].pc /\ local'[u].s = moved[u].s
        /\ local'[u].value = moved[u].value /\ local'[u].holds = moved[u].holds
        /\ local'[u].supposed = moved[u].supposed /\ local'[u].round = moved[u].round
        /\ local'[u].cur = moved[u].cur /\ local'[u].res = moved[u].res
        /\ local'[u].served = IF u = me.cur THEN moved[u].served + 1 ELSE moved[u].served
  BY <1>4, <1>5 DEF Locals
<1>8. \A s \in Structs, u \in Threads :
        SameListing(s, u) /\ request'[s][u].pending = request[s][u].pending
  BY <1>1, <1>3 DEF Answer, SameListing, Requests
<1>9. QED
  BY <1>2, <1>3, <1>6, <1>7, <1>8 DEF SameCall

LEMMA OthersStay ==
  ASSUME IInv, NEW t \in Threads, FcStep(t), NEW u \in Threads, u # t
  PROVE  SameCall(u)
<1>1. local \in [Threads -> Locals]
  BY DEF IInv, FcTypeOK
<1>2. CASE Answers(t)
  BY <1>2, ServeEffect
<1>3. CASE Protocol(t)
  <2>1. local'[u] = local[u]
    BY <1>1, <1>3 DEF Protocol, Invoke, TryLock, Combine, Wait, ReadHead, CasHead, StartRound,
                      Scan, Clear, Unlock, Return
  <2>2. QED
    BY <2>1 DEF SameCall
<1>4. QED
  BY <1>2, <1>3 DEF FcStep

LEMMA ListingStays ==
  ASSUME IInv, NEW t \in Threads, FcStep(t), NEW s \in Structs, NEW u \in Threads,
         u = t /\ s = local[t].s => ~ ReadHead(t) /\ ~ CasHead(t)
  PROVE  SameListing(s, u)
<1>1. request \in [Structs -> [Threads -> Requests]]
  BY DEF IInv, FcTypeOK
<1>2. CASE Answers(t)
  BY <1>2, ServeEffect
<1>3. ASSUME NEW r \in Structs, NEW v \in Arguments[r], Invoke(t, r, v) PROVE SameListing(s, u)
  BY <1>1, <1>3 DEF Invoke, SameListing, Requests
<1>4. CASE Clear(t)
  BY <1>1, <1>4 DEF Clear, SameListing, Requests
<1>5. CASE ReadHead(t) \/ CasHead(t)
  <2>1. request'[s][u] = request[s][u]
    BY <1>1, <1>5 DEF ReadHead, CasHead
  <2>2. QED
    BY <2>1 DEF SameListing
<1>6. CASE TryLock(t) \/ Wait(t) \/ StartRound(t) \/ Scan(t) \/ Unlock(t) \/ Return(t)
  BY <1>6 DEF TryLock, Wait, StartRound, Scan, Unlock, Return, SameListing
<1>7. QED
  BY <1>2, <1>3, <1>4, <1>5, <1>6 DEF FcStep, Protocol

-----------------------------------------------------------------------------
(***************************************************************************)
(* What a step does to the call of the thread that takes it.               *)
(***************************************************************************)
Moves(t, from, to) == local[t].pc = from /\ local'[t].pc = to

SameWork(t) ==
  /\ local'[t].s = local[t].s /\ local'[t].value = local[t].value
  /\ local'[t].served = local[t].served

SameTask(t) == SameWork(t) /\ local'[t].holds = local[t].holds /\ local'[t].round = local[t].round

Begins(t, s, v) ==
  /\ Moves(t, "idle", "try") /\ local'[t].s = s /\ local'[t].value = v
  /\ ~ local'[t].holds /\ local'[t].round = 0 /\ local'[t].served = 0

LEMMA InvokeEffect ==
  ASSUME FcTypeOK, NEW t \in Threads, NEW s, NEW v, Invoke(t, s, v)
  PROVE  Begins(t, s, v)
  BY DEF FcTypeOK, Invoke, Begins, Moves, Idle

LEMMA TryLockEffect ==
  ASSUME FcTypeOK, NEW t \in Threads, TryLock(t)
  PROVE  /\ local[t].pc = "try" /\ SameWork(t) /\ local'[t].round = local[t].round
         /\ \/ /\ ~ lock[local[t].s] /\ lock' = [lock EXCEPT ![local[t].s] = TRUE]
               /\ local'[t].holds
               /\ local'[t].pc = IF Mine(t).active THEN "round" ELSE "readHead"
            \/ /\ lock[local[t].s] /\ UNCHANGED lock
               /\ local'[t].holds = local[t].holds /\ local'[t].pc = "wait"
<1>1. local \in [Threads -> Locals] /\ local[t].pc = "try"
  BY DEF FcTypeOK, TryLock
<1>2. CASE Combine(t) /\ ~ lock[local[t].s] /\ lock' = [lock EXCEPT ![local[t].s] = TRUE]
  <2>1. local'[t].holds /\ SameWork(t) /\ local'[t].round = local[t].round
        /\ local'[t].pc = IF Mine(t).active THEN "round" ELSE "readHead"
    BY <1>1, <1>2 DEF Combine, SameWork, Locals
  <2>2. QED
    BY <1>1, <1>2, <2>1
<1>3. CASE local' = [local EXCEPT ![t].pc = "wait"] /\ lock[local[t].s] /\ UNCHANGED lock
  BY <1>1, <1>3 DEF SameWork, Locals
<1>4. QED
  BY <1>2, <1>3 DEF TryLock

LEMMA WaitEffect ==
  ASSUME FcTypeOK, NEW t \in Threads, Wait(t)
  PROVE  /\ SameTask(t)
         /\ \/ Moves(t, "wait", "done") /\ ~ Mine(t).pending /\ local'[t].res = Mine(t).value
            \/ Moves(t, "wait", "readHead") /\ ~ Mine(t).active
            \/ Moves(t, "wait", "try")
<1>1. local \in [Threads -> Locals]
  BY DEF FcTypeOK
<1>2. CASE ~ Mine(t).pending /\ local' = [local EXCEPT ![t] = [@ EXCEPT !.pc = "done", !.res = Mine(t).value]]
  <2> DEFINE value == Mine(t).value
  <2>1. local' = [local EXCEPT ![t] = [@ EXCEPT !.pc = "done", !.res = value]]
    BY <1>2
  <2> HIDE DEF value
  <2>2. SameTask(t) /\ local'[t].pc = "done" /\ local'[t].res = value
    BY <1>1, <2>1 DEF SameTask, SameWork, Locals
  <2>3. QED
    BY <1>2, <2>2 DEF Wait, Moves, value
<1>3. CASE ~ Mine(t).active /\ local' = [local EXCEPT ![t].pc = "readHead"]
  BY <1>1, <1>3 DEF Wait, SameTask, SameWork, Moves, Locals
<1>4. CASE local' = [local EXCEPT ![t].pc = "try"]
  BY <1>1, <1>4 DEF Wait, SameTask, SameWork, Moves, Locals
<1>5. QED
  BY <1>2, <1>3, <1>4 DEF Wait

LEMMA ReadHeadEffect ==
  ASSUME FcTypeOK, NEW t \in Threads, ReadHead(t), local[t].s \in Structs
  PROVE  /\ SameTask(t) /\ Moves(t, "readHead", "casHead")
         /\ local'[t].supposed = head[local[t].s] /\ UNCHANGED <<head, lock>>
         /\ LET new == request'[local[t].s][t] IN
              /\ new.active /\ new.next = head[local[t].s] /\ new.place = Mine(t).place
              /\ new.pending = Mine(t).pending /\ new.value = Mine(t).value
<1>1. local \in [Threads -> Locals] /\ request \in [Structs -> [Threads -> Requests]]
  BY DEF FcTypeOK
<1>2. SameTask(t) /\ Moves(t, "readHead", "casHead") /\ local'[t].supposed = head[local[t].s]
  BY <1>1 DEF ReadHead, SameTask, SameWork, Moves, Locals
<1>3. QED
  BY <1>1, <1>2 DEF ReadHead, Mine, Requests

LEMMA CasHeadEffect ==
  ASSUME FcTypeOK, NEW t \in Threads, CasHead(t), local[t].s \in Structs
  PROVE  /\ SameTask(t) /\ UNCHANGED lock
         /\ \/ /\ Moves(t, "casHead", IF local[t].holds THEN "round" ELSE "try")
               /\ head[local[t].s] = local[t].supposed
               /\ head' = [head EXCEPT ![local[t].s] = t]
               /\ LET new == request'[local[t].s][t] IN
                    /\ new.active = Mine(t).active /\ new.next = Mine(t).next
                    /\ new.place = NewPlace(local[t].s) /\ new.pending = Mine(t).pending
                    /\ new.value = Mine(t).value
            \/ Moves(t, "casHead", "readHead") /\ UNCHANGED <<head, request>>
<1>1. local \in [Threads -> Locals] /\ request \in [Structs -> [Threads -> Requests]]
  BY DEF FcTypeOK
<1>2. SameTask(t)
  BY <1>1 DEF CasHead, SameTask, SameWork, Locals
<1> DEFINE s == local[t].s
<1>3. CASE /\ head[s] = local[t].supposed /\ head' = [head EXCEPT ![s] = t]
           /\ request' = [request EXCEPT ![s][t].place = NewPlace(s)]
           /\ local' = [local EXCEPT ![t].pc = IF local[t].holds THEN "round" ELSE "try"]
  <2>1. local'[t].pc = IF local[t].holds THEN "round" ELSE "try"
    BY <1>1, <1>3 DEF Locals
  <2>2. /\ request'[s][t].active = Mine(t).active /\ request'[s][t].next = Mine(t).next
        /\ request'[s][t].place = NewPlace(s) /\ request'[s][t].pending = Mine(t).pending
        /\ request'[s][t].value = Mine(t).value
    BY <1>1, <1>3 DEF Requests, Mine
  <2>3. QED
    BY <1>2, <1>3, <2>1, <2>2 DEF CasHead, Moves
<1>4. CASE local' = [local EXCEPT ![t].pc = "readHead"] /\ UNCHANGED <<head, request>>
  BY <1>1, <1>2, <1>4 DEF CasHead, Moves, Locals
<1>5. QED
  BY <1>3, <1>4 DEF CasHead

LEMMA StartRoundEffect ==
  ASSUME FcTypeOK, NEW t \in Threads, StartRound(t)
  PROVE  /\ Moves(t, "round", "scan") /\ SameWork(t) /\ local'[t].holds = local[t].holds
         /\ local'[t].round = local[t].round + 1 /\ local'[t].cur = head[local[t].s]
<1>1. local \in [Threads -> Locals]
  BY DEF FcTypeOK
<1>2. QED
  BY <1>1 DEF StartRound, Moves, SameWork, Locals

LEMMA ScanEffect ==
  ASSUME FcTypeOK, NEW t \in Threads, Scan(t)
  PROVE  /\ SameTask(t)
         /\ LET cur == local[t].cur  r == request[local[t].s] IN
            \/ cur = NULL /\ Moves(t, "scan", "round")
            \/ /\ cur # NULL /\ r[cur].pending
               /\ Moves(t, "scan", "serve") /\ local'[t].cur = cur
            \/ /\ cur # NULL /\ ~ r[cur].pending
               /\ Moves(t, "scan", "scan") /\ local'[t].cur = r[cur].next
<1>1. local \in [Threads -> Locals] /\ local[t].pc = "scan"
  BY DEF FcTypeOK, Scan
<1>2. QED
  BY <1>1 DEF Scan, SameTask, SameWork, Moves, Locals

LEMMA ClearEffect ==
  ASSUME FcTypeOK, NEW t \in Threads, Clear(t), local[t].s \in Structs, local[t].cur \in Threads
  PROVE  /\ SameTask(t) /\ Moves(t, "clear", "scan")
         /\ local'[t].cur = request[local[t].s][local[t].cur].next
         /\ ~ request'[local[t].s][local[t].cur].pending
         /\ \A s \in Structs, u \in Threads : s # local[t].s \/ u # local[t].cur
              => request'[s][u].pending = request[s][u].pending
<1>1. local \in [Threads -> Locals] /\ request \in [Structs -> [Threads -> Requests]]
  BY DEF FcTypeOK
<1>2. SameTask(t) /\ Moves(t, "clear", "scan")
      /\ local'[t].cur = request[local[t].s][local[t].cur].next
  BY <1>1 DEF Clear, SameTask, SameWork, Moves, Locals
<1>3. ~ request'[local[t].s][local[t].cur].pending
  BY <1>1 DEF Clear, Requests
<1>4. \A s \in Structs, u \in Threads : s # local[t].s \/ u # local[t].cur
        => request'[s][u].pending = request[s][u].pending
  BY <1>1 DEF Clear, Requests
<1>5. QED
  BY <1>2, <1>3, <1>4

LEMMA UnlockEffect ==
  ASSUME FcTypeOK, NEW t \in Threads, Unlock(t)
  PROVE  /\ Moves(t, "round", "done") /\ SameWork(t) /\ ~ local'[t].holds
         /\ local[t].round = RoundMax /\ local'[t].res = Mine(t).value
         /\ lock' = [lock EXCEPT ![local[t].s] = FALSE]
<1>1. local \in [Threads -> Locals]
  BY DEF FcTypeOK
<1> DEFINE value == Mine(t).value
<1>2. local' = [local EXCEPT ![t] = [@ EXCEPT !.pc = "done", !.holds = FALSE, !.res = value]]
  BY DEF Unlock
<1> HIDE DEF value
<1>3. local'[t].pc = "done" /\ SameWork(t) /\ ~ local'[t].holds /\ local'[t].res = value
  BY <1>1, <1>2 DEF SameWork, Locals
<1>4. QED
  BY <1>3 DEF Unlock, Moves, value

LEMMA ReturnEffect ==
  ASSUME FcTypeOK, NEW t \in Threads, Return(t)
  PROVE  Moves(t, "done", "idle") /\ ~ local'[t].holds /\ local'[t] = Idle
  BY DEF FcTypeOK, Return, Moves, Idle

-----------------------------------------------------------------------------
(***************************************************************************)
(* The invariant                                                           *)
(***************************************************************************)
LEMMA NextKeepsView ==
  ASSUME IInv, NEW t \in Threads, FcStep(t), NEW u \in Threads
  PROVE  ThreadView(u)'
<1>0. FcTypeOK /\ ThreadView(t) /\ ThreadView(u)
  BY DEF IInv
<1>1. CASE u # t
  <2>1. SameCall(u)
    BY <1>1, OthersStay
  <2>2. local[u].s \in Structs => SameListing(local[u].s, u)
    BY <1>1, ListingStays
  <2>3. (CallUnderWay(u) /\ ServesSomebody(u) /\ HoldsToCombine(u) /\ CountsFromZero(u))'
    BY <1>0, <2>1 DEF SameCall, ThreadView, CallUnderWay, ServesSomebody, HoldsToCombine,
                      CountsFromZero, Combining, Enlisting
  <2>4. EnlistsOnce(u)'
    BY <1>0, <2>1, <2>2 DEF SameCall, SameListing, ThreadView, CallUnderWay, EnlistsOnce,
                            Enlisting, Mine
  <2>5. QED
    BY <2>3, <2>4 DEF ThreadView
<1>2. CASE u = t
  <2> DEFINE s == local[t].s
  <2> USE DEF Moves, SameTask, SameWork
  <2>1. ASSUME NEW r \in Structs, NEW v \in Arguments[r], Invoke(t, r, v) PROVE ThreadView(t)'
    <3>1. Begins(t, r, v) /\ v \in Int
      BY <1>0, <2>1, InvokeEffect, FcStackAssumption
    <3>2. QED
      BY <3>1 DEF Begins, ThreadView, CallUnderWay, ServesSomebody, HoldsToCombine,
                  CountsFromZero, EnlistsOnce, Combining, Enlisting
  <2>2. CASE TryLock(t)
    <3>1. local[t].pc = "try" /\ s \in Structs /\ local[t].value \in Int
      BY <1>0, <2>2 DEF TryLock, ThreadView, CallUnderWay
    <3>2. /\ local'[t].s = s /\ local'[t].value = local[t].value
          /\ local'[t].round = local[t].round /\ local'[t].pc \in {"round", "readHead", "wait"}
          /\ local'[t].pc \in {"round", "readHead"} => local'[t].holds
          /\ local'[t].pc = "wait" => ~ local'[t].holds
          /\ local'[t].pc = "readHead" => ~ Mine(t).active
      BY <1>0, <2>2, TryLockEffect
         DEF ThreadView, HoldsToCombine, Combining, Enlisting
    <3>3. ~ Mine(t).active => Mine(t).place = 0
      <4>1. request[s][t] \in Requests /\ (request[s][t].place > 0 => request[s][t].active)
        BY <1>0, <3>1 DEF IInv, FcTypeOK, ListIsWhole, Listed
      <4>2. QED
        BY <4>1, Fields DEF Mine
    <3>4. UNCHANGED request
      BY <2>2 DEF TryLock
    <3>5. EnlistsOnce(t)'
      BY <3>1, <3>2, <3>3, <3>4 DEF EnlistsOnce, Enlisting, Mine
    <3>6. QED
      BY <1>0, <1>2, <3>1, <3>2, <3>5
         DEF ThreadView, CallUnderWay, ServesSomebody, HoldsToCombine, CountsFromZero,
             Combining, Enlisting
  <2>3. CASE Wait(t)
    <3>1. local[t].pc = "wait" /\ s \in Structs /\ ~ local[t].holds /\ UNCHANGED request
      BY <1>0, <2>3 DEF Wait, ThreadView, CallUnderWay, HoldsToCombine, Combining, Enlisting
    <3>2. /\ SameTask(t) /\ local'[t].pc \in {"done", "readHead", "try"}
          /\ local'[t].pc = "readHead" => ~ Mine(t).active
      BY <1>0, <2>3, WaitEffect
    <3>3. ~ Mine(t).active => Mine(t).place = 0
      <4>1. request[s][t] \in Requests /\ (request[s][t].place > 0 => request[s][t].active)
        BY <1>0, <3>1 DEF IInv, FcTypeOK, ListIsWhole, Listed
      <4>2. QED
        BY <4>1, Fields DEF Mine
    <3>4. EnlistsOnce(t)'
      BY <3>1, <3>2, <3>3 DEF EnlistsOnce, Enlisting, Mine
    <3>5. QED
      BY <1>0, <1>2, <3>1, <3>2, <3>4
         DEF ThreadView, CallUnderWay, ServesSomebody, HoldsToCombine, CountsFromZero,
             Combining, Enlisting
  <2>4. CASE ReadHead(t)
    <3>1. s \in Structs
      BY <1>0, <2>4 DEF ReadHead, ThreadView, CallUnderWay
    <3>2. SameTask(t) /\ Moves(t, "readHead", "casHead") /\ EnlistsOnce(t)'
      BY <1>0, <2>4, <3>1, ReadHeadEffect DEF ThreadView, EnlistsOnce, Enlisting, Mine
    <3>3. QED
      BY <1>0, <1>2, <3>1, <3>2
         DEF ThreadView, CallUnderWay, ServesSomebody, HoldsToCombine, CountsFromZero,
             Combining, Enlisting
  <2>5. CASE CasHead(t)
    <3>1. s \in Structs
      BY <1>0, <2>5 DEF CasHead, ThreadView, CallUnderWay
    <3>2. /\ SameTask(t) /\ local[t].pc = "casHead"
          /\ \/ local'[t].pc = IF local[t].holds THEN "round" ELSE "try"
             \/ local'[t].pc = "readHead" /\ UNCHANGED request
      BY <1>0, <2>5, <3>1, CasHeadEffect
    <3>3. EnlistsOnce(t)'
      BY <1>0, <3>2 DEF ThreadView, EnlistsOnce, Enlisting, Mine
    <3>4. QED
      BY <1>0, <1>2, <3>1, <3>2, <3>3
         DEF ThreadView, CallUnderWay, ServesSomebody, HoldsToCombine, CountsFromZero,
             Combining, Enlisting
  <2>6. CASE StartRound(t) \/ Scan(t) \/ Clear(t) \/ Answers(t)
    <3>1. Combining(t) /\ s \in Structs /\ local[t].value \in Int
          /\ (local[t].pc = "clear" => local[t].cur \in Threads)
      BY <1>0, <2>6 DEF StartRound, Scan, Clear, Answers, Answer, Serving, Combining,
                        ThreadView, CallUnderWay, ServesSomebody
    <3>2. /\ Combining(t)' /\ local'[t].s = s /\ local'[t].value = local[t].value
          /\ local'[t].holds = local[t].holds
          /\ local'[t].pc \in {"serve", "clear"} => local'[t].cur = local[t].cur
          /\ local'[t].pc = "serve" => local[t].pc = "scan" /\ local[t].cur # NULL
          /\ local'[t].pc = "clear" => local[t].pc = "serve"
      <4>1. CASE StartRound(t)
        BY <1>0, <4>1, StartRoundEffect DEF Combining
      <4>2. CASE Scan(t)
        BY <1>0, <4>2, ScanEffect DEF Combining
      <4>3. CASE Clear(t)
        BY <1>0, <3>1, <4>3, ClearEffect DEF Combining, Clear
      <4>4. CASE Answers(t)
        BY <1>0, <4>4, ServeEffect DEF Combining
      <4>5. QED
        BY <2>6, <4>1, <4>2, <4>3, <4>4
    <3>3. local[t].cur \in OrNull(Threads)
      BY <1>0, Fields DEF FcTypeOK
    <3>4. QED
      BY <1>0, <1>2, <3>1, <3>2, <3>3
         DEF ThreadView, CallUnderWay, ServesSomebody, HoldsToCombine, CountsFromZero,
             EnlistsOnce, Combining, Enlisting, OrNull
  <2>7. CASE Unlock(t)
    <3>1. s \in Structs /\ local[t].value \in Int
      BY <1>0, <2>7 DEF Unlock, ThreadView, CallUnderWay
    <3>2. QED
      BY <1>0, <1>2, <2>7, <3>1, UnlockEffect
         DEF ThreadView, CallUnderWay, ServesSomebody, HoldsToCombine, CountsFromZero,
             EnlistsOnce, Combining, Enlisting
  <2>8. CASE Return(t)
    BY <1>0, <1>2, <2>8, ReturnEffect
       DEF ThreadView, CallUnderWay, ServesSomebody, HoldsToCombine, CountsFromZero,
           EnlistsOnce, Combining, Enlisting, Idle
  <2>9. QED
    BY <1>2, <2>1, <2>2, <2>3, <2>4, <2>5, <2>6, <2>7, <2>8 DEF FcStep, Protocol
<1>3. QED
  BY <1>1, <1>2

\* Who holds a lock changes with the lock.
LEMMA NextKeepsOneCombiner ==
  ASSUME IInv, NEW t \in Threads, FcStep(t)
  PROVE  OneCombiner'
<1>0. FcTypeOK /\ ThreadView(t) /\ OneCombiner
  BY DEF IInv
<1>1. \A u \in Threads : u # t => local'[u].s = local[u].s /\ local'[u].holds = local[u].holds
  BY OthersStay DEF SameCall
<1> USE DEF Moves, SameTask, SameWork
<1>2. CASE UNCHANGED lock /\ local'[t].holds = local[t].holds
           /\ (local'[t].s = local[t].s \/ ~ local[t].holds)
  BY <1>0, <1>1, <1>2 DEF OneCombiner, Callers
<1>3. CASE TryLock(t)
  <2>1. local[t].s \in Structs /\ local'[t].s = local[t].s
    BY <1>0, <1>3, TryLockEffect DEF TryLock, ThreadView, CallUnderWay
  <2>2. CASE UNCHANGED lock /\ local'[t].holds = local[t].holds
    BY <1>2, <2>1, <2>2
  <2>3. CASE ~ lock[local[t].s] /\ local'[t].holds
             /\ lock' = [lock EXCEPT ![local[t].s] = TRUE]
    <3>1. lock \in [Structs -> BOOLEAN]
      BY <1>0 DEF FcTypeOK
    <3>2. QED
      BY <1>0, <1>1, <2>1, <2>3, <3>1 DEF OneCombiner, Callers
  <2>4. QED
    BY <1>0, <1>3, <2>2, <2>3, TryLockEffect
<1>4. CASE Unlock(t)
  <2>1. /\ local[t].s \in Structs /\ local'[t].s = local[t].s
        /\ local[t].holds /\ ~ local'[t].holds
        /\ lock' = [lock EXCEPT ![local[t].s] = FALSE]
    BY <1>0, <1>4, UnlockEffect
       DEF Unlock, ThreadView, CallUnderWay, HoldsToCombine, Combining
  <2>2. lock \in [Structs -> BOOLEAN]
    BY <1>0 DEF FcTypeOK
  <2>3. QED
    BY <1>0, <1>1, <2>1, <2>2 DEF OneCombiner, Callers
<1>5. ASSUME NEW r \in Structs, NEW v \in Arguments[r], Invoke(t, r, v) PROVE OneCombiner'
  <2>1. Begins(t, r, v) /\ ~ local[t].holds /\ UNCHANGED lock
    BY <1>0, <1>5, InvokeEffect
       DEF Invoke, ThreadView, HoldsToCombine, Combining, Enlisting
  <2>2. QED
    BY <1>0, <1>1, <2>1 DEF OneCombiner, Callers, Begins
<1>6. CASE Return(t)
  <2>1. ~ local[t].holds /\ ~ local'[t].holds /\ UNCHANGED lock
    BY <1>0, <1>6, ReturnEffect DEF Return, ThreadView, HoldsToCombine, Combining, Enlisting
  <2>2. QED
    BY <1>0, <1>1, <2>1 DEF OneCombiner, Callers
<1>7. CASE Wait(t) \/ ReadHead(t) \/ CasHead(t) \/ StartRound(t) \/ Scan(t) \/ Clear(t) \/ Answers(t)
  <2>1. local[t].pc # "idle"
    BY <1>7 DEF Wait, ReadHead, CasHead, StartRound, Scan, Clear, Answers, Answer, Serving
  <2>2. local[t].s \in Structs /\ (local[t].pc = "clear" => local[t].cur \in Threads)
    BY <1>0, <2>1 DEF ThreadView, CallUnderWay, ServesSomebody
  <2>3. UNCHANGED lock
    BY <1>7 DEF Wait, ReadHead, CasHead, StartRound, Scan, Clear, Answers, Answer
  <2>4. local'[t].s = local[t].s /\ local'[t].holds = local[t].holds
    <3>1. CASE Wait(t)
      BY <1>0, <3>1, WaitEffect
    <3>2. CASE ReadHead(t)
      BY <1>0, <2>2, <3>2, ReadHeadEffect
    <3>3. CASE CasHead(t)
      BY <1>0, <2>2, <3>3, CasHeadEffect
    <3>4. CASE StartRound(t)
      BY <1>0, <3>4, StartRoundEffect
    <3>5. CASE Scan(t)
      BY <1>0, <3>5, ScanEffect
    <3>6. CASE Clear(t)
      BY <1>0, <2>2, <3>6, ClearEffect DEF Clear
    <3>7. CASE Answers(t)
      BY <3>7, ServeEffect
    <3>8. QED
      BY <1>7, <3>1, <3>2, <3>3, <3>4, <3>5, <3>6, <3>7
  <2>5. QED
    BY <1>2, <2>3, <2>4
<1>8. QED
  BY <1>3, <1>4, <1>5, <1>6, <1>7 DEF FcStep, Protocol

\* What ListIsWhole says of one structure, one conjunct at a time.
ActiveIsListed(s) == \A t \in Threads :
  request[s][t].active => t \in Listed(s) \/ (t \in Callers(s) /\ Enlisting(t))
ListedIsActive(s) == \A t \in Listed(s) : request[s][t].active
LinkLeadsDown(s) == \A t \in Listed(s) :
  LET next == request[s][t].next IN
  IF request[s][t].place = 1 THEN next = NULL
  ELSE next \in Threads /\ request[s][next].place = request[s][t].place - 1
OnePlaceEach(s) ==
  \A t, u \in Listed(s) : request[s][t].place = request[s][u].place => t = u
HeadIsHighest(s) ==
  IF head[s] = NULL THEN Listed(s) = {}
  ELSE /\ head[s] \in Listed(s)
       /\ \A t \in Listed(s) : request[s][t].place <= request[s][head[s]].place

Whole(s) == /\ ActiveIsListed(s) /\ ListedIsActive(s) /\ LinkLeadsDown(s)
            /\ OnePlaceEach(s) /\ HeadIsHighest(s)

LEMMA ListIsWholeByStruct == ListIsWhole <=> \A s \in Structs : Whole(s)
  BY DEF ListIsWhole, Whole, ActiveIsListed, ListedIsActive, LinkLeadsDown, OnePlaceEach,
         HeadIsHighest

\* A list that is not touched stays whole, if nobody stops enlisting in it.
LEMMA UntouchedStaysWhole ==
  ASSUME NEW s \in Structs, Whole(s), head'[s] = head[s],
         \A u \in Threads : SameListing(s, u),
         \A u \in Threads : u \in Callers(s) /\ Enlisting(u)
           => local'[u].s = local[u].s /\ Enlisting(u)'
  PROVE  Whole(s)'
<1>1. Listed(s)' = Listed(s)
  BY DEF Listed, SameListing
<1>2. ActiveIsListed(s)' /\ ListedIsActive(s)'
  BY <1>1 DEF Whole, ActiveIsListed, ListedIsActive, Listed, Callers, SameListing
<1>3. LinkLeadsDown(s)'
  BY <1>1 DEF Whole, LinkLeadsDown, Listed, SameListing
<1>4. OnePlaceEach(s)' /\ HeadIsHighest(s)'
  BY <1>1 DEF Whole, OnePlaceEach, HeadIsHighest, Listed, SameListing
<1>5. QED
  BY <1>2, <1>3, <1>4 DEF Whole

LEMMA NextKeepsListWhole ==
  ASSUME IInv, NEW t \in Threads, FcStep(t), NEW s \in Structs
  PROVE  Whole(s)'
<1>0. FcTypeOK /\ ThreadView(t) /\ Whole(s)
  BY ListIsWholeByStruct DEF IInv
<1>1. \A u \in Threads : u # t =>
        local'[u].s = local[u].s /\ local'[u].pc = local[u].pc /\ SameListing(s, u)
  BY OthersStay, ListingStays DEF SameCall
<1> USE DEF Moves, SameTask, SameWork
<1>2. CASE ~ ReadHead(t) /\ ~ CasHead(t)
  <2>1. \A u \in Threads : SameListing(s, u)
    BY <1>2, ListingStays
  <2>2. ~ Enlisting(t)
    BY <1>2 DEF FcStep, Protocol, Invoke, TryLock, Wait, StartRound, Scan, Clear, Unlock, Return,
                Answers, Answer, Serving, Enlisting
  <2>3. UNCHANGED head
    BY <1>2 DEF FcStep, Protocol, Invoke, TryLock, Wait, StartRound, Scan, Clear, Unlock, Return,
                Answers, Answer
  <2>4. QED
    BY <1>0, <1>1, <2>1, <2>2, <2>3, UntouchedStaysWhole DEF Enlisting
<1>3. CASE ReadHead(t)
  <2>1. local[t].s \in Structs /\ local[t].pc = "readHead"
    BY <1>0, <1>3 DEF ReadHead, ThreadView, CallUnderWay
  <2>2. /\ local'[t].s = local[t].s /\ local'[t].pc = "casHead" /\ UNCHANGED head
        /\ request'[local[t].s][t].place = 0
    BY <1>0, <1>3, <2>1, ReadHeadEffect DEF ThreadView, EnlistsOnce, Enlisting, Mine
  <2>3. CASE local[t].s # s
    <3>1. SameListing(s, t)
      BY <1>3, <2>3, ListingStays
    <3>2. QED
      BY <1>0, <1>1, <2>2, <3>1, UntouchedStaysWhole DEF Enlisting
  <2>4. CASE local[t].s = s
    <3>1. t \notin Listed(s) /\ t \notin Listed(s)'
      BY <1>0, <2>1, <2>2, <2>4 DEF ThreadView, EnlistsOnce, Enlisting, Listed, Mine
    <3>2. Listed(s)' = Listed(s)
      BY <1>1, <3>1 DEF Listed, SameListing
    <3>3. ActiveIsListed(s)'
      BY <1>0, <1>1, <2>2, <2>4, <3>2
         DEF Whole, ActiveIsListed, Callers, Enlisting, SameListing
    <3>4. ListedIsActive(s)'
      BY <1>0, <1>1, <3>1, <3>2 DEF Whole, ListedIsActive, Listed, SameListing
    <3>5. \A u \in Threads : request'[s][u].place = request[s][u].place
      BY <1>0, <1>1, <2>1, <2>2, <2>4 DEF ThreadView, EnlistsOnce, Enlisting, Mine, SameListing
    <3>6. LinkLeadsDown(s)'
      BY <1>0, <1>1, <3>1, <3>2, <3>5 DEF Whole, LinkLeadsDown, Listed, SameListing
    <3>7. OnePlaceEach(s)' /\ HeadIsHighest(s)'
      BY <1>0, <2>2, <3>2, <3>5 DEF Whole, OnePlaceEach, HeadIsHighest, Listed
    <3>8. QED
      BY <3>3, <3>4, <3>6, <3>7 DEF Whole
  <2>5. QED
    BY <2>3, <2>4
<1>4. CASE CasHead(t)
  <2>1. local[t].s \in Structs /\ local[t].pc = "casHead"
    BY <1>0, <1>4 DEF CasHead, ThreadView, CallUnderWay
  <2>2. local'[t].s = local[t].s
    BY <1>0, <1>4, <2>1, CasHeadEffect
  <2>3. CASE local'[t].pc = "readHead" /\ UNCHANGED <<head, request>>
    <3>1. \A u \in Threads : SameListing(s, u)
      BY <2>3 DEF SameListing
    <3>2. QED
      BY <1>0, <1>1, <2>2, <2>3, <3>1, UntouchedStaysWhole DEF Enlisting
  <2>4. CASE /\ head[local[t].s] = local[t].supposed
             /\ head' = [head EXCEPT ![local[t].s] = t]
             /\ LET new == request'[local[t].s][t] IN
                  /\ new.active = Mine(t).active /\ new.next = Mine(t).next
                  /\ new.place = NewPlace(local[t].s)
    <3>0. head \in [Structs -> OrNull(Threads)]
      BY <1>0 DEF FcTypeOK
    <3>1. CASE local[t].s # s
      <4>1. SameListing(s, t) /\ head'[s] = head[s]
        BY <2>4, <3>0, <3>1, ListingStays
      <4>2. QED
        BY <1>0, <1>1, <2>2, <3>1, <4>1, UntouchedStaysWhole DEF Callers, Enlisting
    <3>2. CASE local[t].s = s
      <4> DEFINE old == head[s]
                 place(u) == request[s][u].place
      <4>1. /\ head'[s] = t /\ request'[s][t].active /\ request'[s][t].next = old
            /\ place(t) = 0 /\ t \notin Listed(s)
            /\ request'[s][t].place = NewPlace(s)
        BY <1>0, <2>1, <2>4, <3>0, <3>2
           DEF ThreadView, EnlistsOnce, Enlisting, Listed, Mine
      <4>2. \A u \in Threads : place(u) \in Nat
        BY <1>0, Fields DEF FcTypeOK
      <4>3. old # NULL => old \in Listed(s) /\ old \in Threads /\ old # t
        BY <1>0, <4>1 DEF Whole, HeadIsHighest, Listed
      <4>4. NewPlace(s) = IF old = NULL THEN 1 ELSE place(old) + 1
        BY DEF NewPlace
      <4>5. NewPlace(s) \in Nat /\ NewPlace(s) > 0 /\ \A u \in Listed(s) : place(u) < NewPlace(s)
        BY <1>0, <4>2, <4>3, <4>4 DEF Whole, HeadIsHighest, Listed
      <4>6. Listed(s)' = Listed(s) \cup {t}
        BY <1>1, <4>1, <4>5 DEF Listed, SameListing
      <4>7. ActiveIsListed(s)'
        BY <1>0, <1>1, <4>6 DEF Whole, ActiveIsListed, Callers, Enlisting, SameListing
      <4>8. ListedIsActive(s)'
        BY <1>0, <1>1, <4>1, <4>6 DEF Whole, ListedIsActive, Listed, SameListing
      <4>9. \A u \in Threads : request'[s][u].place = IF u = t THEN NewPlace(s) ELSE place(u)
        BY <1>1, <4>1 DEF SameListing
      <4>10. LinkLeadsDown(s)'
        <5>1. SUFFICES ASSUME NEW u \in Listed(s)'
                       PROVE  IF request'[s][u].place = 1 THEN request'[s][u].next = NULL
                              ELSE /\ request'[s][u].next \in Threads
                                   /\ request'[s][request'[s][u].next].place
                                        = request'[s][u].place - 1
          BY DEF LinkLeadsDown
        <5>2. CASE u = t
          BY <4>1, <4>2, <4>3, <4>4, <4>9, <5>2 DEF Listed
        <5>3. CASE u # t
          <6>1. u \in Listed(s) /\ u \in Threads /\ request'[s][u].next = request[s][u].next
            BY <1>1, <4>6, <5>3 DEF Listed, SameListing
          <6>2. CASE place(u) = 1
            BY <1>0, <4>9, <5>3, <6>1, <6>2 DEF Whole, LinkLeadsDown
          <6>3. CASE place(u) # 1
            <7>1. request[s][u].next \in Threads
                  /\ place(request[s][u].next) = place(u) - 1
              BY <1>0, <6>1, <6>3 DEF Whole, LinkLeadsDown
            <7>2. place(u) > 1
              BY <4>2, <6>1, <6>3 DEF Listed
            <7>3. request[s][u].next # t
              BY <4>1, <4>2, <6>1, <7>1, <7>2
            <7>4. QED
              BY <4>9, <5>3, <6>1, <6>3, <7>1, <7>3
          <6>4. QED
            BY <6>2, <6>3
        <5>4. QED
          BY <5>2, <5>3
      <4>11. OnePlaceEach(s)'
        BY <1>0, <4>2, <4>5, <4>6, <4>9 DEF Whole, OnePlaceEach, Listed
      <4>12. HeadIsHighest(s)'
        <5>1. t # NULL
          BY FlatCombiningAssumption
        <5>2. \A u \in Listed(s)' : request'[s][u].place <= NewPlace(s)
          BY <4>2, <4>5, <4>6, <4>9 DEF Listed
        <5>3. QED
          BY <4>1, <4>6, <4>9, <5>1, <5>2 DEF HeadIsHighest
      <4>13. QED
        BY <4>7, <4>8, <4>10, <4>11, <4>12 DEF Whole
    <3>3. QED
      BY <3>1, <3>2
  <2>5. QED
    BY <1>0, <1>4, <2>1, <2>3, <2>4, CasHeadEffect
<1>5. QED
  BY <1>2, <1>3, <1>4

LEMMA InitInvariant == FcInit => IInv
<1> SUFFICES ASSUME FcInit PROVE IInv
  OBVIOUS
<1>1. /\ \A s \in Structs : head[s] = NULL /\ ~ lock[s]
      /\ \A s \in Structs, t \in Threads : request[s][t] = Request
      /\ \A t \in Threads : local[t] = Idle
  BY DEF FcInit
<1>2. FcTypeOK
  BY IdleTypes DEF FcInit, FcTypeOK, OrNull
<1>3. OneCombiner
  BY <1>1 DEF OneCombiner, Callers, Idle
<1>4. ListIsWhole
  BY <1>1 DEF ListIsWhole, Listed, Request
<1>5. ASSUME NEW t \in Threads PROVE ThreadView(t)
  <2>1. local[t].pc = "idle" /\ ~ local[t].holds /\ local[t].round = 0
    BY <1>1 DEF Idle
  <2>2. QED
    BY <2>1 DEF ThreadView, CallUnderWay, ServesSomebody, HoldsToCombine, EnlistsOnce,
                CountsFromZero, Combining, Enlisting
<1>6. QED
  BY <1>2, <1>3, <1>4, <1>5 DEF IInv

LEMMA NextKeepsInvariant == IInv /\ FcNext => IInv'
<1> SUFFICES ASSUME IInv, FcNext PROVE IInv'
  OBVIOUS
<1>1. CASE UNCHANGED fcVars
  <2>1. UNCHANGED <<head, lock, request, local>>
    BY <1>1 DEF fcVars
  <2>2. FcTypeOK'
    BY NextKeepsTypes
  <2>3. OneCombiner'
    BY <2>1 DEF IInv, OneCombiner, Callers
  <2>4. ListIsWhole'
    BY <2>1 DEF IInv, ListIsWhole, Listed, Callers, Enlisting
  <2>5. ASSUME NEW t \in Threads PROVE ThreadView(t)'
    <3>1. ThreadView(t)
      BY DEF IInv
    <3>2. QED
      BY <2>1, <3>1 DEF ThreadView, CallUnderWay, ServesSomebody, HoldsToCombine, EnlistsOnce,
                        CountsFromZero, Combining, Enlisting, Mine
  <2>6. QED
    BY <2>2, <2>3, <2>4, <2>5 DEF IInv
<1>2. CASE \E t \in Threads : FcStep(t)
  <2>1. FcTypeOK'
    BY NextKeepsTypes
  <2>2. ListIsWhole'
    BY <1>2, NextKeepsListWhole DEF ListIsWhole, Whole, ActiveIsListed, ListedIsActive,
       LinkLeadsDown, OnePlaceEach, HeadIsHighest
  <2>3. QED
    BY <1>2, <2>1, <2>2, NextKeepsOneCombiner, NextKeepsView DEF IInv
<1>3. QED
  BY <1>1, <1>2 DEF FcNext

-----------------------------------------------------------------------------
(***************************************************************************)
(* The stack                                                               *)
(***************************************************************************)
LEMMA NextIsFcNext ==
  ASSUME IInv, top \in Seq(Int), [Next]_vars
  PROVE  top' \in Seq(Int) /\ FcNext
<1>1. CASE UNCHANGED vars
  BY <1>1 DEF vars, FcNext, fcVars
<1>2. ASSUME NEW t \in Threads, Serve(t) PROVE top' \in Seq(Int) /\ Answers(t)
  <2> DEFINE after == SerialPushPop(local[t].value, top)
  <2>1. local[t].value \in Int
    BY <1>2 DEF IInv, ThreadView, CallUnderWay, Serve, Answer, Serving
  <2>2. after.object \in Seq(Int) /\ after.answer \in Int
    BY <2>1, SerialTypes
  <2>3. top' = after.object /\ Answer(t, after.answer)
    BY <1>2 DEF Serve
  <2> HIDE DEF after
  <2>4. QED
    BY <2>2, <2>3 DEF Answers
<1>3. QED
  BY <1>1, <1>2 DEF Next, Terminating, Step, FcStep, FcNext, vars, fcVars

LEMMA InvariantHolds == Spec => [](IInv /\ top \in Seq(Int))
<1>1. Init => IInv /\ top \in Seq(Int)
  BY InitInvariant DEF Init
<1>2. IInv /\ top \in Seq(Int) /\ [Next]_vars => (IInv /\ top \in Seq(Int))'
  BY NextIsFcNext, NextKeepsInvariant
<1>3. QED
  BY <1>1, <1>2, PTL DEF Spec

\* The variables keep their types.
THEOREM TypeCorrect == Spec => []TypeOK
<1>1. IInv /\ top \in Seq(Int) => TypeOK
  BY DEF IInv, TypeOK
<1>2. QED
  BY <1>1, InvariantHolds, PTL

\* TryLock and the unlocking store of FcApplyOp let one thread combine at a
\* time, and the lock is held only while one does.
THEOREM CombinesAlone == Spec => []OneCombiner
<1>1. IInv => OneCombiner
  BY DEF IInv
<1>2. QED
  BY <1>1, InvariantHolds, PTL

\* FcEnqueueRequest keeps the list whole, however many threads enlist at the
\* same time and while somebody walks the list.
THEOREM NobodyIsOverlooked == Spec => []ListIsWhole
<1>1. IInv => ListIsWhole
  BY DEF IInv
<1>2. QED
  BY <1>1, InvariantHolds, PTL

-----------------------------------------------------------------------------
(***************************************************************************)
(* Refinement: what is known of a request while it waits.                  *)
(***************************************************************************)
Walking(t) == local[t].pc \in {"scan", "serve", "clear"}
Clearing(c, s, t) == local[c].pc = "clear" /\ local[c].s = s /\ local[c].cur = t

\* A request is pending only for a call under way, and until it is answered;
\* between the answer and the flag its combiner is at "clear".
PendingIsOpen(s, t) == request[s][t].pending =>
  /\ local[t].pc \notin {"idle", "done"} /\ local[t].s = s
  /\ local[t].served = 0 \/ \E c \in Threads : Clearing(c, s, t)

\* A flag that is down was lowered after an answer.
DownIsAnswered(t) ==
  /\ local[t].pc # "idle" /\ ~ Mine(t).pending => local[t].served > 0
  /\ local[t].pc = "done" => local[t].served > 0

\* The pass stands at a listed request, and a combiner that has not yet
\* been served stands at its own request or before it.
PassReachesOwn(t) ==
  LET me == local[t]  r == request[me.s] IN
  /\ Combining(t) => r[t].place > 0
  /\ me.pc = "round" => me.round = 0 \/ ~ r[t].pending
  /\ Walking(t) /\ me.cur # NULL => r[me.cur].place > 0
  /\ Walking(t) /\ r[t].pending => me.cur # NULL /\ r[t].place <= r[me.cur].place
  /\ Walking(t) => me.round > 0

ServesPending(t) ==
  LET me == local[t] IN
  /\ me.pc \in {"serve", "clear"} => request[me.s][me.cur].pending
  /\ me.pc = "clear" => local[me.cur].served > 0

WaitView(t) == DownIsAnswered(t) /\ PassReachesOwn(t) /\ ServesPending(t)

RInv == /\ IInv
        /\ \A s \in Structs, t \in Threads : PendingIsOpen(s, t)
        /\ \A t \in Threads : WaitView(t)

\* Who answers, and who raises and lowers the flags.
LEMMA ServedStays ==
  ASSUME IInv, NEW t \in Threads, FcStep(t), NEW u \in Threads, u # t
  PROVE  \/ local'[u].served = local[u].served
         \/ Answers(t) /\ u = local[t].cur /\ local'[u].served = local[u].served + 1
<1>1. local \in [Threads -> Locals]
  BY DEF IInv, FcTypeOK
<1>2. CASE Answers(t)
  BY <1>2, ServeEffect
<1>3. CASE Protocol(t)
  BY <1>1, <1>3 DEF Protocol, Invoke, TryLock, Combine, Wait, ReadHead, CasHead, StartRound,
                    Scan, Clear, Unlock, Return
<1>4. QED
  BY <1>2, <1>3 DEF FcStep

LEMMA PendingStays ==
  ASSUME IInv, NEW t \in Threads, FcStep(t), NEW s \in Structs, NEW u \in Threads
  PROVE  \/ request'[s][u].pending = request[s][u].pending
         \/ /\ Clear(t) /\ s = local[t].s /\ u = local[t].cur /\ ~ request'[s][u].pending
         \/ u = t /\ request'[s][u].pending /\ \E v \in Arguments[s] : Invoke(t, s, v)
<1>1. FcTypeOK /\ request \in [Structs -> [Threads -> Requests]] /\ ThreadView(t)
  BY DEF IInv, FcTypeOK
<1>2. CASE Answers(t)
  BY <1>2, ServeEffect
<1>3. ASSUME NEW r \in Structs, NEW v \in Arguments[r], Invoke(t, r, v)
      PROVE  \/ request'[s][u].pending = request[s][u].pending
             \/ u = t /\ r = s /\ request'[s][u].pending
  <2>1. CASE u = t /\ r = s
    <3>1. request'[s][t] = [request[s][t] EXCEPT !.value = v, !.pending = TRUE]
      BY <1>1, <1>3, <2>1 DEF Invoke
    <3>2. request'[s][t].pending
      BY <1>1, <3>1 DEF Requests
    <3>3. QED
      BY <2>1, <3>2
  <2>2. CASE u # t \/ r # s
    <3>1. request'[s][u] = request[s][u]
      BY <1>1, <1>3, <2>2 DEF Invoke
    <3>2. QED
      BY <3>1
  <2>3. QED
    BY <2>1, <2>2
<1>4. CASE Clear(t)
  <2>1. local[t].s \in Structs /\ local[t].cur \in Threads
    BY <1>1, <1>4 DEF Clear, ThreadView, CallUnderWay, ServesSomebody
  <2>2. QED
    BY <1>1, <1>4, <2>1, ClearEffect
<1>5. CASE ReadHead(t) \/ CasHead(t)
  <2>1. local[t].s \in Structs
    BY <1>1, <1>5 DEF ReadHead, CasHead, ThreadView, CallUnderWay
  <2>2. CASE u = t /\ s = local[t].s
    BY <1>1, <1>5, <2>1, <2>2, ReadHeadEffect, CasHeadEffect DEF Mine
  <2>3. CASE u # t \/ s # local[t].s
    <3>1. request'[s][u] = request[s][u]
      BY <1>1, <1>5, <2>3 DEF ReadHead, CasHead
    <3>2. QED
      BY <3>1
  <2>4. QED
    BY <2>2, <2>3
<1>6. CASE TryLock(t) \/ Wait(t) \/ StartRound(t) \/ Scan(t) \/ Unlock(t) \/ Return(t)
  BY <1>6 DEF TryLock, Wait, StartRound, Scan, Unlock, Return
<1>7. QED
  BY <1>2, <1>3, <1>4, <1>5, <1>6 DEF FcStep, Protocol

LEMMA NextKeepsPending ==
  ASSUME RInv, NEW t \in Threads, FcStep(t), NEW s \in Structs, NEW u \in Threads
  PROVE  PendingIsOpen(s, u)'
<1>0. IInv /\ FcTypeOK /\ ThreadView(t) /\ PendingIsOpen(s, u) /\ WaitView(t)
  BY DEF RInv, IInv
<1> USE DEF Moves, SameTask, SameWork
<1>1. SUFFICES ASSUME request'[s][u].pending
               PROVE  /\ local'[u].pc \notin {"idle", "done"} /\ local'[u].s = s
                      /\ local'[u].served = 0 \/ \E c \in Threads : Clearing(c, s, u)'
  BY DEF PendingIsOpen
<1>2. CASE u = t /\ \E v \in Arguments[s] : Invoke(t, s, v)
  <2>1. PICK v \in Arguments[s] : Invoke(t, s, v)
    BY <1>2
  <2>2. QED
    BY <1>0, <1>2, <2>1, InvokeEffect DEF Begins
<1>3. CASE request[s][u].pending /\ ~ (u = t /\ \E v \in Arguments[s] : Invoke(t, s, v))
  <2>1. /\ local[u].pc \notin {"idle", "done"} /\ local[u].s = s
        /\ local[u].served = 0 \/ \E c \in Threads : Clearing(c, s, u)
    BY <1>0, <1>3 DEF PendingIsOpen
  <2>2. ~ (Clear(t) /\ s = local[t].s /\ u = local[t].cur)
    <3>1. CASE Clear(t) /\ s = local[t].s /\ u = local[t].cur
      BY <1>0, <1>1, <3>1, ClearEffect DEF Clear
    <3>2. QED
      BY <3>1
  <2>3. ASSUME NEW c \in Threads, Clearing(c, s, u) PROVE Clearing(c, s, u)'
    <3>1. c # t
      <4>1. CASE c = t
        <5>1. Clear(t)
          BY <2>3, <4>1 DEF Clearing, FcStep, Protocol, Invoke, TryLock, Wait, ReadHead, CasHead,
             StartRound, Scan, Unlock, Return, Answers, Answer, Serving
        <5>2. QED
          BY <2>2, <2>3, <4>1, <5>1 DEF Clearing
      <4>2. QED
        BY <4>1
    <3>2. QED
      BY <1>0, <2>3, <3>1, OthersStay DEF Clearing, SameCall
  <2>4. CASE Answers(t) /\ u = local[t].cur
    <3>1. local[t].s = s
      <4>1. request[local[t].s][u].pending /\ local[t].s \in Structs
        BY <1>0, <2>4, ServeEffect DEF WaitView, ServesPending
      <4>2. QED
        BY <2>1, <4>1 DEF RInv, PendingIsOpen
    <3>2. Clearing(t, s, u)'
      BY <1>0, <2>4, <3>1, ServeEffect DEF Clearing
    <3>3. local'[u].pc \notin {"idle", "done"} /\ local'[u].s = s
      BY <1>0, <2>1, <2>4, ServeEffect DEF SameCall
    <3>4. QED
      BY <3>2, <3>3
  <2>5. CASE u # t /\ ~ (Answers(t) /\ u = local[t].cur)
    <3>1. SameCall(u) /\ local'[u].served = local[u].served
      BY <1>0, <2>5, OthersStay, ServedStays
    <3>2. QED
      BY <2>1, <2>3, <3>1 DEF SameCall
  <2>6. CASE u = t /\ ~ (Answers(t) /\ u = local[t].cur)
    <3>0. local[t].s \in Structs /\ local[t].pc # "idle" /\ Mine(t).pending
      BY <1>3, <2>1, <2>6 DEF Mine
    <3>1. local'[t].pc \notin {"idle", "done"} /\ local'[t].s = s /\ local'[t].served = local[t].served
      <4>1. CASE TryLock(t)
        BY <1>0, <2>1, <2>6, <4>1, TryLockEffect
      <4>2. CASE Wait(t)
        BY <1>0, <2>1, <2>6, <3>0, <4>2, WaitEffect
      <4>3. CASE ReadHead(t) \/ CasHead(t)
        BY <1>0, <2>1, <2>6, <3>0, <4>3, ReadHeadEffect, CasHeadEffect
      <4>4. CASE StartRound(t) \/ Scan(t)
        BY <1>0, <2>1, <2>6, <4>4, StartRoundEffect, ScanEffect
      <4>5. CASE Clear(t)
        <5>1. local[t].cur \in Threads
          BY <1>0, <4>5 DEF Clear, ThreadView, ServesSomebody
        <5>2. QED
          BY <1>0, <2>1, <2>6, <3>0, <4>5, <5>1, ClearEffect
      <4>6. CASE Answers(t)
        BY <1>0, <2>1, <2>6, <4>6, ServeEffect
      <4>7. ~ Unlock(t) /\ ~ Return(t)
        <5>1. Unlock(t) => local[t].pc = "round" /\ local[t].round # 0
          BY <1>0, FlatCombiningAssumption DEF Unlock
        <5>2. QED
          BY <1>0, <2>1, <2>6, <3>0, <5>1 DEF WaitView, PassReachesOwn, Mine, Return
      <4>8. \A r \in Structs : \A v \in Arguments[r] : ~ Invoke(t, r, v)
        BY <3>0 DEF Invoke
      <4>9. QED
        BY <4>1, <4>2, <4>3, <4>4, <4>5, <4>6, <4>7, <4>8 DEF FcStep, Protocol
    <3>2. QED
      BY <2>1, <2>3, <2>6, <3>1
  <2>7. QED
    BY <2>4, <2>5, <2>6
<1>4. QED
  BY <1>0, <1>1, <1>2, <1>3, PendingStays

\* The number of answers of a call only grows until the call returns.
LEMMA ServedGrows ==
  ASSUME IInv, NEW t \in Threads, FcStep(t), NEW u \in Threads,
         u = t => local[t].pc \notin {"idle", "done"}, local[u].served > 0
  PROVE  local'[u].served > 0
<1>0. FcTypeOK /\ ThreadView(t) /\ local[u].served \in Nat
  BY Fields DEF IInv, FcTypeOK
<1>1. CASE u # t
  BY <1>0, <1>1, ServedStays
<1>2. CASE u = t
  <2> USE DEF SameTask, SameWork
  <2>1. local[t].s \in Structs /\ (local[t].pc = "clear" => local[t].cur \in Threads)
    BY <1>0, <1>2 DEF ThreadView, CallUnderWay, ServesSomebody
  <2>2. CASE TryLock(t) \/ Wait(t)
    BY <1>0, <1>2, <2>2, TryLockEffect, WaitEffect
  <2>3. CASE ReadHead(t) \/ CasHead(t)
    BY <1>0, <1>2, <2>1, <2>3, ReadHeadEffect, CasHeadEffect
  <2>4. CASE StartRound(t) \/ Scan(t) \/ Unlock(t)
    BY <1>0, <1>2, <2>4, StartRoundEffect, ScanEffect, UnlockEffect
  <2>5. CASE Clear(t)
    BY <1>0, <1>2, <2>1, <2>5, ClearEffect DEF Clear
  <2>6. CASE Answers(t)
    BY <1>0, <1>2, <2>6, ServeEffect
  <2>7. ~ Return(t) /\ \A r \in Structs : \A v \in Arguments[r] : ~ Invoke(t, r, v)
    BY <1>2 DEF Return, Invoke
  <2>8. QED
    BY <2>2, <2>3, <2>4, <2>5, <2>6, <2>7 DEF FcStep, Protocol
<1>3. QED
  BY <1>1, <1>2

LEMMA NextKeepsWaitOfOthers ==
  ASSUME RInv, NEW t \in Threads, FcStep(t), NEW u \in Threads, u # t
  PROVE  WaitView(u)'
<1> DEFINE s == local[u].s
           cur == local[u].cur
<1>0. IInv /\ FcTypeOK /\ ThreadView(t) /\ ThreadView(u) /\ WaitView(t) /\ WaitView(u)
  BY DEF RInv, IInv
<1>1. SameCall(u)
  BY <1>0, OthersStay
<1>2. CASE local[u].pc = "idle"
  BY <1>1, <1>2 DEF SameCall, WaitView, DownIsAnswered, PassReachesOwn, ServesPending,
                    Combining, Walking
<1>3. CASE local[u].pc # "idle"
  <2>1. s \in Structs
    BY <1>0, <1>3 DEF ThreadView, CallUnderWay
  <2>2. SameListing(s, u)
    BY <1>0, <2>1, ListingStays
  <2>3. request'[s][u].pending => request[s][u].pending
    BY <1>0, <2>1, PendingStays
  <2>4. DownIsAnswered(u)'
    <3>1. local[u].served > 0 => local'[u].served > 0
      BY <1>0, ServedGrows
    <3>2. ~ request'[s][u].pending => local[u].served > 0
      <4>1. CASE request'[s][u].pending = request[s][u].pending
        BY <1>0, <1>3, <4>1 DEF WaitView, DownIsAnswered, Mine
      <4>2. CASE Clear(t) /\ u = local[t].cur
        BY <1>0, <4>2 DEF Clear, WaitView, ServesPending
      <4>3. QED
        BY <1>0, <2>1, <4>1, <4>2, PendingStays
    <3>3. QED
      BY <1>0, <1>1, <3>1, <3>2 DEF SameCall, WaitView, DownIsAnswered, Mine
  <2>5. Walking(u) /\ cur # NULL => SameListing(s, cur) /\ cur \in Threads
    <3>1. SUFFICES ASSUME Walking(u), cur # NULL PROVE SameListing(s, cur) /\ cur \in Threads
      OBVIOUS
    <3>2. cur \in Threads /\ request[s][cur].place > 0
      BY <1>0, <3>1, Fields DEF FcTypeOK, OrNull, WaitView, PassReachesOwn
    <3>3. cur = t /\ s = local[t].s => ~ ReadHead(t) /\ ~ CasHead(t)
      BY <1>0, <3>2 DEF ReadHead, CasHead, ThreadView, EnlistsOnce, Enlisting, Mine
    <3>4. QED
      BY <1>0, <2>1, <3>2, <3>3, ListingStays
  <2>6. PassReachesOwn(u)'
    BY <1>0, <1>1, <2>2, <2>3, <2>5
       DEF SameCall, SameListing, WaitView, PassReachesOwn, Combining, Walking
  <2>7. ServesPending(u)'
    <3>1. SUFFICES ASSUME local[u].pc \in {"serve", "clear"}
                   PROVE  /\ request'[s][cur].pending
                          /\ local[u].pc = "clear" => local'[cur].served > 0
      BY <1>1 DEF SameCall, ServesPending
    <3>2. cur \in Threads /\ request[s][cur].pending
      BY <1>0, <3>1 DEF ThreadView, ServesSomebody, WaitView, ServesPending
    <3>3. local[cur].pc \notin {"idle", "done"}
      BY <2>1, <3>2 DEF RInv, PendingIsOpen
    <3>4. local[u].pc = "clear" => local'[cur].served > 0
      BY <1>0, <3>2, <3>3, ServedGrows DEF WaitView, ServesPending
    <3>5. ~ (Clear(t) /\ s = local[t].s)
      <4>1. CASE Clear(t) /\ s = local[t].s
        <5>1. local[t].holds /\ local[u].holds
          BY <1>0, <3>1, <4>1 DEF Clear, ThreadView, HoldsToCombine, Combining
        <5>2. QED
          BY <1>0, <2>1, <4>1, <5>1 DEF IInv, OneCombiner, Callers
      <4>2. QED
        BY <4>1
    <3>6. request'[s][cur].pending
      BY <1>0, <2>1, <3>2, <3>5, PendingStays
    <3>7. QED
      BY <3>4, <3>6
  <2>8. QED
    BY <2>4, <2>6, <2>7 DEF WaitView
<1>4. QED
  BY <1>2, <1>3

LEMMA NextKeepsOwnWait ==
  ASSUME RInv, NEW t \in Threads, FcStep(t)
  PROVE  WaitView(t)'
<1> DEFINE s == local[t].s
           cur == local[t].cur
           r == request[s]
<1>0. IInv /\ FcTypeOK /\ ThreadView(t) /\ WaitView(t)
  BY DEF RInv, IInv
<1>a. local[t].pc # "idle" => s \in Structs /\ Whole(s)
  BY <1>0, ListIsWholeByStruct DEF IInv, ThreadView, CallUnderWay
<1>b. s \in Structs => \A u \in Threads : r[u].place \in Nat
  BY <1>0, Fields DEF FcTypeOK
<1> USE DEF Moves, SameTask, SameWork, WaitView
<1>1. ASSUME NEW q \in Structs, NEW v \in Arguments[q], Invoke(t, q, v) PROVE WaitView(t)'
  <2>1. Begins(t, q, v)
    BY <1>0, <1>1, InvokeEffect
  <2>2. request'[q][t].pending
    <3>1. request \in [Structs -> [Threads -> Requests]] /\ request[q][t] \in Requests
      BY <1>0 DEF FcTypeOK
    <3>2. request'[q][t] = [request[q][t] EXCEPT !.value = v, !.pending = TRUE]
      BY <1>1, <3>1 DEF Invoke
    <3>3. QED
      BY <3>1, <3>2 DEF Requests
  <2>3. QED
    BY <2>1, <2>2 DEF Begins, DownIsAnswered, PassReachesOwn, ServesPending, Combining,
                      Walking, Mine
<1>2. CASE TryLock(t)
  <2>1. /\ UNCHANGED request /\ s \in Structs /\ local[t].pc = "try" /\ local[t].round = 0
        /\ Mine(t).active => Mine(t).place > 0
    BY <1>0, <1>a, <1>2
       DEF TryLock, ThreadView, CountsFromZero, Combining, Whole, ActiveIsListed, Listed,
           Enlisting, Mine
  <2>2. /\ local'[t].s = s /\ local'[t].round = 0 /\ local'[t].served = local[t].served
        /\ local'[t].pc \in {"round", "readHead", "wait"}
        /\ local'[t].pc = "round" => Mine(t).active
    BY <1>0, <1>2, <2>1, TryLockEffect
  <2>3. QED
    BY <1>0, <2>1, <2>2
       DEF DownIsAnswered, PassReachesOwn, ServesPending, Combining, Walking, Mine
<1>3. CASE Wait(t)
  <2>1. UNCHANGED request /\ local[t].pc = "wait"
    BY <1>3 DEF Wait
  <2>2. QED
    BY <1>0, <1>3, <2>1, WaitEffect
       DEF DownIsAnswered, PassReachesOwn, ServesPending, Combining, Walking, Mine
<1>4. CASE ReadHead(t) \/ CasHead(t)
  <2>1. s \in Structs /\ Enlisting(t) /\ local[t].pc # "idle"
    BY <1>a, <1>4 DEF ReadHead, CasHead, Enlisting
  <2>2. request'[s][t].pending = r[t].pending
    BY <1>0, <1>4, <2>1, ReadHeadEffect, CasHeadEffect DEF Mine
  <2>3. /\ local'[t].s = s /\ local'[t].round = local[t].round
        /\ local'[t].served = local[t].served
        /\ local'[t].pc \in {"casHead", "readHead", "try", "round"}
    BY <1>0, <1>4, <2>1, ReadHeadEffect, CasHeadEffect
  <2>4. local'[t].pc = "round" => request'[s][t].place > 0
    <3>1. local'[t].pc = "round" => request'[s][t].place = NewPlace(s)
      BY <1>0, <1>4, <2>1, ReadHeadEffect, CasHeadEffect
    <3>2. head[s] # NULL => head[s] \in Threads
      BY <1>0, <2>1 DEF FcTypeOK, OrNull
    <3>3. NewPlace(s) > 0
      BY <1>b, <2>1, <3>2 DEF NewPlace
    <3>4. QED
      BY <3>1, <3>3
  <2>5. local[t].round = 0
    BY <1>0, <2>1 DEF ThreadView, CountsFromZero, Combining, Enlisting
  <2>6. QED
    BY <1>0, <2>1, <2>2, <2>3, <2>4, <2>5
       DEF DownIsAnswered, PassReachesOwn, ServesPending, Combining, Walking, Mine
<1>5. CASE StartRound(t)
  <2>1. UNCHANGED request /\ s \in Structs /\ Combining(t) /\ local[t].round \in Nat
    BY <1>0, <1>a, <1>5, Fields DEF StartRound, Combining, FcTypeOK
  <2>2. r[t].place > 0 /\ t \in Listed(s)
    BY <1>0, <2>1 DEF PassReachesOwn, Listed
  <2>3. head[s] \in Threads /\ head[s] # NULL /\ r[head[s]].place > 0
        /\ r[t].place <= r[head[s]].place
    BY <1>a, <1>5, <2>2, FlatCombiningAssumption DEF StartRound, Whole, HeadIsHighest, Listed
  <2>4. /\ local'[t].pc = "scan" /\ local'[t].s = s /\ local'[t].cur = head[s]
        /\ local'[t].round > 0 /\ local'[t].served = local[t].served
    BY <1>0, <1>5, <2>1, StartRoundEffect
  <2>5. QED
    BY <1>0, <2>1, <2>2, <2>3, <2>4
       DEF DownIsAnswered, PassReachesOwn, ServesPending, Combining, Walking, Mine, StartRound
<1>6. ASSUME Scan(t) \/ Clear(t), cur # NULL, ~ request'[s][cur].pending,
             \A u \in Threads : u # cur => request'[s][u].pending = r[u].pending,
             \A u \in Threads : SameListing(s, u),
             local'[t].cur = r[cur].next, local'[t].pc = "scan", SameTask(t),
             local[t].served > 0 \/ request'[s][t].pending
      PROVE  WaitView(t)'
  <2>1. s \in Structs /\ Walking(t) /\ Combining(t) /\ Whole(s)
    BY <1>a, <1>6 DEF Scan, Clear, Walking, Combining
  <2>2. cur \in Threads /\ r[cur].place > 0 /\ r[t].place > 0 /\ cur \in Listed(s) /\ t \in Listed(s)
    BY <1>0, <1>6, <2>1, Fields DEF FcTypeOK, OrNull, PassReachesOwn, Listed
  <2>b. r[cur].place \in Nat /\ r[t].place \in Nat
    BY <1>b, <2>1, <2>2
  <2>3. request'[s][t].pending => t # cur /\ r[t].pending
    BY <1>6
  <2>4. request'[s][t].pending => r[t].place < r[cur].place
    <3>1. request'[s][t].pending => r[t].place <= r[cur].place /\ r[t].place # r[cur].place
      BY <1>0, <2>1, <2>2, <2>3 DEF PassReachesOwn, Whole, OnePlaceEach
    <3>2. QED
      BY <2>b, <3>1
  <2>5. CASE r[cur].place = 1
    <3>1. local'[t].cur = NULL
      BY <1>6, <2>1, <2>2, <2>5 DEF Whole, LinkLeadsDown
    <3>2. ~ request'[s][t].pending
      BY <2>b, <2>2, <2>4, <2>5
    <3>3. QED
      BY <1>0, <1>6, <2>1, <2>2, <3>1, <3>2
         DEF DownIsAnswered, PassReachesOwn, ServesPending, Combining, Walking, Mine, SameListing
  <2>6. CASE r[cur].place # 1
    <3>1. r[cur].next \in Threads /\ r[r[cur].next].place = r[cur].place - 1
      BY <2>1, <2>2, <2>6 DEF Whole, LinkLeadsDown
    <3>2. r[r[cur].next].place > 0
      BY <2>b, <2>2, <2>6, <3>1
    <3>3. request'[s][t].pending => r[t].place <= r[r[cur].next].place
      BY <2>b, <2>4, <3>1
    <3>4. r[cur].next # NULL
      BY <3>1, FlatCombiningAssumption
    <3>5. PassReachesOwn(t)'
      BY <1>0, <1>6, <2>1, <2>2, <3>1, <3>2, <3>3, <3>4
         DEF PassReachesOwn, Combining, Walking, SameListing
    <3>6. DownIsAnswered(t)' /\ ServesPending(t)'
      BY <1>0, <1>6, <2>1 DEF DownIsAnswered, ServesPending, Walking, Mine
    <3>7. QED
      BY <3>5, <3>6
  <2>7. QED
    BY <2>5, <2>6
<1>7. CASE Scan(t)
  <2>1. UNCHANGED request /\ s \in Structs /\ local[t].pc = "scan"
    BY <1>a, <1>7 DEF Scan
  <2>2. SameTask(t)
    BY <1>0, <1>7, ScanEffect
  <2>3. CASE cur = NULL /\ local'[t].pc = "round"
    BY <1>0, <2>1, <2>2, <2>3
       DEF DownIsAnswered, PassReachesOwn, ServesPending, Combining, Walking, Mine
  <2>4. CASE cur # NULL /\ r[cur].pending /\ local'[t].pc = "serve" /\ local'[t].cur = cur
    BY <1>0, <2>1, <2>2, <2>4
       DEF DownIsAnswered, PassReachesOwn, ServesPending, Combining, Walking, Mine
  <2>5. CASE cur # NULL /\ ~ r[cur].pending /\ local'[t].pc = "scan" /\ local'[t].cur = r[cur].next
    <3>1. local[t].served > 0 \/ request'[s][t].pending
      BY <1>0, <2>1 DEF DownIsAnswered, Mine
    <3>2. \A u \in Threads : SameListing(s, u)
      BY <2>1 DEF SameListing
    <3>3. QED
      BY <1>6, <1>7, <2>1, <2>2, <2>5, <3>1, <3>2
  <2>6. QED
    BY <1>0, <1>7, <2>3, <2>4, <2>5, ScanEffect
<1>8. CASE Clear(t)
  <2>1. s \in Structs /\ cur \in Threads /\ local[t].pc = "clear" /\ cur # NULL
    BY <1>0, <1>a, <1>8, FlatCombiningAssumption DEF Clear, ThreadView, ServesSomebody
  <2>2. /\ SameTask(t) /\ local'[t].pc = "scan" /\ local'[t].cur = r[cur].next
        /\ ~ request'[s][cur].pending
        /\ \A u \in Threads : u # cur => request'[s][u].pending = r[u].pending
    BY <1>0, <1>8, <2>1, ClearEffect
  <2>3. \A u \in Threads : SameListing(s, u)
    BY <1>0, <1>8, <2>1, ListingStays DEF ReadHead, CasHead
  <2>4. local[t].served > 0 \/ request'[s][t].pending
    BY <1>0, <2>1, <2>2 DEF DownIsAnswered, ServesPending, Mine
  <2>5. QED
    BY <1>6, <1>8, <2>1, <2>2, <2>3, <2>4
<1>9. CASE Answers(t)
  <2>1. s \in Structs /\ cur \in Threads /\ local[t].pc = "serve" /\ local'[t].pc = "clear"
        /\ local'[t].s = s /\ local'[t].cur = cur /\ local'[t].round = local[t].round
    BY <1>0, <1>9, ServeEffect
  <2>2. \A u \in Threads : SameListing(s, u) /\ request'[s][u].pending = r[u].pending
    BY <1>0, <1>9, <2>1, ServeEffect
  <2>3. local'[cur].served > 0 /\ (local[t].served > 0 => local'[t].served > 0)
    <3>1. local[cur].served \in Nat /\ local[t].served \in Nat
      BY <1>0, <2>1, Fields DEF FcTypeOK
    <3>2. QED
      BY <1>0, <1>9, <2>1, <3>1, ServeEffect
  <2>4. DownIsAnswered(t)' /\ ServesPending(t)'
    BY <1>0, <2>1, <2>2, <2>3 DEF DownIsAnswered, ServesPending, Mine
  <2>5. PassReachesOwn(t)'
    BY <1>0, <2>1, <2>2 DEF PassReachesOwn, Combining, Walking, SameListing
  <2>6. QED
    BY <2>4, <2>5
<1>10. CASE Unlock(t)
  <2>1. local[t].pc = "round" /\ local[t].round # 0 /\ UNCHANGED request
    BY <1>10, FlatCombiningAssumption DEF Unlock
  <2>2. local'[t].pc = "done" /\ local'[t].served = local[t].served /\ local'[t].s = s
    BY <1>0, <1>10, UnlockEffect
  <2>3. QED
    BY <1>0, <2>1, <2>2
       DEF DownIsAnswered, PassReachesOwn, ServesPending, Combining, Walking, Mine
<1>11. CASE Return(t)
  BY <1>0, <1>11, ReturnEffect
     DEF DownIsAnswered, PassReachesOwn, ServesPending, Combining, Walking
<1>12. QED
  BY <1>1, <1>2, <1>3, <1>4, <1>5, <1>7, <1>8, <1>9, <1>10, <1>11 DEF FcStep, Protocol

LEMMA NextKeepsWait == RInv /\ FcNext => RInv'
<1> SUFFICES ASSUME RInv, FcNext PROVE RInv'
  OBVIOUS
<1>1. IInv'
  BY NextKeepsInvariant DEF RInv
<1>2. CASE \E t \in Threads : FcStep(t)
  <2>1. PICK t \in Threads : FcStep(t)
    BY <1>2
  <2>2. \A u \in Threads : WaitView(u)'
    BY <2>1, NextKeepsOwnWait, NextKeepsWaitOfOthers
  <2>3. QED
    BY <1>1, <2>1, <2>2, NextKeepsPending DEF RInv
<1>3. CASE UNCHANGED fcVars
  <2>1. UNCHANGED <<request, local>>
    BY <1>3 DEF fcVars
  <2>2. ASSUME NEW s \in Structs, NEW t \in Threads PROVE PendingIsOpen(s, t)'
    <3>1. PendingIsOpen(s, t)
      BY DEF RInv
    <3>2. QED
      BY <2>1, <3>1 DEF PendingIsOpen, Clearing
  <2>3. ASSUME NEW t \in Threads PROVE WaitView(t)'
    <3>1. WaitView(t)
      BY DEF RInv
    <3>2. QED
      BY <2>1, <3>1 DEF WaitView, DownIsAnswered, PassReachesOwn, ServesPending, Combining,
                        Walking, Mine
  <2>4. QED
    BY <1>1, <2>2, <2>3 DEF RInv
<1>4. QED
  BY <1>2, <1>3 DEF FcNext

LEMMA InitWait == FcInit => RInv
<1>1. ASSUME FcInit PROVE RInv
  <2>1. /\ \A s \in Structs, t \in Threads : ~ request[s][t].pending
        /\ \A t \in Threads : local[t].pc = "idle"
    BY <1>1 DEF FcInit, Request, Idle
  <2>2. \A s \in Structs, t \in Threads : PendingIsOpen(s, t)
    BY <2>1 DEF PendingIsOpen
  <2>3. ASSUME NEW t \in Threads PROVE WaitView(t)
    <3>1. local[t].pc = "idle"
      BY <2>1
    <3>2. QED
      BY <3>1 DEF WaitView, DownIsAnswered, PassReachesOwn, ServesPending, Combining, Walking
  <2>4. QED
    BY <1>1, <2>2, <2>3, InitInvariant DEF RInv
<1>2. QED
  BY <1>1

-----------------------------------------------------------------------------
(***************************************************************************)
(* Refinement: every step maps to a step of CombinedObject or to none.     *)
(***************************************************************************)
\* The arms of CallOf, one by one.
Shows(t) ==
  LET me == local[t] IN
  /\ me.pc = "idle" => CallOf(t) = [phase |-> "idle"]
  /\ me.pc # "idle" /\ me.served = 0
       => CallOf(t) = [phase |-> "busy", s |-> me.s, value |-> me.value]
  /\ me.pc # "idle" /\ me.served > 0
       => CallOf(t) = [phase |-> "done", s |-> me.s, value |-> me.value,
                       res |-> IF me.pc = "done" THEN me.res ELSE request[me.s][t].value]

LEMMA CallByPlace ==
  ASSUME FcTypeOK, FcTypeOK', NEW t \in Threads
  PROVE  Shows(t) /\ Shows(t)'
<1>1. local[t].served \in Nat /\ local'[t].served \in Nat
  BY Fields DEF FcTypeOK
<1>2. Shows(t)
  BY <1>1 DEF Shows, CallOf
<1>3. Shows(t)'
  BY <1>1 DEF Shows, CallOf
<1>4. QED
  BY <1>2, <1>3

\* Only the combiner's answer and the owner write the value of a request.
LEMMA ValueStays ==
  ASSUME IInv, NEW t \in Threads, FcStep(t), NEW s \in Structs, NEW u \in Threads
  PROVE  \/ request'[s][u].value = request[s][u].value
         \/ Answers(t) /\ s = local[t].s /\ u = local[t].cur
         \/ u = t /\ local[t].pc = "idle"
<1>1. request \in [Structs -> [Threads -> Requests]] /\ ThreadView(t)
  BY DEF IInv, FcTypeOK
<1>2. CASE Answers(t) /\ (s # local[t].s \/ u # local[t].cur)
  <2>1. request'[s][u] = request[s][u]
    BY <1>1, <1>2 DEF Answers, Answer
  <2>2. QED
    BY <2>1
<1>3. ASSUME NEW r \in Structs, NEW v \in Arguments[r], Invoke(t, r, v), u # t
      PROVE  request'[s][u].value = request[s][u].value
  <2>1. request'[s][u] = request[s][u]
    BY <1>1, <1>3 DEF Invoke
  <2>2. QED
    BY <2>1
<1>4. CASE Clear(t)
  BY <1>1, <1>4 DEF Clear, Requests
<1>5. CASE (ReadHead(t) \/ CasHead(t)) /\ (u # t \/ s # local[t].s)
  <2>1. request'[s][u] = request[s][u]
    BY <1>1, <1>5 DEF ReadHead, CasHead
  <2>2. QED
    BY <2>1
<1>6. CASE (ReadHead(t) \/ CasHead(t)) /\ u = t /\ s = local[t].s
  <2>1. FcTypeOK
    BY DEF IInv
  <2>2. QED
    BY <1>6, <2>1, ReadHeadEffect, CasHeadEffect DEF Mine
<1>7. CASE TryLock(t) \/ Wait(t) \/ StartRound(t) \/ Scan(t) \/ Unlock(t) \/ Return(t)
  BY <1>7 DEF TryLock, Wait, StartRound, Scan, Unlock, Return
<1>8. (\E r \in Structs : \E v \in Arguments[r] : Invoke(t, r, v)) => local[t].pc = "idle"
  BY DEF Invoke
<1>9. QED
  BY <1>2, <1>3, <1>4, <1>5, <1>6, <1>7, <1>8 DEF FcStep, Protocol

\* The calls of the other threads look the same, but the one being served.
LEMMA OthersShowTheSame ==
  ASSUME RInv, FcTypeOK', NEW t \in Threads, FcStep(t), NEW u \in Threads, u # t,
         ~ (Answers(t) /\ u = local[t].cur)
  PROVE  CallOf(u)' = CallOf(u)
<1>1. IInv /\ FcTypeOK /\ ThreadView(u) /\ local[u].served \in Nat
  BY Fields DEF RInv, IInv, FcTypeOK
<1>2. SameCall(u) /\ local'[u].served = local[u].served
  BY <1>1, OthersStay, ServedStays
<1>3. local[u].pc # "idle" => request'[local[u].s][u].value = request[local[u].s][u].value
  BY <1>1, ValueStays DEF ThreadView, CallUnderWay
<1>4. QED
  BY <1>1, <1>2, <1>3, CallByPlace DEF Shows, SameCall

\* The answer shows in the call that is served, in no other.
LEMMA AnswerShows ==
  ASSUME RInv, FcTypeOK', NEW t \in Threads, NEW answer \in Int, Answer(t, answer)
  PROVE  LET u == local[t].cur IN
         /\ u \in Threads /\ local[t].s \in Structs
         /\ Calls[u].phase = "busy" /\ Calls[u].s = local[t].s
         /\ Calls[t].phase \in {"busy", "done"}
         /\ Calls[t].s = local[t].s /\ Calls[t].value = local[t].value
         /\ Calls' = [Calls EXCEPT ![u] = [phase |-> "done", s |-> @.s, value |-> @.value,
                                           res |-> answer]]
<1> DEFINE s == local[t].s
<1>1. IInv /\ FcTypeOK /\ ThreadView(t) /\ WaitView(t) /\ Answers(t) /\ FcStep(t)
  BY DEF RInv, IInv, FcStep, Answers
<1>a. PICK u \in Threads : u = local[t].cur
  BY <1>1, ServeEffect
<1>2. s \in Structs /\ u = local[t].cur /\ local[t].pc = "serve" /\ local'[t].pc = "clear"
  BY <1>1, <1>a, ServeEffect
<1>3. request[s][u].pending
  BY <1>1, <1>2 DEF WaitView, ServesPending
<1>4. /\ local[u].pc \notin {"idle", "done"} /\ local[u].s = s
      /\ local[u].served = 0 \/ \E c \in Threads : Clearing(c, s, u)
  BY <1>2, <1>3 DEF RInv, PendingIsOpen
<1>5. local[u].served = 0
  <2>1. ASSUME NEW c \in Threads, Clearing(c, s, u) PROVE FALSE
    <3>1. ThreadView(c) /\ local[c].s = s /\ local[c].pc = "clear"
      BY <1>1, <2>1 DEF IInv, Clearing
    <3>2. local[c].holds /\ local[t].holds
      BY <1>1, <1>2, <3>1 DEF ThreadView, HoldsToCombine, Combining
    <3>3. c = t
      BY <1>1, <1>2, <3>1, <3>2 DEF IInv, OneCombiner, Callers
    <3>4. QED
      BY <1>2, <3>1, <3>3
  <2>2. QED
    BY <1>4, <2>1
<1>6. CallOf(u) = [phase |-> "busy", s |-> s, value |-> local[u].value]
  BY <1>1, <1>2, <1>4, <1>5, CallByPlace DEF Shows
<1>7. CallOf(t).phase \in {"busy", "done"} /\ CallOf(t).s = s /\ CallOf(t).value = local[t].value
  <2>1. local[t].served \in Nat
    BY <1>1, Fields DEF FcTypeOK
  <2>2. CASE local[t].served = 0
    <3>1. CallOf(t) = [phase |-> "busy", s |-> s, value |-> local[t].value]
      BY <1>1, <1>2, <2>2, CallByPlace DEF Shows
    <3>2. QED
      BY <3>1
  <2>3. CASE local[t].served > 0
    <3>1. CallOf(t) = [phase |-> "done", s |-> s, value |-> local[t].value,
                       res |-> request[s][t].value]
      BY <1>1, <1>2, <2>3, CallByPlace DEF Shows
    <3>2. QED
      BY <3>1
  <2>4. QED
    BY <2>1, <2>2, <2>3
<1>8. request'[s][u].value = answer
  <2>1. request' = [request EXCEPT ![s][u].value = answer]
    BY <1>2 DEF Answer
  <2>2. request \in [Structs -> [Threads -> Requests]]
    BY <1>1 DEF FcTypeOK
  <2>3. QED
    BY <1>2, <2>1, <2>2 DEF Requests
<1>9. CallOf(u)' = [phase |-> "done", s |-> s, value |-> local[u].value, res |-> answer]
  <2>1. /\ local'[u].pc \notin {"idle", "done"} /\ local'[u].s = s
        /\ local'[u].value = local[u].value /\ local'[u].served = 1
    BY <1>1, <1>2, <1>4, <1>5, ServeEffect DEF SameCall
  <2>2. Shows(u)'
    BY <1>1, <1>2, CallByPlace
  <2>3. (IF local'[u].pc = "done" THEN local'[u].res ELSE request'[local'[u].s][u].value) = answer
    BY <1>8, <2>1
  <2>4. CallOf(u)' = [phase |-> "done", s |-> local'[u].s, value |-> local'[u].value,
                      res |-> IF local'[u].pc = "done" THEN local'[u].res
                              ELSE request'[local'[u].s][u].value]
    BY <2>1, <2>2 DEF Shows
  <2>5. QED
    BY <2>1, <2>3, <2>4
<1>10. \A w \in Threads : w # u => CallOf(w)' = CallOf(w)
  <2>1. ASSUME NEW w \in Threads, w # u, w # t PROVE CallOf(w)' = CallOf(w)
    BY <1>1, <1>2, <2>1, OthersShowTheSame
  <2>2. ASSUME t # u PROVE CallOf(t)' = CallOf(t)
    <3>1. /\ local'[t].s = s /\ local'[t].value = local[t].value
          /\ local'[t].served = local[t].served /\ local[t].served \in Nat
      BY <1>1, <1>2, <2>2, ServeEffect, Fields DEF FcTypeOK
    <3>2. request'[s][t].value = request[s][t].value
      BY <1>1, <1>2, <2>2, ValueStays
    <3>3. QED
      BY <1>1, <1>2, <3>1, <3>2, CallByPlace DEF Shows
  <2>3. QED
    BY <2>1, <2>2
<1>11. Calls' = [Calls EXCEPT ![u] = [phase |-> "done", s |-> s, value |-> local[u].value,
                                      res |-> answer]]
  <2> DEFINE new == [phase |-> "done", s |-> s, value |-> local[u].value, res |-> answer]
  <2>1. CallOf(u)' = new
    BY <1>9
  <2> HIDE DEF new
  <2>2. Calls' = [Calls EXCEPT ![u] = new]
    BY <1>2, <1>10, <2>1 DEF Calls
  <2>3. QED
    BY <2>2 DEF new
<1>12. /\ Calls[u].phase = "busy" /\ Calls[u].s = s /\ Calls[u].value = local[u].value
       /\ Calls[t].s = s /\ Calls[t].value = local[t].value
       /\ Calls[t].phase \in {"busy", "done"}
  BY <1>2, <1>6, <1>7 DEF Calls
<1>13. Calls' = [Calls EXCEPT ![u] = [phase |-> "done", s |-> @.s, value |-> @.value,
                                      res |-> answer]]
  BY <1>11, <1>12
<1>14. QED
  BY <1>2, <1>12, <1>13

LEMMA InvokeShows ==
  ASSUME RInv, FcTypeOK', NEW t \in Threads, NEW s \in Structs, NEW v \in Arguments[s],
         Invoke(t, s, v)
  PROVE  /\ Calls[t] = [phase |-> "idle"]
         /\ Calls' = [Calls EXCEPT ![t] = [phase |-> "busy", s |-> s, value |-> v]]
<1>1. FcTypeOK /\ FcStep(t)
  BY DEF RInv, IInv, FcStep, Protocol
<1>2. Begins(t, s, v)
  BY <1>1, InvokeEffect
<1>3. CallOf(t) = [phase |-> "idle"] /\ CallOf(t)' = [phase |-> "busy", s |-> s, value |-> v]
  BY <1>1, <1>2, CallByPlace DEF Begins, Moves, Shows
<1>4. \A u \in Threads : u # t => CallOf(u)' = CallOf(u)
  BY <1>1, OthersShowTheSame DEF Invoke, Answers, Answer, Serving
<1>5. QED
  BY <1>3, <1>4 DEF Calls

LEMMA ReturnShows ==
  ASSUME RInv, FcTypeOK', NEW t \in Threads, Return(t)
  PROVE  /\ Calls[t].phase = "done"
         /\ Calls' = [Calls EXCEPT ![t] = [phase |-> "idle"]]
<1>1. FcTypeOK /\ FcStep(t) /\ WaitView(t)
  BY DEF RInv, IInv, FcStep, Protocol
<1>2. Moves(t, "done", "idle")
  BY <1>1, ReturnEffect
<1>3. CallOf(t).phase = "done" /\ CallOf(t)' = [phase |-> "idle"]
  BY <1>1, <1>2, CallByPlace DEF Moves, Shows, WaitView, DownIsAnswered
<1>4. \A u \in Threads : u # t => CallOf(u)' = CallOf(u)
  BY <1>1, OthersShowTheSame DEF Return, Answers, Answer, Serving
<1>5. QED
  BY <1>3, <1>4 DEF Calls

\* The other steps of the protocol do not show.
LEMMA QuietSteps ==
  ASSUME RInv, FcTypeOK', NEW t \in Threads,
         TryLock(t) \/ Wait(t) \/ ReadHead(t) \/ CasHead(t) \/ StartRound(t) \/ Scan(t)
           \/ Clear(t) \/ Unlock(t)
  PROVE  UNCHANGED Calls
<1> USE DEF Moves, SameTask, SameWork
<1>1. IInv /\ FcTypeOK /\ FcStep(t) /\ ThreadView(t)
  BY DEF RInv, IInv, FcStep, Protocol
<1>2. local[t].pc \notin {"idle", "serve", "done"}
  BY DEF TryLock, Wait, ReadHead, CasHead, StartRound, Scan, Clear, Unlock
<1>3. local[t].s \in Structs /\ (local[t].pc = "clear" => local[t].cur \in Threads)
  BY <1>1, <1>2 DEF ThreadView, CallUnderWay, ServesSomebody
<1>4. request'[local[t].s][t].value = request[local[t].s][t].value
  <2>1. ~ Answers(t)
    BY <1>2 DEF Answers, Answer, Serving
  <2>2. QED
    BY <1>1, <1>2, <1>3, <2>1, ValueStays
<1>5. /\ local'[t].s = local[t].s /\ local'[t].value = local[t].value
      /\ local'[t].served = local[t].served /\ local'[t].pc # "idle"
      /\ local'[t].pc = "done" => local'[t].res = request[local[t].s][t].value
  <2>1. CASE TryLock(t)
    BY <1>1, <2>1, TryLockEffect
  <2>2. CASE Wait(t) \/ Unlock(t)
    BY <1>1, <2>2, WaitEffect, UnlockEffect DEF Mine
  <2>3. CASE ReadHead(t) \/ CasHead(t)
    BY <1>1, <1>3, <2>3, ReadHeadEffect, CasHeadEffect
  <2>4. CASE StartRound(t) \/ Scan(t)
    BY <1>1, <1>2, <2>4, StartRoundEffect, ScanEffect
  <2>5. CASE Clear(t)
    BY <1>1, <1>3, <2>5, ClearEffect DEF Clear
  <2>6. QED
    BY <2>1, <2>2, <2>3, <2>4, <2>5
<1>6. CallOf(t)' = CallOf(t)
  <2>1. local[t].served \in Nat
    BY <1>1, Fields DEF FcTypeOK
  <2>2. QED
    BY <1>1, <1>2, <1>4, <1>5, <2>1, CallByPlace DEF Shows
<1>7. \A u \in Threads : CallOf(u)' = CallOf(u)
  BY <1>1, <1>2, <1>6, OthersShowTheSame DEF Answers, Answer, Serving
<1>8. QED
  BY <1>7 DEF Calls

LEMMA NextRefines ==
  ASSUME RInv, top \in Seq(Int), [Next]_vars
  PROVE  [Combined!Next]_(Combined!vars)
<1>1. FcTypeOK'
  BY NextIsFcNext, NextKeepsTypes DEF RInv
<1>2. CASE UNCHANGED vars
  <2>1. UNCHANGED <<request, local, top>>
    BY <1>2 DEF vars
  <2>2. \A u \in Threads : CallOf(u)' = CallOf(u)
    BY <2>1 DEF CallOf
  <2>3. QED
    BY <2>1, <2>2 DEF Combined!vars, Calls
<1>3. ASSUME NEW t \in Threads, Serve(t) PROVE Combined!Next
  <2> DEFINE after == SerialPushPop(local[t].value, top)
             u == local[t].cur
  <2>1. local[t].value \in Int
    BY <1>3 DEF RInv, IInv, ThreadView, CallUnderWay, Serve, Answer, Serving
  <2>2. after.answer \in Int /\ top' = after.object /\ Answer(t, after.answer)
    BY <1>3, <2>1, SerialTypes DEF Serve
  <2>3. /\ u \in Threads
        /\ Calls[u].phase = "busy" /\ Calls[u].s = local[t].s
        /\ Calls[t].phase \in {"busy", "done"}
        /\ Calls[t].s = local[t].s /\ Calls[t].value = local[t].value
        /\ Calls' = [Calls EXCEPT ![u] = [phase |-> "done", s |-> @.s, value |-> @.value,
                                          res |-> after.answer]]
    <3> HIDE DEF after
    <3>1. QED
      BY <1>1, <2>2, AnswerShows
  <2>4. Calls[t] # Combined!Idle
    BY <2>3 DEF Combined!Idle
  <2>5. Apply(Calls[u].s, Calls[t].value, top) = after
    BY <2>3 DEF Apply
  <2> HIDE DEF after
  <2>6. Combined!Serve(u, t)
    BY <2>2, <2>3, <2>4, <2>5 DEF Combined!Serve
  <2>7. QED
    BY <2>3, <2>6 DEF Combined!Next
<1>4. ASSUME NEW t \in Threads, Protocol(t), UNCHANGED top
      PROVE  Combined!Next \/ UNCHANGED Combined!vars
  <2>1. ASSUME NEW s \in Structs, NEW v \in Arguments[s], Invoke(t, s, v) PROVE Combined!Next
    BY <1>1, <1>4, <2>1, InvokeShows DEF Combined!Next, Combined!Invoke, Combined!Idle
  <2>2. CASE Return(t)
    BY <1>1, <1>4, <2>2, ReturnShows DEF Combined!Next, Combined!Return, Combined!Idle
  <2>3. CASE ~ Return(t) /\ \A s \in Structs : \A v \in Arguments[s] : ~ Invoke(t, s, v)
    BY <1>1, <1>4, <2>3, QuietSteps DEF Protocol, Combined!vars
  <2>4. QED
    BY <2>1, <2>2, <2>3
<1>5. QED
  BY <1>2, <1>3, <1>4 DEF Next, Terminating, Step

LEMMA InitRefines == Init => Combined!Init
<1> SUFFICES ASSUME Init PROVE Combined!Init
  OBVIOUS
<1>1. \A t \in Threads : CallOf(t) = [phase |-> "idle"]
  BY DEF Init, FcInit, Idle, CallOf
<1>2. QED
  BY <1>1 DEF Init, Combined!Init, Combined!Idle, Calls

\* FcApplyOp answers every call once, with the answer of one serial operation
\* made during the call, and no other operation is made on the stack.
THEOREM CombinesForEveryCall == Spec => RefinesCombined
<1>1. Init => RInv
  BY InitWait DEF Init
<1>2. RInv /\ IInv /\ top \in Seq(Int) /\ [Next]_vars => RInv' /\ [Combined!Next]_(Combined!vars)
  BY NextIsFcNext, NextKeepsWait, NextRefines
<1>3. Spec => Combined!Spec
  BY <1>1, <1>2, InitRefines, InvariantHolds, PTL DEF Spec, Combined!Spec
<1>4. QED
  BY <1>3 DEF RefinesCombined
=============================================================================
