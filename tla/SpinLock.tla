------------------------------ MODULE SpinLock ------------------------------
(***************************************************************************)
(* The test-and-test-and-set lock of src/lib/includes/spinlock.hpp: lock   *)
(* spins on a plain load between exchanges, try_lock loads and then        *)
(* exchanges once.  The lock of spinlock_2.hpp, which the _spin variants   *)
(* of the lists use, has the same flag and repeats test_and_set; it has no *)
(* try_lock.  One action is one access to the flag.                        *)
(*                                                                         *)
(* What a thread does between its calls is the caller's: here it enters    *)
(* by lock or try_lock and leaves by unlock, and only its holder unlocks.  *)
(***************************************************************************)
CONSTANTS
  Threads,
  Files     \* the files to look at

ASSUME SpinLockAssumption == Files \subseteq {"spinlock.hpp", "spinlock_2.hpp"}

VARIABLES
  file,     \* the file this lock is of, the same for ever
  varLock,  \* the flag
  pc        \* where each thread is: "held" between lock and unlock

vars == <<file, varLock, pc>>

PCs == {"out", "testAndSet", "exchange", "spin", "tryLoad", "tryExchange", "refused", "held"}

Init == file \in Files /\ varLock = FALSE /\ pc = [t \in Threads |-> "out"]

Ttas == file = "spinlock.hpp"
Goto(t, from, to) == pc[t] = from /\ pc' = [pc EXCEPT ![t] = to] /\ UNCHANGED file

CallLock(t) ==
  Goto(t, "out", IF Ttas THEN "exchange" ELSE "testAndSet") /\ UNCHANGED varLock
CallTryLock(t) == Ttas /\ Goto(t, "out", "tryLoad") /\ UNCHANGED varLock

\* while(flag.test_and_set());
TestAndSet(t) ==
  /\ Goto(t, "testAndSet", IF varLock THEN "testAndSet" ELSE "held")
  /\ varLock' = TRUE

\* Slip: the flag is loaded and then stored, instead of one exchange.
ExchangeLoad(t) ==
  \/ Goto(t, "exchange", "tryExchange") /\ ~varLock /\ UNCHANGED varLock
  \/ Goto(t, "exchange", "spin") /\ varLock /\ UNCHANGED varLock
  \/ Goto(t, "tryExchange", "held") /\ varLock' = TRUE

\* varLock.exchange(true): the thread enters if the old value was false.
Exchange(t) ==
  /\ Goto(t, "exchange", IF varLock THEN "spin" ELSE "held")
  /\ varLock' = TRUE

\* Slip: the flag is loaded once, before the loop.
SpinForever(t) == pc[t] = "spin" /\ UNCHANGED vars

\* while(varLock.load()) pause; then the exchange is tried again.
Spin(t) == Goto(t, "spin", "exchange") /\ ~varLock /\ UNCHANGED varLock

TryLoad(t) ==
  /\ Goto(t, "tryLoad", IF varLock THEN "refused" ELSE "tryExchange")
  /\ UNCHANGED varLock

TryExchange(t) ==
  /\ Goto(t, "tryExchange", IF varLock THEN "refused" ELSE "held")
  /\ varLock' = TRUE

ReturnRefused(t) == Goto(t, "refused", "out") /\ UNCHANGED varLock

\* varLock.store(false)
Unlock(t) == Goto(t, "held", "out") /\ varLock' = FALSE

Call(t) == CallLock(t) \/ CallTryLock(t)
Step(t) == TestAndSet(t) \/ Exchange(t) \/ Spin(t) \/ TryLoad(t)
             \/ TryExchange(t) \/ ReturnRefused(t) \/ Unlock(t)

Next == \E t \in Threads : Call(t) \/ Step(t)

Spec == Init /\ [][Next]_vars

\* A thread inside lock, try_lock or the critical section keeps running.
FairSpec == Spec /\ \A t \in Threads : WF_vars(Step(t))
-----------------------------------------------------------------------------
\* Type invariant of the lock.
TypeOK == file \in Files /\ varLock \in BOOLEAN /\ pc \in [Threads -> PCs]

\* Never two threads between lock and unlock, and the flag tells whether there
\* is one.
Exclusive ==
  /\ \A t, u \in Threads : pc[t] = "held" /\ pc[u] = "held" => t = u
  /\ varLock <=> \E t \in Threads : pc[t] = "held"

\* If somebody waits, somebody enters: the lock does not promise that it is
\* the same thread.
SomebodyEnters ==
  (\E t \in Threads : pc[t] \in {"testAndSet", "exchange", "spin"})
    ~> (\E t \in Threads : pc[t] = "held")

PhaseOf(t) ==
  CASE pc[t] \in {"testAndSet", "exchange", "spin"} -> "waiting"
    [] pc[t] \in {"tryLoad", "tryExchange"} -> "trying"
    [] pc[t] = "held" -> "holding"
    [] OTHER -> pc[t]

Lock == INSTANCE Mutex WITH phase <- [t \in Threads |-> PhaseOf(t)]

\* lock and try_lock take effect at an exchange that finds false; try_lock is
\* refused at a moment when another thread holds the lock.
RefinesMutex == Lock!Spec
=============================================================================
