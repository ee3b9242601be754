----------------------------- MODULE Benchmark -----------------------------
(***************************************************************************)
(* The harness of src/lib/includes/Benchmark.hpp (FCBenchmark.hpp,         *)
(* FCQBenchmark.hpp and PsimBenchmark.hpp repeat it word for word around   *)
(* other calls): the main thread runs one test after the other, and for    *)
(* each it starts the workers, lets them meet at a barrier, in a timed     *)
(* test sleeps and raises TimeFlag, and joins them.                        *)
(*                                                                         *)
(* The structure under test is what the other modules show of a stack or a *)
(* queue, reduced to how many elements it holds; a remove of an empty one  *)
(* does nothing.  Pinning, local work, output and log files are left out,  *)
(* and with them the clock: a sleep ends at any time.                      *)
(***************************************************************************)
EXTENDS Integers, Sequences

CONSTANTS
  NThreads,  \* numThreads
  Actions,   \* actions
  Suites,    \* the sequences of tests to look at
  MaxCount   \* bound: how many operations a worker makes in a timed test

TestTypes == {"ADD", "REMOVE", "ADD_REMOVE", "R_ADD_REMOVE", "T_ADD_REMOVE", "T_R_ADD_REMOVE"}

ASSUME BenchmarkAssumption ==
  /\ NThreads \in Nat \ {0} /\ Actions \in Nat /\ MaxCount \in Nat
  /\ Suites \subseteq Seq(TestTypes)

VARIABLES
  suite, k,     \* the tests to run, the same for ever, and the one now running
  main,         \* the main thread: where it is, and the thread it has come to
  worker,       \* worker[t]: where it is, and how many operations it has made
  waiting,      \* the workers the barrier holds back
  size,         \* how many elements the structure holds
  TimeFlag, thread_ready, threadSum,
  before,       \* history: size when the test began
  counted       \* history: what the workers of this timed test have counted

flags == <<TimeFlag, thread_ready, threadSum>>
vars == <<suite, k, main, worker, waiting, size, flags, before, counted>>

Threads == 0..(NThreads - 1)
Partitions == Actions \div NThreads
Over == k > Len(suite)
Test == suite[k]
IsTimed(test) == test \in {"T_ADD_REMOVE", "T_R_ADD_REMOVE"}
Timed == IsTimed(Test)

\* full_bench and half_bench, one iteration.
FullBench == <<"ADD", "REMOVE", "ADD_REMOVE", "R_ADD_REMOVE", "T_ADD_REMOVE", "T_R_ADD_REMOVE">>
HalfBench == <<"ADD_REMOVE", "R_ADD_REMOVE", "T_R_ADD_REMOVE">>

Off == [pc |-> "off", i |-> 0]

Init ==
  /\ suite \in Suites /\ k = 1
  /\ main = [pc |-> "spawn", i |-> 0]
  /\ worker = [t \in Threads |-> Off]
  /\ waiting = {} /\ size = 0
  /\ TimeFlag = FALSE /\ thread_ready = FALSE /\ threadSum = 0
  /\ before = 0 /\ counted = 0

(***************************************************************************)
(* The main thread                                                         *)
(***************************************************************************)
MainAt(pc) == ~Over /\ main.pc = pc
MainGoes(pc) == main' = [pc |-> pc, i |-> 0]

\* The next round of a loop over the threads, or "next" after the last one.
MainRound(next) ==
  main' = IF main.i + 1 \in Threads THEN [main EXCEPT !.i = @ + 1] ELSE [pc |-> next, i |-> 0]

Spawn ==
  /\ MainAt("spawn")
  /\ worker' = [worker EXCEPT ![main.i].pc = "start"]
  /\ MainRound(IF Timed THEN "ready" ELSE "join")
  /\ UNCHANGED <<suite, k, waiting, size, flags, before, counted>>

\* Slip: the main thread does not wait for thread_ready.
ReadyAtOnce ==
  /\ MainAt("ready") /\ MainGoes("sleep")
  /\ UNCHANGED <<suite, k, worker, waiting, size, flags, before, counted>>

\* while(!this->thread_ready);  nobody ever sets it to false again.
Ready ==
  /\ MainAt("ready") /\ thread_ready /\ MainGoes("sleep")
  /\ UNCHANGED <<suite, k, worker, waiting, size, flags, before, counted>>

\* Slip: the workers are told to stop when they have ended.
WakeLate ==
  /\ MainAt("sleep")
  /\ IF \A t \in Threads : worker[t].pc = "ended"
     THEN MainGoes("join") /\ TimeFlag' = TRUE ELSE MainGoes("ready") /\ UNCHANGED TimeFlag
  /\ UNCHANGED <<suite, k, worker, waiting, size, thread_ready, threadSum, before, counted>>

Wake ==
  /\ MainAt("sleep") /\ MainGoes("join")
  /\ TimeFlag' = TRUE
  /\ UNCHANGED <<suite, k, worker, waiting, size, thread_ready, threadSum, before, counted>>

Join ==
  /\ MainAt("join") /\ worker[main.i].pc = "ended"
  /\ MainRound("report")
  /\ UNCHANGED <<suite, k, worker, waiting, size, flags, before, counted>>

\* Slip: the sum of one timed test is added to the next one's.
ReportKeeps ==
  /\ MainAt("report") /\ MainGoes("spawn")
  /\ k' = k + 1 /\ worker' = [t \in Threads |-> Off]
  /\ TimeFlag' = FALSE
  /\ before' = size /\ counted' = 0
  /\ UNCHANGED <<suite, waiting, size, thread_ready, threadSum>>

Report ==
  /\ MainAt("report") /\ MainGoes("spawn")
  /\ k' = k + 1 /\ worker' = [t \in Threads |-> Off]
  /\ IF Timed THEN TimeFlag' = FALSE /\ threadSum' = 0 ELSE UNCHANGED <<TimeFlag, threadSum>>
  /\ before' = size /\ counted' = 0
  /\ UNCHANGED <<suite, waiting, size, thread_ready>>

Main == Spawn \/ Ready \/ Wake \/ Join \/ Report

(***************************************************************************)
(* The workers                                                             *)
(***************************************************************************)
At(t, pc) == ~Over /\ worker[t].pc = pc
Goes(t, pc) == worker' = [worker EXCEPT ![t].pc = pc]

\* pthread_barrier_wait: the last one to come lets everybody go.
Arrive(t) ==
  /\ At(t, "start") /\ Goes(t, "barrier")
  /\ waiting' = IF waiting \cup {t} = Threads THEN {} ELSE waiting \cup {t}
  /\ UNCHANGED <<suite, k, main, size, flags, before, counted>>

\* The one with id 0 tells the main thread, or starts the timer.
Leave(t) ==
  /\ At(t, "barrier") /\ t \notin waiting /\ Goes(t, "loop")
  /\ thread_ready' = (thread_ready \/ (t = 0 /\ Timed))
  /\ UNCHANGED <<suite, k, main, waiting, size, TimeFlag, threadSum, before, counted>>

\* What a worker calls as its operation number i.
Ops(i) ==
  CASE Test = "ADD" -> {"add"}
    [] Test = "REMOVE" -> {"remove"}
    [] Test = "ADD_REMOVE" -> IF i < Partitions THEN {"add"} ELSE {"remove"}
    [] Test = "T_ADD_REMOVE" -> IF i % 2 = 0 THEN {"add"} ELSE {"remove"}
    [] OTHER -> {"add", "remove"}

\* Slip: the loops include their upper bound.
RoundsAndOne == IF Test = "ADD_REMOVE" THEN 2 * Partitions + 1 ELSE Partitions + 1

\* How many operations a worker makes in a test that is not timed.
Rounds == IF Test = "ADD_REMOVE" THEN 2 * Partitions ELSE Partitions

\* while(!TimeFlag), or the condition of the for loop.
Look(t) ==
  /\ At(t, "loop")
  /\ Timed => TimeFlag \/ worker[t].i < MaxCount
  /\ Goes(t, IF Timed THEN IF TimeFlag THEN "sum" ELSE "do"
             ELSE IF worker[t].i < Rounds THEN "do" ELSE "ended")
  /\ UNCHANGED <<suite, k, main, waiting, size, flags, before, counted>>

\* An add of a pair is followed by its remove; a pair counts once.
Half(t) == Test = "T_ADD_REMOVE" /\ worker[t].i % 2 = 0

Do(t) ==
  /\ At(t, "do")
  /\ \E op \in Ops(worker[t].i) :
       size' = IF op = "add" THEN size + 1 ELSE IF size > 0 THEN size - 1 ELSE 0
  /\ worker' = [worker EXCEPT ![t].i = @ + 1, ![t].pc = IF Half(t) THEN "do" ELSE "loop"]
  /\ counted' = IF Half(t) THEN counted ELSE counted + 1
  /\ UNCHANGED <<suite, k, main, waiting, flags, before>>

\* threadSum += count, under guardian.
AddUp(t) ==
  /\ At(t, "sum") /\ Goes(t, "ended")
  /\ threadSum' = threadSum +
       (IF Test = "T_ADD_REMOVE" THEN worker[t].i \div 2 ELSE worker[t].i)
  /\ UNCHANGED <<suite, k, main, waiting, size, TimeFlag, thread_ready, before, counted>>

Work(t) == Arrive(t) \/ Leave(t) \/ Look(t) \/ Do(t) \/ AddUp(t)

Finished == Over
Terminating == Finished /\ UNCHANGED vars

Next == Main \/ (\E t \in Threads : Work(t)) \/ Terminating

Spec == Init /\ [][Next]_vars

\* Fairness: the main thread and the workers are run, and a sleep ends.
FairSpec == Spec /\ WF_vars(Main) /\ \A t \in Threads : WF_vars(Work(t))

-----------------------------------------------------------------------------
\* When its workers are joined, a test has left in the structure what its name
\* says, up to the remainder of actions by numThreads: the removes of the
\* add-then-remove tests never meet an empty structure, however the workers
\* are interleaved and whatever earlier tests left.
TestsLeaveTheirShare == MainAt("report") =>
  CASE Test = "ADD" -> size = before + NThreads * Partitions
    [] Test = "REMOVE" -> size = IF before > NThreads * Partitions
                                 THEN before - NThreads * Partitions ELSE 0
    [] Test \in {"ADD_REMOVE", "T_ADD_REMOVE"} -> size = before
    [] OTHER -> size <= before + NThreads * (IF Timed THEN MaxCount ELSE Partitions)

\* The sum a timed test reports is what its own workers counted.
SumIsWhole == MainAt("report") /\ Timed => threadSum = counted

\* The first timed test of a suite sleeps while its workers work.  Later ones
\* find thread_ready set already and may sleep before anybody has started.
FirstSleepIsUsed ==
  MainAt("sleep") /\ (\A j \in 1..(k - 1) : ~IsTimed(suite[j]))
    => \A t \in Threads : worker[t].pc \notin {"off", "start"}

\* Every test comes to its end: no worker waits at the barrier for a worker of
\* another test, and nobody is joined who was not told to stop.
EveryTestEnds == <>Finished
=============================================================================
