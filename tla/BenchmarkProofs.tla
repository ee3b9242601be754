-------------------------- MODULE BenchmarkProofs --------------------------
(***************************************************************************)
(* Proofs about the harness, for any threads, actions and suites of tests, *)
(* and about the universal construction it drives (the second half).       *)
(*                                                                         *)
(* What the structure holds is what it held before the test and a sum over *)
(* the workers, and so is what a timed test counts.  A sum is the number   *)
(* of the pairs <<t, j>> with j < f[t]: a step of one worker adds a pair,  *)
(* takes one away, or leaves them alone.                                   *)
(***************************************************************************)
EXTENDS Benchmark, FiniteSetTheorems, TLAPS

\* Total(f) is the sum of f over the threads.
Pairs(f) == UNION {{t} \X (0..(f[t] - 1)) : t \in Threads}
Total(f) == Cardinality(Pairs(f))

WorkerPCs == {"off", "start", "barrier", "loop", "do", "sum", "ended"}
MainPCs == {"spawn", "ready", "sleep", "join", "report"}
Workers == [pc : WorkerPCs, i : Nat]

TypeOK ==
  /\ suite \in Suites /\ k \in Nat \ {0}
  /\ main \in [pc : MainPCs, i : Threads]
  /\ worker \in [Threads -> Workers]
  /\ waiting \subseteq Threads /\ size \in Nat
  /\ TimeFlag \in BOOLEAN /\ thread_ready \in BOOLEAN /\ threadSum \in Nat
  /\ before \in Nat /\ counted \in Nat

\* What each worker has done: its operations, the elements it has added and
\* not removed yet, what it counts, and what it has added to threadSum.
Made == [t \in Threads |-> worker[t].i]
Outstanding == [t \in Threads |->
  IF Test = "T_ADD_REMOVE" THEN worker[t].i % 2
  ELSE IF Test = "ADD_REMOVE" /\ worker[t].i > Partitions THEN 2 * Partitions - worker[t].i
  ELSE worker[t].i]
Count == [t \in Threads |->
  IF Test = "T_ADD_REMOVE" THEN worker[t].i \div 2 ELSE worker[t].i]
Added == [t \in Threads |-> IF worker[t].pc = "ended" THEN Count[t] ELSE 0]

\* Either some worker has not come to the barrier yet, and those who have are
\* held back, or all have come and nobody is.
Meeting ==
  \/ /\ waiting = {t \in Threads : worker[t].pc = "barrier"} /\ waiting # Threads
     /\ \A t \in Threads : worker[t].pc \in {"off", "start", "barrier"}
  \/ waiting = {} /\ \A t \in Threads : worker[t].pc \notin {"off", "start"}

MainView ==
  /\ main.pc = "spawn" => \A t \in Threads : worker[t].pc = "off" <=> t >= main.i
  /\ main.pc # "spawn" => \A t \in Threads : worker[t].pc # "off"
  /\ main.pc \in {"ready", "sleep"} => Timed
  /\ main.pc = "join" => \A t \in Threads : t < main.i => worker[t].pc = "ended"
  /\ main.pc = "report" => \A t \in Threads : worker[t].pc = "ended"

\* thread_ready is raised by the first timed test, when its workers have met.
NoTimedYet == \A j \in 1..(k - 1) : ~IsTimed(suite[j])
AllMet == \A t \in Threads : worker[t].pc \notin {"off", "start"}
FirstTimed == NoTimedYet =>
  /\ thread_ready => Timed /\ AllMet
  /\ main.pc = "sleep" => AllMet

\* How far a worker can have come at each place.
WorkerView(t) ==
  /\ worker[t].pc \in {"off", "start", "barrier"} => worker[t].i = 0
  /\ ~Timed => /\ worker[t].i <= Rounds /\ worker[t].pc # "sum"
               /\ worker[t].pc = "do" => worker[t].i < Rounds
               /\ worker[t].pc = "ended" => worker[t].i = Rounds
  /\ Test = "T_R_ADD_REMOVE" => /\ worker[t].i <= MaxCount
                                /\ worker[t].pc = "do" => worker[t].i < MaxCount
  /\ Test = "T_ADD_REMOVE" /\ worker[t].pc # "do" => worker[t].i % 2 = 0

\* The size of the structure follows from what the workers have done.
SizeView ==
  CASE Test = "ADD" -> size = before + Total(Made)
    [] Test = "REMOVE" -> size = IF before > Total(Made) THEN before - Total(Made) ELSE 0
    [] Test \in {"ADD_REMOVE", "T_ADD_REMOVE"} -> size = before + Total(Outstanding)
    [] OTHER -> size <= before + Total(Made)

SumView ==
  IF Timed THEN counted = Total(Count) /\ threadSum = Total(Added) ELSE threadSum = 0

TestInv ==
  /\ IsFiniteSet(Pairs(Made)) /\ Meeting /\ MainView /\ FirstTimed
  /\ \A t \in Threads : WorkerView(t)
  /\ SizeView /\ SumView

IInv == TypeOK /\ (~Over => TestInv)

-----------------------------------------------------------------------------
(***************************************************************************)
(* Sums over the threads                                                   *)
(***************************************************************************)
Counters == [Threads -> Nat]

LEMMA Constants ==
  /\ NThreads \in Nat \ {0} /\ Actions \in Nat /\ MaxCount \in Nat
  /\ Threads \subseteq Nat /\ 0 \in Threads /\ Partitions \in Nat /\ Rounds \in Nat
BY BenchmarkAssumption DEF Threads, Partitions, Rounds

LEMMA MemberOfPairs ==
  ASSUME NEW f \in Counters, NEW t, NEW j
  PROVE  <<t, j>> \in Pairs(f) <=> t \in Threads /\ j \in 0..(f[t] - 1)
BY DEF Pairs

LEMMA PairsArePairs ==
  ASSUME NEW f \in Counters, NEW p \in Pairs(f)
  PROVE  p = <<p[1], p[2]>>
BY DEF Pairs

\* A sum of zeros.
LEMMA TotalOfZeros ==
  ASSUME NEW f \in Counters, \A t \in Threads : f[t] = 0
  PROVE  IsFiniteSet(Pairs(f)) /\ Total(f) = 0
<1>1. Pairs(f) = {}
  BY DEF Pairs
<1>2. QED
  BY <1>1, FS_EmptySet DEF Total

\* A smaller function has the smaller sum.
LEMMA TotalIsMonotone ==
  ASSUME NEW f \in Counters, NEW g \in Counters, IsFiniteSet(Pairs(g)),
         \A t \in Threads : f[t] <= g[t]
  PROVE  IsFiniteSet(Pairs(f)) /\ Total(f) \in Nat /\ Total(f) <= Total(g)
<1>1. Pairs(f) \subseteq Pairs(g)
  <2>1. ASSUME NEW t \in Threads, NEW p \in {t} \X (0..(f[t] - 1))
        PROVE  p \in {t} \X (0..(g[t] - 1))
    <3>1. f[t] \in Nat /\ g[t] \in Nat /\ f[t] <= g[t]
      BY DEF Counters
    <3>2. QED
      BY <2>1, <3>1
  <2>2. QED
    BY <2>1 DEF Pairs
<1>2. QED
  BY <1>1, FS_Subset, FS_CardinalityType DEF Total

\* The sum of a function that is everywhere the same.
LEMMA TotalOfEquals ==
  ASSUME NEW f \in Counters, NEW c \in Nat, \A t \in Threads : f[t] = c
  PROVE  IsFiniteSet(Pairs(f)) /\ Total(f) = NThreads * c
<1>1. Pairs(f) = Threads \X (0..(c - 1))
  BY DEF Pairs
<1>2. IsFiniteSet(Threads) /\ Cardinality(Threads) = NThreads
  BY Constants, FS_Interval DEF Threads
<1>3. IsFiniteSet(0..(c - 1)) /\ Cardinality(0..(c - 1)) = c
  BY FS_Interval
<1>4. QED
  BY <1>1, <1>2, <1>3, FS_Product DEF Total

\* The sum of a function with a bound.
LEMMA TotalIsBounded ==
  ASSUME NEW f \in Counters, NEW c \in Nat, \A t \in Threads : f[t] <= c
  PROVE  Total(f) \in Nat /\ Total(f) <= NThreads * c
<1> DEFINE g == [t \in Threads |-> c]
<1>1. g \in Counters /\ \A t \in Threads : g[t] = c
  BY DEF Counters
<1> HIDE DEF g
<1>2. IsFiniteSet(Pairs(g)) /\ Total(g) = NThreads * c
  BY <1>1, TotalOfEquals
<1>3. QED
  BY <1>1, <1>2, TotalIsMonotone

\* Where one thread has c more, the sum is greater by c.
LEMMA TotalGains ==
  ASSUME NEW f \in Counters, NEW g \in Counters, NEW t \in Threads, NEW c \in Nat,
         IsFiniteSet(Pairs(f)), g[t] = f[t] + c,
         \A u \in Threads : u # t => g[u] = f[u]
  PROVE  IsFiniteSet(Pairs(g)) /\ Total(f) \in Nat /\ Total(g) = Total(f) + c
<1> DEFINE N == f[t]..(f[t] + c - 1)
           more == {t} \X N
<1>1. f[t] \in Nat /\ g[t] \in Nat
  BY DEF Counters
<1>2. IsFiniteSet(N) /\ Cardinality(N) = c
  <2> DEFINE b == f[t] + c - 1
  <2>1. f[t] \in Int /\ b \in Int
    BY <1>1
  <2>2. b - f[t] + 1 = c /\ (f[t] > b <=> c = 0)
    BY <1>1
  <2> HIDE DEF b
  <2>3. /\ IsFiniteSet(f[t]..b)
        /\ Cardinality(f[t]..b) = IF f[t] > b THEN 0 ELSE b - f[t] + 1
    BY <2>1, FS_Interval
  <2>4. IsFiniteSet(f[t]..b) /\ Cardinality(f[t]..b) = c
    BY <2>2, <2>3
  <2>5. QED
    BY <2>4 DEF b
<1>3. IsFiniteSet({t}) /\ Cardinality({t}) = 1
  BY FS_Singleton
<1>4. IsFiniteSet(more) /\ Cardinality(more) = c
  <2> HIDE DEF N
  <2>1. QED
    BY <1>2, <1>3, FS_Product
<1>5. Pairs(g) = Pairs(f) \cup more
  <2>1. ASSUME NEW p \in Pairs(g) PROVE p \in Pairs(f) \cup more
    <3>1. PICK u \in Threads : p \in {u} \X (0..(g[u] - 1))
      BY <2>1 DEF Pairs
    <3>2. CASE u # t
      BY <3>1, <3>2 DEF Pairs
    <3>3. CASE u = t /\ p[2] < f[t]
      <4>1. p \in {t} \X (0..(f[t] - 1))
        BY <1>1, <3>1, <3>3
      <4>2. QED
        BY <4>1 DEF Pairs
    <3>4. CASE u = t /\ ~(p[2] < f[t])
      BY <1>1, <3>1, <3>4
    <3>5. QED
      BY <3>2, <3>3, <3>4
  <2>2. ASSUME NEW p \in Pairs(f) PROVE p \in Pairs(g)
    <3>1. PICK u \in Threads : p \in {u} \X (0..(f[u] - 1))
      BY <2>2 DEF Pairs
    <3>2. p \in {u} \X (0..(g[u] - 1))
      BY <1>1, <3>1
    <3>3. QED
      BY <3>2 DEF Pairs
  <2>3. ASSUME NEW p \in more PROVE p \in Pairs(g)
    <3>1. p \in {t} \X (0..(g[t] - 1))
      BY <1>1, <2>3
    <3>2. QED
      BY <3>1 DEF Pairs
  <2>4. QED
    BY <2>1, <2>2, <2>3
<1>6. Pairs(f) \cap more = {}
  <2>1. ASSUME NEW p \in Pairs(f), p \in more PROVE FALSE
    <3>1. PICK u \in Threads : p \in {u} \X (0..(f[u] - 1))
      BY <2>1 DEF Pairs
    <3>2. QED
      BY <1>1, <2>1, <3>1
  <2>2. QED
    BY <2>1
<1>7. Total(f) \in Nat
  BY FS_CardinalityType DEF Total
<1> HIDE DEF more
<1>8. /\ IsFiniteSet(Pairs(f) \cup more)
      /\ Cardinality(Pairs(f) \cup more)
           = Cardinality(Pairs(f)) + Cardinality(more) - Cardinality(Pairs(f) \cap more)
  BY <1>4, FS_Union
<1>9. QED
  BY <1>4, <1>5, <1>6, <1>7, <1>8, FS_EmptySet DEF Total

\* The same function of the same threads has the same sum.
LEMMA TotalIsSame ==
  ASSUME NEW f \in Counters, NEW g \in Counters, \A t \in Threads : f[t] = g[t]
  PROVE  f = g
BY DEF Counters

\* Halves and remainders.
LEMMA HalfOf ==
  ASSUME NEW n \in Nat
  PROVE  /\ n % 2 \in {0, 1} /\ n \div 2 \in Nat /\ n % 2 <= n /\ n \div 2 <= n
         /\ n % 2 = 0 => (n + 1) % 2 = 1 /\ (n + 1) \div 2 = n \div 2
         /\ n % 2 = 1 => (n + 1) % 2 = 0 /\ (n + 1) \div 2 = n \div 2 + 1
OBVIOUS

-----------------------------------------------------------------------------
(***************************************************************************)
(* Types                                                                   *)
(***************************************************************************)
LEMMA Tests ==
  ASSUME TypeOK, ~Over
  PROVE  Test \in TestTypes /\ k \in 1..Len(suite) /\ suite \in Seq(TestTypes)
BY BenchmarkAssumption DEF TypeOK, Over, Test

\* The counters of the workers are numbers.
LEMMA CounterTypes ==
  ASSUME IInv, ~Over
  PROVE  /\ Made \in Counters /\ Count \in Counters /\ Added \in Counters
         /\ Outstanding \in Counters
         /\ \A t \in Threads : Outstanding[t] <= Made[t] /\ Count[t] <= Made[t]
                               /\ Added[t] <= Made[t]
<1>1. TypeOK /\ TestInv
  BY DEF IInv
<1>2. ASSUME NEW t \in Threads
      PROVE  /\ worker[t].i \in Nat /\ worker[t].i % 2 \in Nat /\ worker[t].i \div 2 \in Nat
             /\ worker[t].i % 2 <= worker[t].i /\ worker[t].i \div 2 <= worker[t].i
             /\ Test = "ADD_REMOVE" => worker[t].i <= 2 * Partitions
  <2>1. worker[t].i \in Nat
    BY <1>1 DEF TypeOK, Workers
  <2>2. Test = "ADD_REMOVE" => worker[t].i <= 2 * Partitions
    BY <1>1 DEF TestInv, WorkerView, Timed, IsTimed, Rounds
  <2>3. QED
    BY <2>1, <2>2, HalfOf
<1>3. /\ Made \in Counters /\ Count \in Counters
      /\ \A t \in Threads : Count[t] <= Made[t] /\ Made[t] \in Nat /\ Count[t] \in Nat
  BY <1>2 DEF Made, Count, Counters
<1>4. Added \in Counters /\ \A t \in Threads : Added[t] <= Made[t]
  BY <1>3 DEF Added, Counters
<1>5. ASSUME NEW t \in Threads
      PROVE  Outstanding[t] \in Nat /\ Outstanding[t] <= Made[t]
  BY <1>2, Constants DEF Made, Outstanding
<1>6. Outstanding \in Counters
  BY <1>5 DEF Outstanding, Counters
<1>7. QED
  BY <1>3, <1>4, <1>5, <1>6

\* A worker's place changes and its count does not.
LEMMA WorkerMoves ==
  ASSUME TypeOK, NEW t \in Threads, NEW pc \in WorkerPCs,
         worker' = [worker EXCEPT ![t].pc = pc]
  PROVE  /\ worker' \in [Threads -> Workers]
         /\ worker'[t].pc = pc
         /\ \A u \in Threads : worker'[u].i = worker[u].i
         /\ \A u \in Threads : u # t => worker'[u] = worker[u]
<1>1. worker \in [Threads -> Workers] /\ worker' = [worker EXCEPT ![t] = [worker[t] EXCEPT !.pc = pc]]
  BY DEF TypeOK
<1>2. [worker[t] EXCEPT !.pc = pc] \in Workers
  BY <1>1 DEF Workers
<1>3. [worker[t] EXCEPT !.pc = pc].pc = pc /\ [worker[t] EXCEPT !.pc = pc].i = worker[t].i
  BY <1>1 DEF Workers
<1>4. QED
  BY <1>1, <1>2, <1>3

\* The round of a loop of the main thread.
LEMMA MainRoundMeans ==
  ASSUME TypeOK, NEW next \in MainPCs, MainRound(next)
  PROVE  /\ main' \in [pc : MainPCs, i : Threads]
         /\ \/ main.i + 1 \in Threads /\ main'.pc = main.pc /\ main'.i = main.i + 1
            \/ main.i = NThreads - 1 /\ main'.pc = next /\ main'.i = 0
<1>1. main.i \in Threads /\ main.pc \in MainPCs /\ main \in [pc : MainPCs, i : Threads]
  BY DEF TypeOK
<1>2. CASE main.i + 1 \in Threads
  BY <1>1, <1>2 DEF MainRound
<1>3. CASE main.i + 1 \notin Threads
  <2>1. main.i = NThreads - 1
    BY <1>1, <1>3, Constants DEF Threads
  <2>2. QED
    BY <1>3, <2>1, Constants DEF MainRound
<1>4. QED
  BY <1>2, <1>3

\* What a step in which nobody makes an operation has to show.
LEMMA NothingMade ==
  ASSUME IInv, ~Over, UNCHANGED <<suite, k, size, threadSum, before, counted>>,
         \A t \in Threads : worker'[t].i = worker[t].i,
         Timed => \A t \in Threads : worker'[t].pc = "ended" <=> worker[t].pc = "ended",
         TypeOK', Meeting', MainView', FirstTimed', \A t \in Threads : WorkerView(t)'
  PROVE  IInv'
<1>1. Test' = Test /\ Timed' = Timed
  BY DEF Test, Timed, IsTimed
<1>2. Made' = Made /\ Count' = Count /\ Outstanding' = Outstanding
  BY <1>1 DEF Made, Count, Outstanding
<1>3. Timed => Added' = Added
  BY <1>2 DEF Added
<1>4. SizeView' /\ SumView' /\ IsFiniteSet(Pairs(Made))'
  <2>1. SizeView /\ SumView /\ IsFiniteSet(Pairs(Made))
    BY DEF IInv, TestInv
  <2>2. Total(Made)' = Total(Made) /\ Pairs(Made)' = Pairs(Made)
        /\ Total(Outstanding)' = Total(Outstanding) /\ Total(Count)' = Total(Count)
        /\ (Timed => Total(Added)' = Total(Added))
    BY <1>2, <1>3 DEF Total, Pairs
  <2>3. QED
    BY <1>1, <2>1, <2>2 DEF SizeView, SumView
<1>5. QED
  BY <1>4 DEF IInv, TestInv

LEMMA SpawnKeeps == ASSUME IInv, Spawn PROVE IInv'
<1> DEFINE t == main.i
           next == IF Timed THEN "ready" ELSE "join"
<1>1. TypeOK /\ TestInv /\ ~Over /\ main.pc = "spawn" /\ t \in Threads
  BY DEF IInv, Spawn, MainAt, TypeOK
<1>2. /\ worker' \in [Threads -> Workers] /\ worker'[t].pc = "start"
      /\ \A u \in Threads : worker'[u].i = worker[u].i
      /\ \A u \in Threads : u # t => worker'[u] = worker[u]
  <2>1. worker' = [worker EXCEPT ![t].pc = "start"] /\ "start" \in WorkerPCs
    BY DEF Spawn, WorkerPCs
  <2> HIDE DEF t
  <2>2. QED
    BY <1>1, <2>1, WorkerMoves
<1>3. /\ main' \in [pc : MainPCs, i : Threads]
      /\ \/ t + 1 \in Threads /\ main'.pc = "spawn" /\ main'.i = t + 1
         \/ t = NThreads - 1 /\ main'.pc = next /\ main'.i = 0
  <2>1. next \in MainPCs /\ MainRound(next)
    BY DEF MainPCs, Spawn
  <2> HIDE DEF next
  <2>2. QED
    BY <1>1, <2>1, MainRoundMeans
<1>4. /\ UNCHANGED <<suite, k, waiting, size, TimeFlag, thread_ready, threadSum, before, counted>>
      /\ UNCHANGED <<Test, Timed, Over>>
  BY DEF Spawn, flags, Test, Timed, IsTimed, Over
<1>5. TypeOK'
  <2>1. worker' \in [Threads -> Workers] /\ main' \in [pc : MainPCs, i : Threads]
    BY <1>2, <1>3
  <2>2. QED
    BY <1>1, <1>4, <2>1 DEF TypeOK
<1>6. worker[t].pc = "off" /\ \A u \in Threads : worker[u].pc = "off" <=> u >= t
  <2>1. \A u \in Threads : worker[u].pc = "off" <=> u >= t
    BY <1>1 DEF TestInv, MainView
  <2>2. t \in Nat
    BY <1>1 DEF Threads
  <2>3. QED
    BY <1>1, <2>1, <2>2
<1>7. Meeting'
  <2>1. waiting # Threads /\ waiting = {u \in Threads : worker[u].pc = "barrier"}
        /\ \A u \in Threads : worker[u].pc \in {"off", "start", "barrier"}
    BY <1>1, <1>6 DEF TestInv, Meeting
  <2>2. \A u \in Threads : /\ worker'[u].pc \in {"off", "start", "barrier"}
                           /\ worker'[u].pc = "barrier" <=> worker[u].pc = "barrier"
    BY <1>2, <1>6, <2>1
  <2>3. QED
    BY <1>4, <2>1, <2>2 DEF Meeting
<1>8. MainView'
  <2>1. \A u \in Threads : worker'[u].pc = "off" <=> u >= t + 1
    BY <1>1, <1>2, <1>6, Constants
  <2>2. CASE t + 1 \in Threads /\ main'.pc = "spawn" /\ main'.i = t + 1
    BY <2>1, <2>2 DEF MainView
  <2>3. CASE t = NThreads - 1 /\ main'.pc = next /\ main'.i = 0
    <3>1. \A u \in Threads : worker'[u].pc # "off" /\ ~(u < 0)
      BY <2>1, <2>3, Constants DEF Threads
    <3>2. QED
      BY <1>4, <2>3, <3>1 DEF MainView
  <2>4. QED
    BY <1>3, <2>2, <2>3
<1>9. FirstTimed'
  <2>1. NoTimedYet => ~thread_ready
    BY <1>1, <1>6 DEF TestInv, FirstTimed, AllMet
  <2>2. NoTimedYet' <=> NoTimedYet
    BY <1>4 DEF NoTimedYet, IsTimed
  <2>3. main'.pc # "sleep"
    BY <1>3
  <2>4. QED
    BY <1>4, <2>1, <2>2, <2>3 DEF FirstTimed
<1>10. ASSUME NEW u \in Threads PROVE WorkerView(u)'
  <2>1. WorkerView(u) /\ worker'[u].i = worker[u].i /\ Rounds' = Rounds
    BY <1>1, <1>2, <1>4 DEF TestInv, Rounds
  <2>2. worker'[u].pc = worker[u].pc \/ (worker[u].pc = "off" /\ worker'[u].pc = "start")
    BY <1>2, <1>6
  <2>3. QED
    BY <1>4, <2>1, <2>2 DEF WorkerView
<1>11. \A u \in Threads : worker'[u].pc = "ended" <=> worker[u].pc = "ended"
  BY <1>2, <1>6
<1>12. QED
  BY <1>1, <1>2, <1>4, <1>5, <1>7, <1>8, <1>9, <1>10, <1>11, NothingMade

\* thread_ready is TRUE: in the first timed test its workers have met.
LEMMA ReadyKeeps == ASSUME IInv, Ready \/ Wake PROVE IInv'
<1>1. TypeOK /\ TestInv /\ ~Over /\ main.pc \in {"ready", "sleep"}
  BY DEF IInv, Ready, Wake, MainAt
<1>2. /\ UNCHANGED <<suite, k, worker, waiting, size, thread_ready, threadSum, before, counted>>
      /\ UNCHANGED <<Test, Timed, Over, Rounds>> /\ TimeFlag' \in BOOLEAN
  BY <1>1 DEF Ready, Wake, flags, Test, Timed, IsTimed, Over, Rounds, TypeOK
<1>3. main' = [pc |-> IF main.pc = "ready" THEN "sleep" ELSE "join", i |-> 0]
  BY DEF Ready, Wake, MainAt, MainGoes
<1>4. main' \in [pc : MainPCs, i : Threads]
  BY <1>3, Constants DEF MainPCs
<1>5. TypeOK'
  BY <1>1, <1>2, <1>4 DEF TypeOK
<1>6. Meeting'
  BY <1>1, <1>2 DEF TestInv, Meeting
<1>7. MainView'
  BY <1>1, <1>2, <1>3, Constants DEF TestInv, MainView
<1>8. FirstTimed'
  <2>1. NoTimedYet' <=> NoTimedYet
    BY <1>2 DEF NoTimedYet
  <2>2. main'.pc = "sleep" => thread_ready
    BY <1>1, <1>3 DEF Ready, Wake, MainAt
  <2>3. QED
    BY <1>1, <1>2, <2>1, <2>2 DEF TestInv, FirstTimed, AllMet
<1>9. ASSUME NEW u \in Threads PROVE WorkerView(u)'
  BY <1>1, <1>2 DEF TestInv, WorkerView
<1>10. QED
  BY <1>1, <1>2, <1>5, <1>6, <1>7, <1>8, <1>9, NothingMade

LEMMA JoinKeeps == ASSUME IInv, Join PROVE IInv'
<1>1. TypeOK /\ TestInv /\ ~Over /\ main.pc = "join" /\ main.i \in Threads
      /\ worker[main.i].pc = "ended"
  BY DEF IInv, Join, MainAt, TypeOK
<1>2. /\ UNCHANGED <<suite, k, worker, waiting, size, TimeFlag, thread_ready, threadSum,
                     before, counted>>
      /\ UNCHANGED <<Test, Timed, Over, Rounds>>
  BY DEF Join, flags, Test, Timed, IsTimed, Over, Rounds
<1>3. /\ main' \in [pc : MainPCs, i : Threads]
      /\ \/ main.i + 1 \in Threads /\ main'.pc = "join" /\ main'.i = main.i + 1
         \/ main.i = NThreads - 1 /\ main'.pc = "report" /\ main'.i = 0
  BY <1>1, MainRoundMeans DEF Join, MainPCs
<1>4. TypeOK'
  BY <1>1, <1>2, <1>3 DEF TypeOK
<1>5. Meeting'
  BY <1>1, <1>2 DEF TestInv, Meeting
<1>6. MainView'
  <2>1. \A u \in Threads : u < main.i + 1 => worker[u].pc = "ended"
    <3>1. \A u \in Threads : u < main.i + 1 => u < main.i \/ u = main.i
      BY <1>1 DEF Threads
    <3>2. QED
      BY <1>1, <3>1 DEF TestInv, MainView
  <2>2. \A u \in Threads : worker[u].pc # "off"
    BY <1>1 DEF TestInv, MainView
  <2>3. CASE main'.pc = "join" /\ main'.i = main.i + 1
    BY <1>2, <2>1, <2>2, <2>3 DEF MainView
  <2>4. CASE main.i = NThreads - 1 /\ main'.pc = "report"
    <3>1. \A u \in Threads : u < main.i + 1
      BY <2>4, Constants DEF Threads
    <3>2. QED
      BY <1>2, <2>1, <2>2, <2>4, <3>1 DEF MainView
  <2>5. QED
    BY <1>3, <2>3, <2>4
<1>7. FirstTimed'
  <2>1. NoTimedYet' <=> NoTimedYet
    BY <1>2 DEF NoTimedYet
  <2>2. main'.pc # "sleep"
    BY <1>3
  <2>3. QED
    BY <1>1, <1>2, <2>1, <2>2 DEF TestInv, FirstTimed, AllMet
<1>8. ASSUME NEW u \in Threads PROVE WorkerView(u)'
  BY <1>1, <1>2 DEF TestInv, WorkerView
<1>9. QED
  BY <1>1, <1>2, <1>4, <1>5, <1>6, <1>7, <1>8, NothingMade

\* The next test begins with no worker, and nothing made or counted.
LEMMA NextTestKeeps == ASSUME IInv, Report PROVE IInv'
<1>1. TypeOK /\ TestInv /\ ~Over /\ main.pc = "report"
  BY DEF IInv, Report, MainAt
<1>2. /\ UNCHANGED <<suite, waiting, size, thread_ready>> /\ k' = k + 1
      /\ worker' = [t \in Threads |-> Off] /\ main' = [pc |-> "spawn", i |-> 0]
      /\ before' = size /\ counted' = 0
      /\ IF Timed THEN TimeFlag' = FALSE /\ threadSum' = 0 ELSE UNCHANGED <<TimeFlag, threadSum>>
  BY DEF Report, MainGoes
<1>3. /\ main'.pc = "spawn" /\ main'.i = 0
      /\ \A t \in Threads : worker'[t].pc = "off" /\ worker'[t].i = 0
      /\ worker' \in [Threads -> Workers] /\ main' \in [pc : MainPCs, i : Threads]
  <2>1. Off \in Workers /\ Off.pc = "off" /\ Off.i = 0
    BY DEF Off, Workers, WorkerPCs
  <2>2. \A t \in Threads : worker'[t] = Off
    BY <1>2
  <2>3. worker' \in [Threads -> Workers]
    BY <1>2, <2>1
  <2>4. main' \in [pc : MainPCs, i : Threads] /\ main'.pc = "spawn" /\ main'.i = 0
    BY <1>2, Constants DEF MainPCs
  <2>5. QED
    BY <2>1, <2>2, <2>3, <2>4
<1>4. TypeOK'
  <2>1. k + 1 \in Nat \ {0} /\ size \in Nat /\ suite \in Suites /\ waiting \subseteq Threads
        /\ thread_ready \in BOOLEAN
    BY <1>1 DEF TypeOK
  <2>2. TimeFlag' \in BOOLEAN /\ threadSum' \in Nat
    <3>1. TimeFlag \in BOOLEAN /\ threadSum \in Nat
      BY <1>1 DEF TypeOK
    <3>2. \/ TimeFlag' = FALSE /\ threadSum' = 0
          \/ TimeFlag' = TimeFlag /\ threadSum' = threadSum
      BY <1>2
    <3>3. threadSum' \in Nat
      BY <3>1, <3>2
    <3>4. TimeFlag' \in BOOLEAN
      BY <3>1, <3>2, Zenon
    <3>5. QED
      BY <3>3, <3>4
  <2>3. QED
    BY <1>2, <1>3, <2>1, <2>2 DEF TypeOK
<1>5. threadSum' = 0
  BY <1>1, <1>2 DEF TestInv, SumView
<1>6. Meeting'
  <2>1. waiting = {}
    BY <1>1, Constants DEF TestInv, Meeting, MainView
  <2>2. QED
    BY <1>2, <1>3, <2>1, Constants DEF Meeting
<1>7. MainView'
  BY <1>3, Constants DEF MainView
<1>8. ASSUME NoTimedYet' PROVE ~thread_ready'
  <2>1. k \in 1..(k' - 1) /\ 1..(k - 1) \subseteq 1..(k' - 1)
    BY <1>1, <1>2 DEF TypeOK
  <2>2. NoTimedYet /\ ~Timed
    BY <1>2, <1>8, <2>1 DEF NoTimedYet, Timed, Test, IsTimed
  <2>3. QED
    BY <1>1, <1>2, <2>2 DEF TestInv, FirstTimed
<1>9. FirstTimed'
  BY <1>3, <1>8 DEF FirstTimed
<1>10. ASSUME ~Over' PROVE TestInv'
  <2>1. Rounds' \in Nat /\ Test' \in TestTypes
    BY <1>4, <1>10, BenchmarkAssumption, Constants DEF Rounds, TypeOK, Over, Test
  <2>2. /\ Made' \in Counters /\ Count' \in Counters /\ Added' \in Counters
        /\ Outstanding' \in Counters
        /\ \A t \in Threads : Made'[t] = 0 /\ Count'[t] = 0 /\ Added'[t] = 0
                              /\ Outstanding'[t] = 0
    <3>1. 0 % 2 = 0 /\ 0 \div 2 = 0 /\ ~(0 > Partitions)
      BY Constants
    <3>2. QED
      BY <1>3, <3>1 DEF Made, Count, Added, Outstanding, Counters
  <2>3. /\ IsFiniteSet(Pairs(Made)') /\ Total(Made)' = 0 /\ Total(Count)' = 0
        /\ Total(Added)' = 0 /\ Total(Outstanding)' = 0
    <3>1. \A f \in Counters : (\A t \in Threads : f[t] = 0) => IsFiniteSet(Pairs(f)) /\ Total(f) = 0
      BY TotalOfZeros
    <3>2. \A f : Total(f)' = Total(f')
      OBVIOUS
    <3>3. QED
      BY <2>2, <3>1, <3>2 DEF Pairs, Total
  <2>4. SizeView'
    BY <1>1, <1>2, <2>3 DEF SizeView, TypeOK
  <2>5. SumView'
    BY <1>2, <1>5, <2>3 DEF SumView
  <2>6. ASSUME NEW t \in Threads PROVE WorkerView(t)'
    BY <1>3, <2>1, Constants DEF WorkerView
  <2>7. QED
    BY <1>6, <1>7, <1>9, <2>3, <2>4, <2>5, <2>6 DEF TestInv
<1>11. QED
  BY <1>4, <1>10 DEF IInv

\* The main thread's view and the first timed test's outlive a step of a worker
\* that has started and does not come out of "ended".
LEMMA WorkerStepViews ==
  ASSUME IInv, ~Over, NEW t \in Threads, UNCHANGED <<suite, k, main, thread_ready>>,
         worker[t].pc \notin {"off", "ended"}, worker'[t].pc \notin {"off", "start"},
         \A u \in Threads : u # t => worker'[u] = worker[u]
  PROVE  MainView' /\ FirstTimed' /\ UNCHANGED <<Test, Timed, Over, Rounds>>
<1>1. TypeOK /\ MainView /\ FirstTimed
  BY DEF IInv, TestInv
<1>2. UNCHANGED <<Test, Timed, Over, Rounds>>
  BY DEF Test, Timed, IsTimed, Over, Rounds
<1>3. MainView'
  BY <1>1, <1>2 DEF MainView
<1>4. FirstTimed'
  <2>1. (NoTimedYet' <=> NoTimedYet) /\ (AllMet => AllMet')
    BY DEF NoTimedYet, AllMet
  <2>2. QED
    BY <1>1, <1>2, <2>1 DEF FirstTimed
<1>5. QED
  BY <1>2, <1>3, <1>4

LEMMA ArriveKeeps == ASSUME NEW t \in Threads, IInv, Arrive(t) PROVE IInv'
<1>1. TypeOK /\ TestInv /\ ~Over /\ worker[t].pc = "start"
  BY DEF IInv, Arrive, At
<1>2. /\ UNCHANGED <<suite, k, main, size, TimeFlag, thread_ready, threadSum, before, counted>>
      /\ waiting' = IF waiting \cup {t} = Threads THEN {} ELSE waiting \cup {t}
  BY DEF Arrive, flags
<1>3. /\ worker' \in [Threads -> Workers] /\ worker'[t].pc = "barrier"
      /\ \A u \in Threads : worker'[u].i = worker[u].i
      /\ \A u \in Threads : u # t => worker'[u] = worker[u]
  BY <1>1, WorkerMoves DEF Arrive, Goes, WorkerPCs
<1>4. MainView' /\ FirstTimed' /\ UNCHANGED <<Test, Timed, Over, Rounds>>
  BY <1>1, <1>2, <1>3, WorkerStepViews
<1>5. TypeOK'
  <2>1. waiting' \subseteq Threads
    BY <1>1, <1>2 DEF TypeOK
  <2>2. QED
    BY <1>1, <1>2, <1>3, <2>1 DEF TypeOK
<1>6. Meeting'
  <2>1. /\ waiting = {u \in Threads : worker[u].pc = "barrier"}
        /\ \A u \in Threads : worker[u].pc \in {"off", "start", "barrier"}
    BY <1>1 DEF TestInv, Meeting
  <2>2. waiting \cup {t} = {u \in Threads : worker'[u].pc = "barrier"}
    BY <1>3, <2>1
  <2>3. CASE waiting \cup {t} = Threads
    BY <1>2, <2>2, <2>3 DEF Meeting
  <2>4. CASE waiting \cup {t} # Threads
    <3>1. \A u \in Threads : worker'[u].pc \in {"off", "start", "barrier"}
      BY <1>3, <2>1
    <3>2. QED
      BY <1>2, <2>2, <2>4, <3>1 DEF Meeting
  <2>5. QED
    BY <2>3, <2>4
<1>7. ASSUME NEW u \in Threads PROVE WorkerView(u)'
  <2>1. WorkerView(u)
    BY <1>1 DEF TestInv
  <2>2. QED
    BY <1>1, <1>3, <1>4, <2>1 DEF WorkerView
<1>8. \A u \in Threads : worker'[u].pc = "ended" <=> worker[u].pc = "ended"
  BY <1>1, <1>3
<1>9. QED
  BY <1>1, <1>2, <1>3, <1>4, <1>5, <1>6, <1>7, <1>8, NothingMade

\* Once one worker is past the barrier everybody has met.
LEMMA PastBarrier ==
  ASSUME IInv, ~Over, NEW t \in Threads,
         \/ worker[t].pc = "barrier" /\ t \notin waiting
         \/ worker[t].pc \in {"loop", "do", "sum", "ended"}
  PROVE  waiting = {} /\ AllMet
BY DEF IInv, TestInv, Meeting, AllMet

\* Nobody is held back when t moves on from there.
LEMMA StillMet ==
  ASSUME NEW t \in Threads, waiting = {}, waiting' = {}, AllMet,
         worker'[t].pc \notin {"off", "start"},
         \A u \in Threads : u # t => worker'[u] = worker[u]
  PROVE  Meeting'
BY DEF AllMet, Meeting

LEMMA LeaveKeeps == ASSUME NEW t \in Threads, IInv, Leave(t) PROVE IInv'
<1>1. TypeOK /\ TestInv /\ ~Over /\ worker[t].pc = "barrier" /\ t \notin waiting
  BY DEF IInv, Leave, At
<1>2. /\ UNCHANGED <<suite, k, main, waiting, size, TimeFlag, threadSum, before, counted>>
      /\ thread_ready' = (thread_ready \/ (t = 0 /\ Timed))
  BY DEF Leave
<1>3. /\ worker' \in [Threads -> Workers] /\ worker'[t].pc = "loop"
      /\ \A u \in Threads : worker'[u].i = worker[u].i
      /\ \A u \in Threads : u # t => worker'[u] = worker[u]
  BY <1>1, WorkerMoves DEF Leave, Goes, WorkerPCs
<1>4. UNCHANGED <<Test, Timed, Over, Rounds>>
  BY <1>2 DEF Test, Timed, IsTimed, Over, Rounds
<1>5. waiting = {} /\ AllMet /\ AllMet'
  <2>1. waiting = {} /\ AllMet
    BY <1>1, PastBarrier
  <2>2. QED
    BY <1>3, <2>1 DEF AllMet
<1>6. TypeOK'
  <2>1. thread_ready' \in BOOLEAN
    BY <1>2, Zenon
  <2>2. QED
    BY <1>1, <1>2, <1>3, <2>1 DEF TypeOK
<1>7. Meeting'
  BY <1>2, <1>3, <1>5, StillMet
<1>8. MainView'
  BY <1>1, <1>2, <1>3, <1>4 DEF TestInv, MainView
<1>9. FirstTimed'
  <2>1. NoTimedYet' <=> NoTimedYet
    BY <1>2 DEF NoTimedYet
  <2>2. NoTimedYet => (thread_ready => Timed)
    BY <1>1 DEF TestInv, FirstTimed
  <2>3. NoTimedYet => (thread_ready' => Timed')
    BY <1>2, <1>4, <2>2, Zenon
  <2>4. QED
    BY <1>5, <2>1, <2>3 DEF FirstTimed
<1>10. ASSUME NEW u \in Threads PROVE WorkerView(u)'
  <2>1. WorkerView(u)
    BY <1>1 DEF TestInv
  <2>2. worker'[t].i = 0 /\ Rounds \in Nat /\ MaxCount \in Nat /\ 0 % 2 = 0
    BY <1>1, <1>3, Constants DEF TestInv, WorkerView
  <2>3. QED
    BY <1>1, <1>3, <1>4, <2>1, <2>2 DEF WorkerView
<1>11. \A u \in Threads : worker'[u].pc = "ended" <=> worker[u].pc = "ended"
  BY <1>1, <1>3
<1>12. QED
  BY <1>1, <1>2, <1>3, <1>4, <1>6, <1>7, <1>8, <1>9, <1>10, <1>11, NothingMade

LEMMA LookKeeps == ASSUME NEW t \in Threads, IInv, Look(t) PROVE IInv'
<1> DEFINE pc == IF Timed THEN IF TimeFlag THEN "sum" ELSE "do"
                 ELSE IF worker[t].i < Rounds THEN "do" ELSE "ended"
<1>1. TypeOK /\ TestInv /\ ~Over /\ worker[t].pc = "loop" /\ worker[t].i \in Nat
  BY DEF IInv, Look, At, TypeOK, Workers
<1>2. /\ UNCHANGED <<suite, k, main, waiting, size, TimeFlag, thread_ready, threadSum,
                     before, counted>>
      /\ worker' = [worker EXCEPT ![t].pc = pc] /\ pc \in {"do", "sum", "ended"}
      /\ Timed => TimeFlag \/ worker[t].i < MaxCount
  BY DEF Look, Goes, flags
<1>3. /\ Timed => pc # "ended" /\ (pc = "do" => worker[t].i < MaxCount)
      /\ ~Timed => pc = IF worker[t].i < Rounds THEN "do" ELSE "ended"
  BY <1>2
<1> HIDE DEF pc
<1>4. /\ worker' \in [Threads -> Workers] /\ worker'[t].pc = pc
      /\ \A u \in Threads : worker'[u].i = worker[u].i
      /\ \A u \in Threads : u # t => worker'[u] = worker[u]
  BY <1>1, <1>2, WorkerMoves DEF WorkerPCs
<1>5. MainView' /\ FirstTimed' /\ UNCHANGED <<Test, Timed, Over, Rounds>>
  BY <1>1, <1>2, <1>4, WorkerStepViews
<1>6. TypeOK'
  BY <1>1, <1>2, <1>4 DEF TypeOK
<1>7. Meeting'
  BY <1>1, <1>2, <1>4, PastBarrier, StillMet
<1>8. ASSUME NEW u \in Threads PROVE WorkerView(u)'
  <2>1. WorkerView(u)
    BY <1>1 DEF TestInv
  <2>2. CASE u # t
    BY <1>4, <1>5, <2>1, <2>2 DEF WorkerView
  <2>3. CASE u = t
    <3>1. worker'[t].i = worker[t].i /\ worker'[t].pc \in {"do", "sum", "ended"}
      BY <1>2, <1>4
    <3>2. ~Timed => /\ worker[t].i <= Rounds
                    /\ pc # "sum" /\ (pc = "do" => worker[t].i < Rounds)
                    /\ pc = "ended" => worker[t].i = Rounds
      BY <1>1, <1>3, <2>1, <2>3, Constants DEF WorkerView
    <3>3. /\ Test = "T_R_ADD_REMOVE" => Timed /\ worker[t].i <= MaxCount
          /\ Test = "T_ADD_REMOVE" => worker[t].i % 2 = 0
      BY <1>1, <2>1, <2>3 DEF WorkerView, Timed, IsTimed
    <3>4. QED
      BY <1>3, <1>4, <1>5, <2>3, <3>1, <3>2, <3>3 DEF WorkerView
  <2>4. QED
    BY <2>2, <2>3
<1>9. Timed => \A u \in Threads : worker'[u].pc = "ended" <=> worker[u].pc = "ended"
  BY <1>1, <1>3, <1>4
<1>10. QED
  BY <1>1, <1>2, <1>4, <1>5, <1>6, <1>7, <1>8, <1>9, NothingMade

\* The sum of what the workers have added grows by what t has counted.
LEMMA AddUpKeeps == ASSUME NEW t \in Threads, IInv, AddUp(t) PROVE IInv'
<1>1. TypeOK /\ TestInv /\ ~Over /\ worker[t].pc = "sum" /\ Timed
  BY DEF IInv, AddUp, At, TestInv, WorkerView
<1>2. /\ UNCHANGED <<suite, k, main, waiting, size, TimeFlag, thread_ready, before, counted>>
      /\ threadSum' = threadSum + Count[t]
  BY DEF AddUp, Count
<1>3. /\ worker' \in [Threads -> Workers] /\ worker'[t].pc = "ended"
      /\ \A u \in Threads : worker'[u].i = worker[u].i
      /\ \A u \in Threads : u # t => worker'[u] = worker[u]
  BY <1>1, WorkerMoves DEF AddUp, Goes, WorkerPCs
<1>4. MainView' /\ FirstTimed' /\ UNCHANGED <<Test, Timed, Over, Rounds>>
  BY <1>1, <1>2, <1>3, WorkerStepViews
<1>5. /\ Made \in Counters /\ Count \in Counters /\ Added \in Counters
      /\ \A u \in Threads : Added[u] <= Made[u]
  BY <1>1, CounterTypes
<1>6. Made' = Made /\ Count' = Count /\ Outstanding' = Outstanding
  BY <1>3, <1>4 DEF Made, Count, Outstanding
<1>7. /\ Added' \in Counters /\ Added'[t] = Added[t] + Count[t]
      /\ \A u \in Threads : u # t => Added'[u] = Added[u]
  <2>1. Count[t] \in Nat /\ Added[t] = 0 /\ Added'[t] = Count[t]
    BY <1>1, <1>3, <1>5, <1>6 DEF Added, Counters
  <2>2. \A u \in Threads : u # t => Added'[u] = Added[u]
    BY <1>3, <1>6 DEF Added
  <2>3. \A u \in Threads : Added'[u] \in Nat
    BY <1>5, <2>1, <2>2 DEF Counters
  <2>4. Added' \in Counters
    BY <2>3 DEF Added, Counters
  <2>5. QED
    BY <2>1, <2>2, <2>4
<1>8. Total(Added)' = Total(Added) + Count[t]
  <2>1. IsFiniteSet(Pairs(Added)) /\ Count[t] \in Nat
    BY <1>1, <1>5, TotalIsMonotone DEF TestInv, Counters
  <2>2. Total(Added') = Total(Added) + Count[t]
    BY <1>5, <1>7, <2>1, TotalGains
  <2>3. QED
    BY <2>2 DEF Total, Pairs
<1>9. TypeOK'
  <2>1. Count[t] \in Nat /\ threadSum \in Nat
    BY <1>1, <1>5 DEF TypeOK, Counters
  <2>2. QED
    BY <1>1, <1>2, <1>3, <2>1 DEF TypeOK
<1>10. Meeting'
  BY <1>1, <1>2, <1>3, PastBarrier, StillMet
<1>11. ASSUME NEW u \in Threads PROVE WorkerView(u)'
  <2>1. WorkerView(u)
    BY <1>1 DEF TestInv
  <2>2. QED
    BY <1>1, <1>3, <1>4, <2>1 DEF WorkerView
<1>12. SizeView' /\ SumView' /\ IsFiniteSet(Pairs(Made))'
  <2>1. SizeView /\ SumView /\ IsFiniteSet(Pairs(Made))
    BY <1>1 DEF TestInv
  <2>2. Total(Made)' = Total(Made) /\ Pairs(Made)' = Pairs(Made)
        /\ Total(Outstanding)' = Total(Outstanding) /\ Total(Count)' = Total(Count)
    BY <1>6 DEF Total, Pairs
  <2>3. QED
    BY <1>1, <1>2, <1>4, <1>8, <2>1, <2>2 DEF SizeView, SumView
<1>13. QED
  BY <1>4, <1>9, <1>10, <1>11, <1>12 DEF IInv, TestInv

\* One more operation of t.
LEMMA DoMoves ==
  ASSUME NEW t \in Threads, IInv, Do(t)
  PROVE  /\ TypeOK /\ TestInv /\ ~Over /\ worker[t].pc = "do" /\ worker[t].i \in Nat
         /\ UNCHANGED <<suite, k, main, waiting, TimeFlag, thread_ready, threadSum, before>>
         /\ worker' \in [Threads -> Workers]
         /\ worker'[t].i = worker[t].i + 1
         /\ worker'[t].pc = IF Half(t) THEN "do" ELSE "loop"
         /\ \A u \in Threads : u # t => worker'[u] = worker[u]
<1>1. TypeOK /\ TestInv /\ ~Over /\ worker[t].pc = "do" /\ worker \in [Threads -> Workers]
  BY DEF IInv, Do, At, TypeOK
<1>2. worker[t].i \in Nat
  BY <1>1 DEF Workers
<1> DEFINE pc == IF Half(t) THEN "do" ELSE "loop"
           a == [worker[t] EXCEPT !.i = worker[t].i + 1]
           b == [a EXCEPT !.pc = pc]
           half == [worker EXCEPT ![t] = a]
<1>3. a \in Workers /\ a.i = worker[t].i + 1
  BY <1>1, <1>2 DEF Workers
<1>4. b \in Workers /\ b.i = worker[t].i + 1 /\ b.pc = pc
  <2>1. pc \in WorkerPCs
    BY DEF WorkerPCs
  <2> HIDE DEF a, pc
  <2>2. QED
    BY <1>3, <2>1 DEF Workers
<1>5. half \in [Threads -> Workers] /\ half[t] = a
  <2> HIDE DEF a
  <2>1. QED
    BY <1>1, <1>3
<1>6. worker' = [half EXCEPT ![t] = b]
  <2>1. worker' = [half EXCEPT ![t] = [half[t] EXCEPT !.pc = pc]]
    BY DEF Do
  <2> HIDE DEF half, a, pc
  <2>2. QED
    BY <1>5, <2>1
<1>7. /\ worker' \in [Threads -> Workers] /\ worker'[t] = b
      /\ \A u \in Threads : u # t => worker'[u] = worker[u]
  <2> HIDE DEF a, b
  <2>1. QED
    BY <1>1, <1>4, <1>5, <1>6
<1>8. UNCHANGED <<suite, k, main, waiting, TimeFlag, thread_ready, threadSum, before>>
  BY DEF Do, flags
<1> HIDE DEF b
<1>9. QED
  BY <1>1, <1>2, <1>4, <1>7, <1>8

\* What it changes of the counters.
LEMMA DoCounts ==
  ASSUME NEW t \in Threads, IInv, Do(t)
  PROVE  /\ Made' \in Counters /\ Made'[t] = Made[t] + 1
         /\ \A u \in Threads : u # t => Made'[u] = Made[u]
         /\ Count' \in Counters
         /\ Count'[t] = IF Half(t) THEN Count[t] ELSE Count[t] + 1
         /\ \A u \in Threads : u # t => Count'[u] = Count[u]
         /\ Timed => Added' = Added
<1>1. /\ TestInv /\ worker[t].pc = "do" /\ worker[t].i \in Nat /\ worker'[t].i = worker[t].i + 1
      /\ \A u \in Threads : u # t => worker'[u] = worker[u]
      /\ Test' = Test /\ worker'[t].pc # "ended" /\ ~Over
  BY DoMoves DEF Test
<1>2. Made \in Counters /\ Count \in Counters
  BY <1>1, CounterTypes
<1>3. Made[t] = worker[t].i /\ Made'[t] = Made[t] + 1 /\ Made[t] \in Nat
      /\ \A u \in Threads : u # t => Made'[u] = Made[u]
  BY <1>1 DEF Made
<1>4. Made' \in Counters
  <2>1. \A u \in Threads : Made'[u] \in Nat
    BY <1>2, <1>3 DEF Counters
  <2>2. QED
    BY <2>1 DEF Made, Counters
<1>5. Count'[t] = IF Half(t) THEN Count[t] ELSE Count[t] + 1
  BY <1>1, HalfOf DEF Count, Half
<1>6. \A u \in Threads : u # t => Count'[u] = Count[u]
  BY <1>1 DEF Count
<1>7. Count' \in Counters
  <2>1. \A u \in Threads : Count'[u] \in Nat
    BY <1>2, <1>5, <1>6 DEF Counters
  <2>2. QED
    BY <2>1 DEF Count, Counters
<1>8. Added' = Added
  BY <1>1, <1>6 DEF Added
<1>9. QED
  BY <1>3, <1>4, <1>5, <1>6, <1>7, <1>8

\* In the tests that remove what they have added, an add leaves one more
\* element outstanding and a remove takes back one that is.
LEMMA DoOutstanding ==
  ASSUME NEW t \in Threads, IInv, Do(t), Test \in {"ADD_REMOVE", "T_ADD_REMOVE"}
  PROVE  /\ Outstanding' \in Counters
         /\ \A u \in Threads : u # t => Outstanding'[u] = Outstanding[u]
         /\ \/ Ops(worker[t].i) = {"add"} /\ Outstanding'[t] = Outstanding[t] + 1
            \/ Ops(worker[t].i) = {"remove"} /\ Outstanding[t] = Outstanding'[t] + 1
<1> DEFINE n == worker[t].i
<1>1. /\ TestInv /\ ~Over /\ worker[t].pc = "do" /\ n \in Nat /\ worker'[t].i = n + 1
      /\ \A u \in Threads : u # t => worker'[u] = worker[u]
      /\ Test' = Test
  BY DoMoves DEF Test
<1>2. Outstanding \in Counters
  BY <1>1, CounterTypes
<1>3. \A u \in Threads : u # t => Outstanding'[u] = Outstanding[u]
  BY <1>1 DEF Outstanding
<1>4. ASSUME Test = "ADD_REMOVE"
      PROVE  \/ Ops(n) = {"add"} /\ Outstanding'[t] = Outstanding[t] + 1
             \/ Ops(n) = {"remove"} /\ Outstanding[t] = Outstanding'[t] + 1
  <2>1. n < 2 * Partitions /\ Partitions \in Nat
    BY <1>1, <1>4, Constants DEF TestInv, WorkerView, Timed, IsTimed, Rounds
  <2>2. Ops(n) = IF n < Partitions THEN {"add"} ELSE {"remove"}
    BY <1>4 DEF Ops
  <2>3. /\ Outstanding[t] = IF n > Partitions THEN 2 * Partitions - n ELSE n
        /\ Outstanding'[t] = IF n + 1 > Partitions THEN 2 * Partitions - (n + 1) ELSE n + 1
    BY <1>1, <1>4 DEF Outstanding
  <2> HIDE DEF n
  <2>4. CASE n < Partitions
    <3>1. Outstanding[t] = n /\ Outstanding'[t] = n + 1
      BY <1>1, <2>1, <2>3, <2>4
    <3>2. QED
      BY <2>2, <2>4, <3>1
  <2>5. CASE ~(n < Partitions)
    <3>1. Outstanding[t] = 2 * Partitions - n /\ Outstanding'[t] = 2 * Partitions - (n + 1)
      BY <1>1, <2>1, <2>3, <2>5
    <3>2. Outstanding[t] = Outstanding'[t] + 1
      BY <1>1, <2>1, <3>1
    <3>3. QED
      BY <2>2, <2>5, <3>2
  <2>6. QED
    BY <2>4, <2>5
<1>5. ASSUME Test = "T_ADD_REMOVE"
      PROVE  \/ Ops(n) = {"add"} /\ Outstanding'[t] = Outstanding[t] + 1
             \/ Ops(n) = {"remove"} /\ Outstanding[t] = Outstanding'[t] + 1
  <2>1. Ops(n) = IF n % 2 = 0 THEN {"add"} ELSE {"remove"}
    BY <1>5 DEF Ops
  <2>2. Outstanding[t] = n % 2 /\ Outstanding'[t] = (n + 1) % 2
    BY <1>1, <1>5 DEF Outstanding
  <2>3. n % 2 \in {0, 1}
    BY <1>1, HalfOf
  <2>4. CASE n % 2 = 0
    <3>1. (n + 1) % 2 = 1
      BY <1>1, <2>4, HalfOf
    <3>2. QED
      BY <2>1, <2>2, <2>4, <3>1
  <2>5. CASE n % 2 = 1
    <3>1. (n + 1) % 2 = 0
      BY <1>1, <2>5, HalfOf
    <3>2. QED
      BY <2>1, <2>2, <2>5, <3>1
  <2>6. QED
    BY <2>3, <2>4, <2>5
<1>6. Outstanding'[t] \in Nat
  <2>1. Outstanding[t] \in Nat
    BY <1>2 DEF Counters
  <2>2. CASE Test = "ADD_REMOVE"
    <3>1. n < 2 * Partitions /\ Partitions \in Nat
      BY <1>1, <2>2, Constants DEF TestInv, WorkerView, Timed, IsTimed, Rounds
    <3>2. Outstanding'[t] = IF n + 1 > Partitions THEN 2 * Partitions - (n + 1) ELSE n + 1
      BY <1>1, <2>2 DEF Outstanding
    <3> HIDE DEF n
    <3>3. QED
      BY <1>1, <3>1, <3>2
  <2>3. CASE Test = "T_ADD_REMOVE"
    <3>1. Outstanding'[t] = (n + 1) % 2 /\ n + 1 \in Nat
      BY <1>1, <2>3 DEF Outstanding
    <3>2. QED
      BY <3>1, HalfOf
  <2>4. QED
    BY <2>2, <2>3
<1>7. Outstanding' \in Counters
  <2>1. \A u \in Threads : Outstanding'[u] \in Nat
    BY <1>2, <1>3, <1>6 DEF Counters
  <2>2. QED
    BY <2>1 DEF Outstanding, Counters
<1>8. QED
  BY <1>3, <1>4, <1>5, <1>7

LEMMA DoKeeps == ASSUME NEW t \in Threads, IInv, Do(t) PROVE IInv'
<1>1. /\ TypeOK /\ TestInv /\ ~Over /\ worker[t].pc = "do" /\ worker[t].i \in Nat
      /\ UNCHANGED <<suite, k, main, waiting, TimeFlag, thread_ready, threadSum, before>>
      /\ worker' \in [Threads -> Workers]
      /\ worker'[t].i = worker[t].i + 1
      /\ worker'[t].pc = IF Half(t) THEN "do" ELSE "loop"
      /\ \A u \in Threads : u # t => worker'[u] = worker[u]
  BY DoMoves
<1>2. MainView' /\ FirstTimed' /\ UNCHANGED <<Test, Timed, Over, Rounds>>
  BY <1>1, WorkerStepViews
<1>3. Meeting'
  BY <1>1, PastBarrier, StillMet
<1>4. PICK op \in Ops(worker[t].i) :
        size' = IF op = "add" THEN size + 1 ELSE IF size > 0 THEN size - 1 ELSE 0
  BY DEF Do
<1>5. counted' = IF Half(t) THEN counted ELSE counted + 1
  BY DEF Do
<1>6. TypeOK'
  <2>1. size \in Nat /\ counted \in Nat
    BY <1>1 DEF TypeOK
  <2>2. size' \in Nat /\ counted' \in Nat
    BY <1>4, <1>5, <2>1
  <2>3. QED
    BY <1>1, <2>2 DEF TypeOK
<1>7. Test \in TestTypes
  BY <1>1, Tests
<1>8. ASSUME NEW u \in Threads PROVE WorkerView(u)'
  <2>1. WorkerView(u) /\ WorkerView(t)
    BY <1>1 DEF TestInv
  <2>2. CASE u # t
    BY <1>1, <1>2, <2>1, <2>2 DEF WorkerView
  <2>3. CASE u = t
    <3>1. ~Timed => ~Half(t) /\ worker[t].i < Rounds
      BY <1>1, <2>1 DEF WorkerView, Half, Timed, IsTimed
    <3>2. ~Timed => worker'[t].i <= Rounds /\ worker'[t].pc = "loop"
      BY <1>1, <3>1, Constants
    <3>3. Test = "T_R_ADD_REMOVE" => ~Half(t) /\ worker[t].i < MaxCount
      BY <1>1, <2>1 DEF WorkerView, Half
    <3>4. Test = "T_R_ADD_REMOVE" => worker'[t].i <= MaxCount /\ worker'[t].pc = "loop"
      BY <1>1, <3>3, Constants
    <3>5. Test = "T_ADD_REMOVE" /\ worker'[t].pc # "do" => worker'[t].i % 2 = 0
      <4>1. ASSUME Test = "T_ADD_REMOVE", worker'[t].pc # "do" PROVE (worker[t].i + 1) % 2 = 0
        <5>1. worker[t].i % 2 # 0
          BY <1>1, <4>1 DEF Half
        <5>2. QED
          BY <1>1, <5>1, HalfOf
      <4>2. QED
        BY <1>1, <4>1
    <3>6. worker'[t].pc \in {"do", "loop"}
      BY <1>1
    <3>7. QED
      BY <1>2, <2>3, <3>2, <3>4, <3>5, <3>6 DEF WorkerView
  <2>4. QED
    BY <2>2, <2>3
<1>9. /\ Made \in Counters /\ Made' \in Counters /\ IsFiniteSet(Pairs(Made))
      /\ IsFiniteSet(Pairs(Made')) /\ Total(Made) \in Nat /\ Total(Made') = Total(Made) + 1
  <2>1. /\ Made \in Counters /\ Made' \in Counters /\ Made'[t] = Made[t] + 1
        /\ \A u \in Threads : u # t => Made'[u] = Made[u]
        /\ IsFiniteSet(Pairs(Made))
    BY <1>1, DoCounts, CounterTypes DEF TestInv
  <2>2. QED
    BY <2>1, TotalGains
<1>10. Total(Made)' = Total(Made') /\ Pairs(Made)' = Pairs(Made') /\ Total(Count)' = Total(Count')
       /\ Total(Outstanding)' = Total(Outstanding') /\ Total(Added)' = Total(Added')
  BY DEF Total, Pairs
<1>11. SumView'
  <2>1. SumView
    BY <1>1 DEF TestInv
  <2>2. CASE Timed
    <3>1. /\ Count \in Counters /\ Count' \in Counters /\ Added' = Added
          /\ \A u \in Threads : Count[u] <= Made[u]
          /\ Count'[t] = IF Half(t) THEN Count[t] ELSE Count[t] + 1
          /\ \A u \in Threads : u # t => Count'[u] = Count[u]
      BY <1>1, <2>2, DoCounts, CounterTypes
    <3>2. IsFiniteSet(Pairs(Count))
      BY <1>9, <3>1, TotalIsMonotone
    <3>3. CASE Half(t)
      <4>1. Count' = Count
        <5>1. \A u \in Threads : Count'[u] = Count[u]
          BY <3>1, <3>3
        <5>2. QED
          BY <3>1, <5>1, TotalIsSame
      <4>2. QED
        BY <1>1, <1>2, <1>5, <1>10, <2>1, <2>2, <3>1, <3>3, <4>1 DEF SumView
    <3>4. CASE ~Half(t)
      <4>1. Total(Count') = Total(Count) + 1
        BY <3>1, <3>2, <3>4, TotalGains
      <4>2. QED
        BY <1>1, <1>2, <1>5, <1>10, <2>1, <2>2, <3>1, <3>4, <4>1 DEF SumView
    <3>5. QED
      BY <3>3, <3>4
  <2>3. CASE ~Timed
    BY <1>1, <1>2, <2>1, <2>3 DEF SumView
  <2>4. QED
    BY <2>2, <2>3
<1>12. SizeView'
  <2>1. SizeView /\ size \in Nat /\ before \in Nat
    BY <1>1 DEF TestInv, TypeOK
  <2>2. CASE Test = "ADD"
    <3>1. op = "add"
      BY <1>4, <2>2 DEF Ops
    <3>2. QED
      BY <1>1, <1>2, <1>4, <1>9, <1>10, <2>1, <2>2, <3>1 DEF SizeView
  <2>3. CASE Test = "REMOVE"
    <3>1. op = "remove"
      BY <1>4, <2>3 DEF Ops
    <3>2. size = IF before > Total(Made) THEN before - Total(Made) ELSE 0
      BY <2>1, <2>3 DEF SizeView
    <3>3. size' = IF before > Total(Made') THEN before - Total(Made') ELSE 0
      BY <1>4, <1>9, <2>1, <3>1, <3>2
    <3>4. QED
      BY <1>1, <1>2, <1>10, <2>3, <3>3 DEF SizeView
  <2>4. CASE Test \in {"ADD_REMOVE", "T_ADD_REMOVE"}
    <3>1. /\ Outstanding \in Counters /\ Outstanding' \in Counters
          /\ \A u \in Threads : Outstanding[u] <= Made[u]
          /\ \A u \in Threads : u # t => Outstanding'[u] = Outstanding[u]
          /\ \/ op = "add" /\ Outstanding'[t] = Outstanding[t] + 1
             \/ op = "remove" /\ Outstanding[t] = Outstanding'[t] + 1
      BY <1>1, <1>4, <2>4, DoOutstanding, CounterTypes
    <3>2. IsFiniteSet(Pairs(Outstanding)) /\ size = before + Total(Outstanding)
      BY <1>9, <2>1, <2>4, <3>1, TotalIsMonotone DEF SizeView
    <3>3. CASE op = "add" /\ Outstanding'[t] = Outstanding[t] + 1
      <4>1. Total(Outstanding) \in Nat /\ Total(Outstanding') = Total(Outstanding) + 1
        BY <3>1, <3>2, <3>3, TotalGains
      <4>2. size' = before + Total(Outstanding')
        BY <1>4, <2>1, <3>2, <3>3, <4>1
      <4>3. QED
        BY <1>1, <1>2, <1>10, <2>4, <4>2 DEF SizeView
    <3>4. CASE op = "remove" /\ Outstanding[t] = Outstanding'[t] + 1
      <4>1. \A u \in Threads : Outstanding'[u] <= Outstanding[u]
        BY <3>1, <3>4 DEF Counters
      <4>2. IsFiniteSet(Pairs(Outstanding'))
        BY <3>1, <3>2, <4>1, TotalIsMonotone
      <4>3. Total(Outstanding') \in Nat /\ Total(Outstanding) = Total(Outstanding') + 1
        BY <3>1, <3>4, <4>2, TotalGains
      <4>4. size' = before + Total(Outstanding')
        BY <1>4, <2>1, <3>2, <3>4, <4>3
      <4>5. QED
        BY <1>1, <1>2, <1>10, <2>4, <4>4 DEF SizeView
    <3>5. QED
      BY <3>1, <3>3, <3>4
  <2>5. CASE Test \in {"R_ADD_REMOVE", "T_R_ADD_REMOVE"}
    <3>1. size <= before + Total(Made)
      BY <2>1, <2>5 DEF SizeView
    <3>2. size' <= before + Total(Made')
      BY <1>4, <1>9, <2>1, <3>1
    <3>3. QED
      BY <1>1, <1>2, <1>10, <2>5, <3>2 DEF SizeView
  <2>6. QED
    BY <1>7, <2>2, <2>3, <2>4, <2>5 DEF TestTypes
<1>13. QED
  BY <1>2, <1>3, <1>6, <1>8, <1>9, <1>10, <1>11, <1>12 DEF IInv, TestInv

-----------------------------------------------------------------------------
LEMMA InitInvariant == Init => IInv
<1> SUFFICES ASSUME Init PROVE IInv
  OBVIOUS
<1>1. /\ worker \in [Threads -> Workers] /\ main \in [pc : MainPCs, i : Threads]
      /\ main.pc = "spawn" /\ main.i = 0
      /\ \A t \in Threads : worker[t].pc = "off" /\ worker[t].i = 0
  <2>1. Off \in Workers /\ Off.pc = "off" /\ Off.i = 0
    BY DEF Off, Workers, WorkerPCs
  <2>2. worker \in [Threads -> Workers] /\ \A t \in Threads : worker[t] = Off
    BY <2>1 DEF Init
  <2>3. main \in [pc : MainPCs, i : Threads] /\ main.pc = "spawn" /\ main.i = 0
    BY Constants DEF Init, MainPCs
  <2>4. QED
    BY <2>1, <2>2, <2>3
<1>2. TypeOK
  <2>1. suite \in Suites /\ k \in Nat \ {0} /\ waiting \in SUBSET Threads
    BY DEF Init
  <2>2. TimeFlag \in BOOLEAN /\ thread_ready \in BOOLEAN
    BY Zenon DEF Init
  <2>3. size \in Nat /\ threadSum \in Nat /\ before \in Nat /\ counted \in Nat
    BY DEF Init
  <2>4. QED
    BY <1>1, <2>1, <2>2, <2>3 DEF TypeOK
<1>3. ASSUME ~Over PROVE TestInv
  <2>1. Rounds \in Nat /\ 0 % 2 = 0 /\ 0 \div 2 = 0 /\ ~(0 > Partitions)
    BY Constants
  <2>2. /\ Made \in Counters /\ Count \in Counters /\ Added \in Counters
        /\ Outstanding \in Counters
        /\ \A t \in Threads : Made[t] = 0 /\ Count[t] = 0 /\ Added[t] = 0 /\ Outstanding[t] = 0
    BY <1>1, <2>1 DEF Made, Count, Added, Outstanding, Counters
  <2>3. /\ IsFiniteSet(Pairs(Made)) /\ Total(Made) = 0 /\ Total(Count) = 0
        /\ Total(Added) = 0 /\ Total(Outstanding) = 0
    BY <2>2, TotalOfZeros
  <2>4. SizeView /\ SumView
    BY <2>3 DEF SizeView, SumView, Init
  <2>5. Meeting /\ MainView /\ FirstTimed
    BY <1>1, Constants DEF Init, Meeting, MainView, FirstTimed
  <2>6. \A t \in Threads : WorkerView(t)
    BY <1>1, <2>1, Constants DEF WorkerView
  <2>7. QED
    BY <2>3, <2>4, <2>5, <2>6 DEF TestInv
<1>4. QED
  BY <1>2, <1>3 DEF IInv

\* The inductive invariant holds in every reachable state.
THEOREM InductiveInvariant == Spec => []IInv
<1>1. IInv /\ [Next]_vars => IInv'
  <2> SUFFICES ASSUME IInv, [Next]_vars PROVE IInv'
    OBVIOUS
  <2>1. CASE Main
    BY <2>1, SpawnKeeps, ReadyKeeps, JoinKeeps, NextTestKeeps DEF Main
  <2>2. ASSUME NEW t \in Threads, Work(t) PROVE IInv'
    BY <2>2, ArriveKeeps, LeaveKeeps, LookKeeps, DoKeeps, AddUpKeeps DEF Work
  <2>3. CASE UNCHANGED vars
    <3>1. UNCHANGED <<suite, k, main, worker, waiting, size, TimeFlag, thread_ready, threadSum,
                      before, counted>>
      BY <2>3 DEF vars, flags
    <3>2. TypeOK'
      BY <3>1 DEF IInv, TypeOK
    <3>3. UNCHANGED <<Test, Timed, Over, Rounds>>
      BY <3>1 DEF Test, Timed, IsTimed, Over, Rounds
    <3>4. CASE Over
      BY <3>2, <3>3, <3>4 DEF IInv
    <3>5. CASE ~Over
      <4>1. TestInv
        BY <3>5 DEF IInv
      <4>2. Meeting' /\ MainView' /\ FirstTimed' /\ \A t \in Threads : WorkerView(t)'
        <5>1. Meeting'
          BY <3>1, <4>1 DEF TestInv, Meeting
        <5>2. MainView'
          BY <3>1, <3>3, <4>1 DEF TestInv, MainView
        <5>3. FirstTimed'
          BY <3>1, <3>3, <4>1 DEF TestInv, FirstTimed, NoTimedYet, AllMet
        <5>4. \A t \in Threads : WorkerView(t)'
          BY <3>1, <3>3, <4>1 DEF TestInv, WorkerView
        <5>5. QED
          BY <5>1, <5>2, <5>3, <5>4
      <4>3. QED
        BY <3>1, <3>2, <3>5, <4>2, NothingMade
    <3>6. QED
      BY <3>4, <3>5
  <2>4. QED
    BY <2>1, <2>2, <2>3 DEF Next, Terminating
<1>2. QED
  BY InitInvariant, <1>1, PTL DEF Spec

\* When its workers are joined, a test has left in the structure what its name
\* says, for any number of threads and actions.
THEOREM SharesAreLeft == Spec => []TestsLeaveTheirShare
<1>1. IInv => TestsLeaveTheirShare
  <2> SUFFICES ASSUME IInv, MainAt("report") PROVE TestsLeaveTheirShare
    BY DEF TestsLeaveTheirShare
  <2>1. TypeOK /\ TestInv /\ ~Over /\ SizeView /\ Test \in TestTypes /\ size \in Nat /\ before \in Nat
    BY Tests DEF IInv, MainAt, TestInv, TypeOK
  <2>2. \A t \in Threads : worker[t].pc = "ended" /\ WorkerView(t)
    BY <2>1 DEF TestInv, MainView, MainAt
  <2>3. Made \in Counters /\ Outstanding \in Counters
    BY <2>1, CounterTypes
  <2>4. Test \in {"ADD", "REMOVE", "R_ADD_REMOVE"} => Total(Made) = NThreads * Partitions
    <3>1. ASSUME Test \in {"ADD", "REMOVE", "R_ADD_REMOVE"}, NEW t \in Threads
          PROVE  Made[t] = Partitions
      BY <2>2, <3>1 DEF WorkerView, Timed, IsTimed, Rounds, Made
    <3>2. QED
      BY <2>3, <3>1, Constants, TotalOfEquals
  <2>5. Test = "T_R_ADD_REMOVE" => Total(Made) \in Nat /\ Total(Made) <= NThreads * MaxCount
    <3>1. ASSUME Test = "T_R_ADD_REMOVE", NEW t \in Threads PROVE Made[t] <= MaxCount
      BY <2>2, <3>1 DEF WorkerView, Made
    <3>2. QED
      BY <2>3, <3>1, Constants, TotalIsBounded
  <2>6. Test \in {"ADD_REMOVE", "T_ADD_REMOVE"} => Total(Outstanding) = 0
    <3>1. ASSUME Test \in {"ADD_REMOVE", "T_ADD_REMOVE"}, NEW t \in Threads
          PROVE  Outstanding[t] = 0
      <4>1. CASE Test = "ADD_REMOVE"
        <5>1. worker[t].i = 2 * Partitions /\ Partitions \in Nat
          BY <2>2, <4>1, Constants DEF WorkerView, Timed, IsTimed, Rounds
        <5>2. QED
          BY <4>1, <5>1 DEF Outstanding
      <4>2. CASE Test = "T_ADD_REMOVE"
        BY <2>2, <4>2 DEF WorkerView, Outstanding
      <4>3. QED
        BY <3>1, <4>1, <4>2
    <3>2. QED
      BY <2>3, <3>1, TotalOfZeros
  <2>7. CASE Test \in {"ADD", "REMOVE"}
    BY <2>1, <2>4, <2>7 DEF SizeView, TestsLeaveTheirShare
  <2>8. CASE Test \in {"ADD_REMOVE", "T_ADD_REMOVE"}
    BY <2>1, <2>6, <2>8 DEF SizeView, TestsLeaveTheirShare
  <2>9. CASE Test = "R_ADD_REMOVE"
    BY <2>1, <2>4, <2>9 DEF SizeView, TestsLeaveTheirShare, Timed, IsTimed
  <2>10. CASE Test = "T_R_ADD_REMOVE"
    <3>1. size <= before + Total(Made)
      BY <2>1, <2>10 DEF SizeView
    <3>2. NThreads * MaxCount \in Nat
      BY Constants
    <3>3. size <= before + NThreads * MaxCount
      BY <2>1, <2>5, <2>10, <3>1, <3>2
    <3>4. QED
      BY <2>10, <3>3 DEF TestsLeaveTheirShare, Timed, IsTimed
  <2>11. QED
    BY <2>1, <2>7, <2>8, <2>9, <2>10 DEF TestTypes
<1>2. QED
  BY <1>1, InductiveInvariant, PTL

\* The sum a timed test reports is what its own workers counted.
THEOREM SumsAreWhole == Spec => []SumIsWhole
<1>1. IInv => SumIsWhole
  <2> SUFFICES ASSUME IInv, MainAt("report"), Timed PROVE threadSum = counted
    BY DEF SumIsWhole
  <2>1. TestInv /\ ~Over
    BY DEF IInv, MainAt
  <2>2. \A t \in Threads : worker[t].pc = "ended"
    BY <2>1 DEF TestInv, MainView, MainAt
  <2>3. Count \in Counters /\ Added \in Counters
    BY <2>1, CounterTypes
  <2>4. Added = Count
    <3>1. \A t \in Threads : Added[t] = Count[t]
      BY <2>2 DEF Added
    <3>2. QED
      BY <2>3, <3>1, TotalIsSame
  <2>5. QED
    BY <2>1, <2>4 DEF TestInv, SumView
<1>2. QED
  BY <1>1, InductiveInvariant, PTL

\* The first timed test sleeps while its workers work.
THEOREM FirstSleepIsWorked == Spec => []FirstSleepIsUsed
<1>1. IInv => FirstSleepIsUsed
  BY DEF IInv, TestInv, FirstTimed, NoTimedYet, AllMet, FirstSleepIsUsed, MainAt
<1>2. QED
  BY <1>1, InductiveInvariant, PTL

-----------------------------------------------------------------------------
(***************************************************************************)
(* The universal construction the harness drives in PsimBenchmark.hpp, for *)
(* any threads and numbers of calls: calls that do not overlap act like    *)
(* calls of the sequential stack; and however calls overlap, nobody writes *)
(* the current state, and a copy that is used is a true one.               *)
(*                                                                         *)
(* Overlap holds of all calls: a thread writes a record, a list and a      *)
(* state that nothing current names, until it makes its record current.    *)
(* Turn(t) says, for calls in turn, at each place of a call how far the    *)
(* request of t has come: from the current state, through t's copy and t's *)
(* own state, to the state that is current when t returns.  It also covers *)
(* the first call of thread 0, whose own state is the current one.         *)
(***************************************************************************)
VARIABLES waits, announce, toggles, list, st, rec, curr, bit, local, calls, want

\* Funcs is as large as it may be, and nothing ties the two numbers of calls to
\* the harness: Actions and MaxCount are any numbers.
Sim == INSTANCE Psim WITH Funcs <- {"add", "remove"}, InTurn <- Actions, Together <- MaxCount

LEMMA PsimAssumption == Sim!PsimAssumption
BY BenchmarkAssumption DEF Sim!PsimAssumption

PCs == {"idle", "toggle", "start", "copy", "functor", "call", "first", "rest", "read", "check",
        "bind", "apply", "mark", "before", "target", "dcas", "store", "answer", "done", "crashed"}

Requests == [func : {"none", "add", "remove"}, args : Int]
StateRecords == [object : Sim!Objects, applied : [Sim!Threads -> BOOLEAN], rvals : [Sim!Threads -> Int]]
SeqRecords == [state : Sim!States, seq : Nat]
Locals == [pc : PCs, round : 0..3, i : Sim!Threads, old : Sim!Records, from : Sim!States, object : Sim!Objects,
           copy : Seq(Int), seen : [Sim!Threads -> BOOLEAN], before : SeqRecords,
           target : Sim!Records, res : Int]

PsimTypeOK ==
  /\ waits \in BOOLEAN
  /\ announce \in [Sim!Threads -> Requests]
  /\ toggles \in [Sim!Threads -> BOOLEAN]
  /\ list \in [Sim!Objects -> Seq(Int)]
  /\ st \in [Sim!States -> StateRecords]
  /\ rec \in [Sim!Records -> SeqRecords]
  /\ curr \in Sim!Records
  /\ bit \in [Sim!Threads -> {0, 1}]
  /\ local \in [Sim!Threads -> Locals]
  /\ calls \in [Sim!Threads -> 0..Sim!MaxCalls]
  /\ want \in [list : Seq(Int), answer : Int]

\* A call is under way, and its record has not been current yet.
Busy(t) == local[t].pc \notin {"idle", "answer", "done"}

\* No thread will fill this record any more.
Stored(r) == r[2] < calls[r[1]] \/ (r[2] = calls[r[1]] /\ ~Busy(r[1]))

\* While the record a call began with is current, nobody writes the state it
\* copies, and what it has read of it is true.  (Not so in the constructor's.)
CopyIsTrue(t) ==
  LET l == local[t]
      object == st[l.from].object IN
  curr = l.old /\ curr # <<0, 0>> =>
    /\ l.pc # "crashed"
    /\ l.pc \in {"functor", "call", "first", "rest", "read", "check"} =>
         \A u \in Sim!Threads : l.from = Sim!Mine(u) => Sim!Here(u, "store")
    /\ l.pc \in {"call", "first", "rest"} => l.object = object
    /\ l.pc \in {"first", "rest"} => list[object] # <<>>
    /\ l.pc = "rest" => l.copy = <<Head(list[object])>>
    /\ l.pc \in {"read", "check"} => l.copy = list[object]

\* What a thread knows of records is stored; it writes a list of its own call
\* and leaves the list of its other state alone.
Own(t) ==
  /\ Busy(t) => calls[t] >= 1
  /\ Busy(t) /\ local[t].pc # "toggle" => local[t].round \in {1, 2}
  /\ Stored(local[t].old) /\ Stored(local[t].target)
  /\ local[t].pc \in {"target", "dcas", "store"} => rec[Sim!New(t)].state = Sim!Mine(t)
  /\ Busy(t) => st[<<t, 1 - bit[t]>>].object[2] < calls[t]
  /\ Sim!Here(t, "apply") => st[Sim!Mine(t)].object = Sim!Copied(t)
  /\ CopyIsTrue(t)

\* A list is used by one state only, but for the constructor's.
ListsApart == \A t \in Sim!Threads, b \in {0, 1} :
  LET object == st[<<t, b>>].object IN
  object = Sim!Given \/ (object[1] = t /\ object[2] <= calls[t])

Overlap == Stored(curr) /\ Sim!NextStateIsFree /\ ListsApart /\ \A t \in Sim!Threads : Own(t)

\* At most one call is under way, and between calls the current state is what
\* the calls so far give, with every request applied.
Alone == \A t, u \in Sim!Threads : t = u \/ Sim!Here(t, "idle") \/ Sim!Here(u, "idle")
AllApplied == \A u \in Sim!Threads : Sim!Current.applied[u] = toggles[u]
Settled == list[Sim!Current.object] = want.list /\ AllApplied
Quiet == (\A t \in Sim!Threads : Sim!Here(t, "idle")) => Settled

\* The request of t is the only one a state with these marks has not applied.
OnlyMine(t, applied) == \A u \in Sim!Threads : (applied[u] = toggles[u]) <=> (u # t)

\* The request of t is still to be applied to this list.
Asks(t, seq) == want = Sim!SerialApply(seq, announce[t])

\* It has been applied in the state of t.
Served(t) == list[st[Sim!Mine(t)].object] = want.list /\ st[Sim!Mine(t)].rvals[t] = want.answer
AllMarked(t) == \A u \in Sim!Threads : st[Sim!Mine(t)].applied[u] = toggles[u]

\* What t has read of the current state's list, in its copy.
CopyOfCurrent(t) ==
  LET l == local[t] IN
  /\ l.pc \in {"functor", "call", "first", "rest"} => l.from = rec[curr].state
  /\ l.pc \in {"call", "first", "rest"} => l.object = Sim!Current.object
  /\ l.pc \in {"first", "rest"} => list[Sim!Current.object] # <<>>
  /\ l.pc = "rest" => l.copy = <<Head(list[Sim!Current.object])>>

Turn(t) ==
  /\ ~Sim!Here(t, "crashed") /\ CopyOfCurrent(t)
  /\ local[t].pc \notin {"read", "apply", "mark"} => local[t].i = 0
  /\ local[t].pc \in {"copy", "functor", "call", "first", "rest", "read", "check", "bind", "apply",
                      "mark", "before", "target", "dcas"} => local[t].old = curr
  /\ local[t].pc \in {"check", "bind", "apply", "mark"} => local[t].seen = toggles
  /\ Sim!Here(t, "toggle") => Asks(t, list[Sim!Current.object]) /\ AllApplied
  /\ local[t].pc \in {"start", "copy", "functor", "call", "first", "rest"} =>
       Asks(t, list[Sim!Current.object])
  /\ local[t].pc \in {"start", "copy", "functor", "call", "first", "rest", "read"} =>
       OnlyMine(t, Sim!Current.applied)
  /\ local[t].pc \in {"read", "check", "bind"} => Asks(t, local[t].copy)
  /\ Sim!Here(t, "read") => \A j \in 0..(local[t].i - 1) :
       local[t].seen[j] = toggles[j] /\ st[Sim!Mine(t)].applied[j] = Sim!Current.applied[j]
  /\ local[t].pc \in {"check", "bind", "apply"} => OnlyMine(t, st[Sim!Mine(t)].applied)
  /\ Sim!Here(t, "apply") =>
       IF t < local[t].i THEN Served(t) ELSE Asks(t, list[st[Sim!Mine(t)].object])
  /\ Sim!Here(t, "mark") => \A j \in 0..(local[t].i - 1) : st[Sim!Mine(t)].applied[j] = toggles[j]
  /\ local[t].pc \in {"mark", "before", "target", "dcas", "store"} => Served(t)
  /\ local[t].pc \in {"before", "target", "dcas", "store"} => AllMarked(t)
  /\ local[t].pc \in {"target", "dcas"} => local[t].before = rec[curr]
  /\ Sim!Here(t, "dcas") => local[t].target = curr
  /\ Sim!Here(t, "store") => rec[curr].state = Sim!Mine(t)
  /\ local[t].pc \in {"answer", "done"} => Settled
  /\ Sim!Here(t, "answer") => Sim!Current.rvals[t] = want.answer
  /\ Sim!Here(t, "done") => local[t].res = want.answer

InTurnInv == waits => Alone /\ Quiet /\ \A t \in Sim!Threads : Turn(t)

PsimIInv == PsimTypeOK /\ Overlap /\ InTurnInv

-----------------------------------------------------------------------------
(***************************************************************************)
(* Types                                                                   *)
(***************************************************************************)
LEMMA PsimConstants ==
  /\ NThreads \in Nat \ {0} /\ Sim!MaxCalls \in Nat /\ 0 \in Sim!Threads /\ Sim!Threads \subseteq Nat
  /\ <<0, 0>> \in Sim!States /\ <<0, 0>> \in Sim!Records
  /\ Sim!Given \in Sim!Objects
BY PsimAssumption DEF Sim!Threads, Sim!MaxCalls, Sim!States, Sim!Records, Sim!Objects, Sim!Given

\* The sequential stack stays a sequence of numbers.
LEMMA SerialApplyType ==
  ASSUME NEW seq \in Seq(Int), NEW req \in Requests
  PROVE  Sim!SerialApply(seq, req) \in [list : Seq(Int), answer : Int]
<1>1. CASE req.func = "add"
  BY <1>1 DEF Sim!SerialApply, Requests
<1>2. CASE req.func # "add" /\ seq = <<>>
  BY <1>2 DEF Sim!SerialApply
<1>3. CASE req.func # "add" /\ seq # <<>>
  <2>1. Head(seq) \in Int /\ Tail(seq) \in Seq(Int)
    BY <1>3
  <2>2. QED
    BY <1>3, <2>1 DEF Sim!SerialApply
<1>4. QED
  BY <1>1, <1>2, <1>3

LEMMA Places ==
  /\ "idle" \in PCs /\ "toggle" \in PCs /\ "start" \in PCs /\ "copy" \in PCs /\ "functor" \in PCs
  /\ "call" \in PCs /\ "first" \in PCs /\ "rest" \in PCs /\ "read" \in PCs /\ "check" \in PCs
  /\ "bind" \in PCs /\ "apply" \in PCs /\ "mark" \in PCs /\ "before" \in PCs
  /\ "target" \in PCs /\ "dcas" \in PCs /\ "store" \in PCs /\ "answer" \in PCs
  /\ "done" \in PCs /\ "crashed" \in PCs
BY DEF PCs

\* The fields of a thread's locals, of a state and of a record.
LEMMA Fields ==
  /\ \A m \in Locals :
       /\ m.pc \in PCs /\ m.round \in 0..3 /\ m.i \in Sim!Threads /\ m.old \in Sim!Records
       /\ m.from \in Sim!States /\ m.object \in Sim!Objects /\ m.copy \in Seq(Int)
       /\ m.seen \in [Sim!Threads -> BOOLEAN] /\ m.before \in SeqRecords
       /\ m.target \in Sim!Records /\ m.res \in Int
  /\ \A s \in StateRecords :
       /\ s.object \in Sim!Objects /\ s.applied \in [Sim!Threads -> BOOLEAN]
       /\ s.rvals \in [Sim!Threads -> Int]
  /\ \A r \in SeqRecords : r.state \in Sim!States /\ r.seq \in Nat
BY DEF Locals, StateRecords, SeqRecords

\* The changes the steps make to them.
LEMMA LocalChanges ==
  ASSUME NEW m \in Locals, NEW pc \in PCs
  PROVE  /\ [m EXCEPT !.pc = pc] \in Locals
         /\ [m EXCEPT !.i = 0, !.pc = pc] \in Locals
         /\ \A r \in 0..3 : [m EXCEPT !.pc = pc, !.round = r] \in Locals
         /\ \A r \in 0..3 : [m EXCEPT !.i = 0, !.round = r, !.pc = pc] \in Locals
         /\ \A o \in Sim!Records : [m EXCEPT !.pc = pc, !.old = o] \in Locals
         /\ \A s \in Sim!States : [m EXCEPT !.pc = pc, !.from = s] \in Locals
         /\ \A o \in Sim!Objects : [m EXCEPT !.pc = pc, !.object = o] \in Locals
         /\ \A o \in Sim!Objects : [m EXCEPT !.object = o, !.copy = <<>>, !.pc = pc] \in Locals
         /\ \A c \in Seq(Int) : [m EXCEPT !.pc = pc, !.copy = c] \in Locals
         /\ \A j \in Sim!Threads : [m EXCEPT !.i = j] \in Locals
         /\ \A s \in [Sim!Threads -> BOOLEAN] : [m EXCEPT !.seen = s] \in Locals
         /\ \A b \in SeqRecords : [m EXCEPT !.pc = pc, !.before = b] \in Locals
         /\ \A r \in Sim!Records : [m EXCEPT !.pc = pc, !.target = r] \in Locals
         /\ \A r \in Int : [m EXCEPT !.pc = pc, !.res = r] \in Locals
<1>1. 0 \in Sim!Threads /\ <<>> \in Seq(Int)
  BY PsimConstants
<1>2. QED
  BY <1>1 DEF Locals

\* A step that gives t the locals m leaves those of the others alone.
LEMMA MovesTo ==
  ASSUME NEW t \in Sim!Threads, NEW m \in Locals, local \in [Sim!Threads -> Locals],
         local' = [local EXCEPT ![t] = m]
  PROVE  /\ local' \in [Sim!Threads -> Locals] /\ local'[t] = m
         /\ \A u \in Sim!Threads : u # t => local'[u] = local[u]
OBVIOUS

\* A round of a loop goes on to the next thread, or ends after the last one.
LEMMA RoundMeans ==
  ASSUME NEW t \in Sim!Threads, NEW next \in PCs, local[t] \in Locals
  PROVE  /\ Sim!Round(t, next) \in Locals
         /\ \/ /\ local[t].i + 1 \in Sim!Threads
               /\ Sim!Round(t, next) = [local[t] EXCEPT !.i = @ + 1]
            \/ /\ local[t].i = NThreads - 1
               /\ Sim!Round(t, next) = [local[t] EXCEPT !.i = 0, !.pc = next]
<1>1. local[t].i \in Sim!Threads
  BY Fields
<1>2. local[t].i + 1 \in Sim!Threads \/ local[t].i = NThreads - 1
  BY <1>1, PsimConstants DEF Sim!Threads
<1>3. local[t].i = NThreads - 1 => local[t].i + 1 \notin Sim!Threads
  BY PsimConstants DEF Sim!Threads
<1>4. QED
  BY <1>1, <1>2, <1>3, LocalChanges DEF Sim!Round

\* It leaves the other locals alone.
LEMMA RoundFields ==
  ASSUME NEW t \in Sim!Threads, NEW next \in PCs, local[t] \in Locals
  PROVE  LET l == Sim!Round(t, next) IN
         /\ l.old = local[t].old /\ l.copy = local[t].copy /\ l.seen = local[t].seen
         /\ l.round = local[t].round /\ l.from = local[t].from /\ l.object = local[t].object
         /\ l.target = local[t].target
         /\ \/ local[t].i + 1 \in Sim!Threads /\ l.i = local[t].i + 1 /\ l.pc = local[t].pc
            \/ local[t].i = NThreads - 1 /\ l.i = 0 /\ l.pc = next
<1>1. CASE local[t].i + 1 \in Sim!Threads /\ Sim!Round(t, next) = [local[t] EXCEPT !.i = @ + 1]
  BY <1>1 DEF Locals
<1>2. CASE /\ local[t].i = NThreads - 1
           /\ Sim!Round(t, next) = [local[t] EXCEPT !.i = 0, !.pc = next]
  BY <1>2 DEF Locals
<1>3. QED
  BY <1>1, <1>2, RoundMeans

\* The states, the records and the lists a thread can name.
LEMMA NamesInRange ==
  ASSUME NEW t \in Sim!Threads, PsimTypeOK
  PROVE  /\ Sim!Mine(t) \in Sim!States /\ Sim!New(t) \in Sim!Records
         /\ local[t].round \in {1, 2} => Sim!Copied(t) \in Sim!Objects
         /\ rec[curr].state \in Sim!States /\ Sim!Current \in StateRecords
         /\ local[t] \in Locals /\ local[t].old \in Sim!Records
         /\ rec[local[t].old].state \in Sim!States
         /\ st[rec[local[t].old].state] \in StateRecords
         /\ st[Sim!Mine(t)] \in StateRecords
         /\ local[t].from \in Sim!States /\ st[local[t].from].object \in Sim!Objects
         /\ st[Sim!Mine(t)].object \in Sim!Objects /\ list[st[Sim!Mine(t)].object] \in Seq(Int)
         /\ local[t].object \in Sim!Objects /\ list[local[t].object] \in Seq(Int)
         /\ calls[t] \in 0..Sim!MaxCalls /\ bit[t] \in {0, 1}
<1>1. local[t] \in Locals /\ calls[t] \in 0..Sim!MaxCalls /\ bit[t] \in {0, 1} /\ curr \in Sim!Records
  BY DEF PsimTypeOK
<1>2. /\ Sim!Mine(t) \in Sim!States /\ Sim!New(t) \in Sim!Records
      /\ (local[t].round \in {1, 2} => Sim!Copied(t) \in Sim!Objects)
  BY <1>1 DEF Sim!Mine, Sim!New, Sim!Copied, Sim!States, Sim!Records, Sim!Objects
<1>3. /\ rec[curr] \in SeqRecords /\ local[t].old \in Sim!Records /\ local[t].from \in Sim!States
      /\ rec[local[t].old] \in SeqRecords /\ local[t].object \in Sim!Objects
  BY <1>1, Fields DEF PsimTypeOK
<1>4. rec[curr].state \in Sim!States /\ rec[local[t].old].state \in Sim!States
  BY <1>3, Fields
<1>5. \A x \in Sim!States : st[x] \in StateRecords /\ st[x].object \in Sim!Objects
  BY Fields DEF PsimTypeOK
<1>6. \A x \in Sim!Objects : list[x] \in Seq(Int)
  BY DEF PsimTypeOK
<1>7. QED
  BY <1>1, <1>2, <1>3, <1>4, <1>5, <1>6 DEF Sim!Current

LEMMA InitType == Sim!Init => PsimTypeOK
BY PsimConstants DEF Sim!Init, PsimTypeOK, Sim!Idle, Sim!Off, PCs, Requests, StateRecords, SeqRecords,
                    Locals, Sim!Records,
                 Sim!States, Sim!Objects

\* The sets of names stay the same as long as waits does.
LEMMA SameRecords ==
  ASSUME waits' = waits
  PROVE  /\ Sim!MaxCalls' = Sim!MaxCalls /\ Sim!Records' = Sim!Records /\ Sim!Objects' = Sim!Objects
         /\ Locals' = Locals /\ StateRecords' = StateRecords
BY DEF Sim!MaxCalls, Sim!Records, Sim!Objects, Locals, StateRecords

-----------------------------------------------------------------------------
(***************************************************************************)
(* Calls that overlap                                                      *)
(***************************************************************************)
\* What is stored stays stored: only Announce makes a thread busy, and it
\* makes a new record for it.
LEMMA StaysStored ==
  ASSUME PsimTypeOK, NEW t \in Sim!Threads, NEW r \in Sim!Records, Stored(r),
         \A u \in Sim!Threads : u # t => local'[u] = local[u] /\ calls'[u] = calls[u],
         \/ calls'[t] = calls[t] /\ (Busy(t)' => Busy(t))
         \/ calls'[t] = calls[t] + 1
  PROVE  Stored(r)'
<1>1. r[1] \in Sim!Threads /\ r[2] \in Nat /\ calls[r[1]] \in Nat /\ calls[t] \in Nat
  <2>1. r[1] \in Sim!Threads /\ r[2] \in Nat
    BY PsimConstants DEF Sim!Records
  <2>2. \A u \in Sim!Threads : calls[u] \in Nat
    BY PsimConstants DEF PsimTypeOK
  <2>3. QED
    BY <2>1, <2>2
<1>2. CASE r[1] = t
  BY <1>1, <1>2 DEF Stored
<1>3. CASE r[1] # t
  BY <1>1, <1>3 DEF Stored, Busy
<1>4. QED
  BY <1>2, <1>3

\* The record a busy thread fills is not stored.
LEMMA NewIsNotStored ==
  ASSUME PsimTypeOK, NEW t \in Sim!Threads, Busy(t), NEW r, Stored(r)
  PROVE  r # Sim!New(t)
<1>1. Sim!New(t)[1] = t /\ Sim!New(t)[2] = calls[t] /\ calls[t] \in Nat
  BY PsimConstants DEF Sim!New, PsimTypeOK
<1>2. QED
  BY <1>1 DEF Stored

\* A step that changes the locals of t, and neither lists nor records.
LEMMA LocalStep ==
  ASSUME PsimTypeOK, Overlap, NEW t \in Sim!Threads,
         UNCHANGED <<list, rec, curr, bit, calls>>,
         \A x \in Sim!States : st'[x].object = st[x].object,
         \A u \in Sim!Threads : u # t => local'[u] = local[u],
         ~Sim!Here(t, "store"), Busy(t)' => Busy(t),
         Busy(t)' /\ local'[t].pc # "toggle" => local'[t].round \in {1, 2},
         local'[t].old \in Sim!Records /\ Stored(local'[t].old),
         local'[t].target \in Sim!Records /\ Stored(local'[t].target),
         local'[t].pc \in {"target", "dcas", "store"} => local[t].pc \in {"target", "dcas", "store"},
         Sim!Here(t, "apply")' => Sim!Here(t, "apply") /\ local'[t].round = local[t].round,
         CopyIsTrue(t)'
  PROVE  Overlap'
<1>1. \A r \in Sim!Records : Stored(r) => Stored(r)'
  BY StaysStored
<1>2. \A u \in Sim!Threads : Sim!Mine(u)' = Sim!Mine(u) /\ Sim!New(u)' = Sim!New(u)
  BY DEF Sim!Mine, Sim!New
<1>3. \A u \in Sim!Threads : Sim!Here(u, "store") => Sim!Here(u, "store")'
  BY DEF Sim!Here
<1>4. Stored(curr)' /\ Sim!NextStateIsFree' /\ ListsApart'
  <2>1. curr \in Sim!Records /\ \A u \in Sim!Threads, b \in {0, 1} : <<u, b>> \in Sim!States
    BY DEF PsimTypeOK, Sim!States
  <2>2. Stored(curr)'
    BY <1>1, <2>1 DEF Overlap
  <2>3. Sim!NextStateIsFree'
    BY <1>2, <1>3 DEF Overlap, Sim!NextStateIsFree
  <2>4. ListsApart'
    <3> SUFFICES ASSUME NEW u \in Sim!Threads, NEW b \in {0, 1}
                 PROVE  LET object == st'[<<u, b>>].object IN
                        object = Sim!Given \/ (object[1] = u /\ object[2] <= calls'[u])
      BY DEF ListsApart
    <3>1. st'[<<u, b>>].object = st[<<u, b>>].object
      BY <2>1
    <3>2. QED
      BY <3>1 DEF Overlap, ListsApart
  <2>5. QED
    BY <2>2, <2>3, <2>4
<1>5. ASSUME NEW u \in Sim!Threads, u # t PROVE Own(u)'
  <2>1. /\ Own(u) /\ local[u].old \in Sim!Records /\ local[u].target \in Sim!Records
        /\ local[u].from \in Sim!States /\ Sim!Mine(u) \in Sim!States
        /\ bit[u] \in {0, 1} /\ <<u, 1 - bit[u]>> \in Sim!States
    BY NamesInRange, Fields DEF Overlap, Sim!States
  <2>2. CopyIsTrue(u)'
    BY <1>2, <1>3, <1>5, <2>1 DEF Own, CopyIsTrue
  <2>3. /\ (Busy(u)' <=> Busy(u)) /\ (Sim!Here(u, "apply")' <=> Sim!Here(u, "apply"))
        /\ Sim!Copied(u)' = Sim!Copied(u)
    BY <1>5 DEF Busy, Sim!Here, Sim!Copied
  <2>4. QED
    BY <1>1, <1>2, <1>5, <2>1, <2>2, <2>3 DEF Own
<1>6. Own(t)'
  <2>1. /\ Own(t) /\ Sim!Mine(t) \in Sim!States /\ bit[t] \in {0, 1} /\ <<t, 1 - bit[t]>> \in Sim!States
    BY NamesInRange DEF Overlap, Sim!States
  <2>2. Sim!Here(t, "apply")' => Sim!Copied(t)' = Sim!Copied(t)
    BY DEF Sim!Copied
  <2>3. QED
    BY <1>1, <1>2, <2>1, <2>2 DEF Own
<1>7. QED
  BY <1>4, <1>5, <1>6 DEF Overlap

\* Outside the places of a copy there is nothing to show for it.
LEMMA NoCopy ==
  ASSUME NEW t \in Sim!Threads,
         local'[t].pc \notin {"functor", "call", "first", "rest", "read", "check", "crashed"}
  PROVE  CopyIsTrue(t)'
BY DEF CopyIsTrue

\* What t knows of records.
LEMMA Knows ==
  ASSUME PsimTypeOK, Overlap, NEW t \in Sim!Threads
  PROVE  /\ Own(t) /\ curr \in Sim!Records /\ Stored(curr)
         /\ local[t].old \in Sim!Records /\ Stored(local[t].old)
         /\ local[t].target \in Sim!Records /\ Stored(local[t].target)
         /\ Busy(t) /\ ~Sim!Here(t, "toggle") => local[t].round \in {1, 2}
BY NamesInRange, Fields DEF PsimTypeOK, Overlap, Own, Sim!Here

-----------------------------------------------------------------------------
(***************************************************************************)
(* One call under way                                                      *)
(***************************************************************************)
\* What the step of the only call under way has to show.
LEMMA OneTurn ==
  ASSUME NEW t \in Sim!Threads, PsimIInv, waits, ~Sim!Here(t, "idle"), UNCHANGED <<waits, calls>>,
         \A u \in Sim!Threads : u # t => local'[u] = local[u],
         Turn(t)', Sim!Here(t, "idle")' => Settled'
  PROVE  InTurnInv'
<1>1. \A u \in Sim!Threads : u # t => Sim!Here(u, "idle") /\ Sim!Here(u, "idle")' /\ local'[u].i = 0
  BY DEF PsimIInv, InTurnInv, Alone, Sim!Here, Turn
<1>2. Alone'
  BY <1>1 DEF Alone
<1>3. Quiet'
  BY DEF Quiet
<1>4. \A u \in Sim!Threads : Turn(u)'
  BY <1>1 DEF Turn, Sim!Here, CopyOfCurrent
<1>5. QED
  BY <1>2, <1>3, <1>4 DEF InTurnInv

\* What the steps of a call, but for Announce, have in common.
LEMMA Common ==
  ASSUME NEW t \in Sim!Threads, NEW m \in Locals, PsimIInv, local' = [local EXCEPT ![t] = m]
  PROVE  /\ PsimTypeOK /\ Overlap /\ local' \in [Sim!Threads -> Locals] /\ local'[t] = m
         /\ \A u \in Sim!Threads : u # t => local'[u] = local[u]
         /\ Own(t) /\ curr \in Sim!Records /\ Stored(curr)
         /\ local[t].old \in Sim!Records /\ Stored(local[t].old)
         /\ local[t].target \in Sim!Records /\ Stored(local[t].target)
         /\ Busy(t) /\ ~Sim!Here(t, "toggle") => local[t].round \in {1, 2}
         /\ waits => Turn(t)
BY MovesTo, Knows DEF PsimIInv, PsimTypeOK, InTurnInv

LEMMA HasLocals ==
  ASSUME PsimIInv, NEW t \in Sim!Threads
  PROVE  /\ PsimTypeOK /\ Overlap /\ local \in [Sim!Threads -> Locals] /\ local[t] \in Locals
         /\ calls[t] \in Nat
BY PsimConstants DEF PsimIInv, PsimTypeOK

LEMMA AnnounceKeeps ==
  ASSUME NEW t \in Sim!Threads, NEW func \in {"add", "remove"}, PsimIInv, Sim!Announce(t, func) PROVE PsimIInv'
<1> DEFINE req == [func |-> func, args |-> Sim!MaxCalls * t + calls[t]]
           m == [local[t] EXCEPT !.pc = "toggle"]
<1>1. PsimTypeOK /\ local[t] \in Locals /\ local \in [Sim!Threads -> Locals]
      /\ calls[t] \in Nat /\ calls[t] < Sim!MaxCalls /\ Sim!Here(t, "idle")
  <2>1. Sim!MayCall(t) /\ Sim!Here(t, "idle")
    BY DEF Sim!Announce
  <2>2. calls[t] < Sim!MaxCalls
    BY <2>1 DEF Sim!MayCall
  <2>3. QED
    BY <2>1, <2>2, HasLocals
<1>2. req \in Requests
  BY <1>1, PsimConstants DEF Requests
<1>3. Sim!SerialApply(want.list, req) \in [list : Seq(Int), answer : Int]
  BY <1>1, <1>2, SerialApplyType DEF PsimTypeOK
<1>4. m \in Locals /\ local' = [local EXCEPT ![t] = m]
  BY <1>1, LocalChanges, Places DEF Sim!Announce, Sim!Goto
<1>5. /\ local' \in [Sim!Threads -> Locals] /\ local'[t] = m
      /\ \A u \in Sim!Threads : u # t => local'[u] = local[u]
  BY <1>1, <1>4, MovesTo
<1>a. calls'[t] = calls[t] + 1 /\ \A u \in Sim!Threads : u # t => calls'[u] = calls[u]
  BY <1>1 DEF Sim!Announce, PsimTypeOK
<1>6. PsimTypeOK'
  <2>1. calls' \in [Sim!Threads -> 0..Sim!MaxCalls]
    BY <1>1, PsimConstants DEF Sim!Announce, PsimTypeOK
  <2>2. announce' \in [Sim!Threads -> Requests] /\ want' \in [list : Seq(Int), answer : Int]
    BY <1>1, <1>2, <1>3 DEF Sim!Announce, PsimTypeOK
  <2>3. QED
    BY <1>1, <1>5, <2>1, <2>2, SameRecords DEF Sim!Announce, PsimTypeOK
<1>b. Overlap'
  <2>1. m.pc = "toggle" /\ m.old = local[t].old /\ m.target = local[t].target
    BY <1>1 DEF Locals
  <2>2. UNCHANGED <<list, st, rec, curr, bit>> /\ Overlap
    BY DEF Sim!Announce, PsimIInv
  <2>3. \A r \in Sim!Records : Stored(r) => Stored(r)'
    BY <1>1, <1>5, <1>a, StaysStored
  <2>4. \A u \in Sim!Threads : Sim!Mine(u)' = Sim!Mine(u) /\ (Sim!Here(u, "store")' <=> Sim!Here(u, "store"))
    BY <1>1, <1>5, <2>1, <2>2 DEF Sim!Mine, Sim!Here
  <2>5. Stored(curr)' /\ Sim!NextStateIsFree'
    BY <1>1, <2>2, <2>3, <2>4, Knows DEF Overlap, Sim!NextStateIsFree
  <2>6. ListsApart'
    <3> SUFFICES ASSUME NEW u \in Sim!Threads, NEW b \in {0, 1}
                 PROVE  LET object == st[<<u, b>>].object IN
                        object = Sim!Given \/ (object[1] = u /\ object[2] <= calls'[u])
      BY <2>2 DEF ListsApart
    <3>1. /\ <<u, b>> \in Sim!States /\ st[<<u, b>>].object \in Sim!Objects /\ calls[u] \in Nat
          /\ (calls'[u] = calls[u] \/ calls'[u] = calls[u] + 1)
      BY <1>1, <1>a, Fields, PsimConstants DEF PsimTypeOK, Sim!States
    <3>2. st[<<u, b>>].object[2] \in Nat
      <4>1. \A o \in Sim!Objects : o[2] \in Nat
        BY PsimConstants DEF Sim!Objects
      <4>2. QED
        BY <3>1, <4>1
    <3>3. LET object == st[<<u, b>>].object IN
          object = Sim!Given \/ (object[1] = u /\ object[2] <= calls[u])
      BY <2>2 DEF Overlap, ListsApart
    <3>4. QED
      BY <3>1, <3>2, <3>3
  <2>7. ASSUME NEW u \in Sim!Threads, u # t PROVE Own(u)'
    <3>1. /\ Own(u) /\ local[u].old \in Sim!Records /\ local[u].target \in Sim!Records
          /\ Sim!New(u)' = Sim!New(u) /\ Sim!Copied(u)' = Sim!Copied(u) /\ (Busy(u)' <=> Busy(u))
          /\ (Sim!Here(u, "apply")' <=> Sim!Here(u, "apply"))
      BY <1>1, <1>5, <1>a, <2>2, <2>7, Knows DEF Sim!New, Sim!Copied, Busy, Sim!Here
    <3>2. CopyIsTrue(u)'
      BY <1>5, <2>2, <2>4, <2>7, <3>1 DEF Own, CopyIsTrue
    <3>3. QED
      BY <1>5, <1>a, <2>2, <2>3, <2>4, <2>7, <3>1, <3>2 DEF Own
  <2>8. Own(t)'
    <3> DEFINE object == st[<<t, 1 - bit[t]>>].object
    <3>1. object[2] < calls'[t]
      <4>1. 1 - bit[t] \in {0, 1}
        BY <1>1, NamesInRange
      <4>2. <<t, 1 - bit[t]>> \in Sim!States
        BY <4>1 DEF Sim!States
      <4>3. object \in Sim!Objects
        BY <1>1, <4>2, Fields DEF PsimTypeOK
      <4>4. object[2] \in Nat
        BY <4>3, PsimConstants DEF Sim!Objects
      <4>5. object = Sim!Given \/ object[2] <= calls[t]
        BY <2>2, <4>1 DEF Overlap, ListsApart
      <4>6. Sim!Given[2] = 0
        BY DEF Sim!Given
      <4> HIDE DEF object
      <4>7. QED
        BY <1>1, <1>a, <4>4, <4>5, <4>6
    <3>2. object[2] < calls'[t] /\ st' = st /\ bit' = bit
      BY <2>2, <3>1
    <3>3. CopyIsTrue(t)'
      BY <1>5, <2>1, NoCopy
    <3>4. QED
      BY <1>1, <1>5, <1>a, <2>1, <2>2, <2>3, <3>2, <3>3, Knows DEF Own, Sim!Here
  <2>9. QED
    BY <2>5, <2>6, <2>7, <2>8 DEF Overlap
<1>7. ASSUME waits PROVE InTurnInv'
  <2>1. \A u \in Sim!Threads : Sim!Here(u, "idle") /\ Turn(u)
    BY <1>7 DEF PsimIInv, InTurnInv, Sim!Announce
  <2>2. Settled /\ Sim!Current' = Sim!Current /\ Sim!Current \in StateRecords /\ list' = list
    BY <1>1, <1>7, <2>1, NamesInRange DEF PsimIInv, InTurnInv, Quiet, Sim!Announce, Sim!Current
  <2>a. m.pc = "toggle" /\ m.i = 0
    BY <1>1, <2>1 DEF Turn, Sim!Here, Locals
  <2>b. \A u \in Sim!Threads : u # t => local'[u].pc = "idle" /\ local'[u].i = 0
    BY <1>5, <2>1 DEF Turn, Sim!Here
  <2>3. Alone' /\ Quiet'
    <3>1. ~Sim!Here(t, "idle")' /\ \A u \in Sim!Threads : u # t => Sim!Here(u, "idle")'
      BY <1>5, <2>a, <2>b DEF Sim!Here
    <3>2. QED
      BY <3>1 DEF Alone, Quiet
  <2>7. Turn(t)'
    <3>1. Asks(t, list[Sim!Current.object])' /\ AllApplied'
      BY <1>1, <2>2 DEF Asks, Settled, AllApplied, Sim!Announce, PsimTypeOK
    <3>2. QED
      BY <1>5, <2>a, <3>1 DEF Turn, Sim!Here, CopyOfCurrent
  <2>8. \A u \in Sim!Threads : Turn(u)'
    BY <2>b, <2>7 DEF Turn, Sim!Here, CopyOfCurrent
  <2>9. QED
    BY <2>3, <2>8 DEF InTurnInv
<1>8. QED
  BY <1>6, <1>b, <1>7 DEF PsimIInv, InTurnInv, Sim!Announce

LEMMA ToggleKeeps == ASSUME NEW t \in Sim!Threads, PsimIInv, Sim!Toggle(t) PROVE PsimIInv'
<1> DEFINE m == [local[t] EXCEPT !.pc = "start", !.round = 1]
<1>1. PsimTypeOK /\ local[t] \in Locals /\ local \in [Sim!Threads -> Locals] /\ Sim!Here(t, "toggle")
  <2>1. Sim!Here(t, "toggle")
    BY DEF Sim!Toggle
  <2>2. QED
    BY <2>1, HasLocals
<1>2. m \in Locals /\ local' = [local EXCEPT ![t] = m]
  <2>1. 1 \in 0..3
    OBVIOUS
  <2>2. m \in Locals
    BY <1>1, <2>1, LocalChanges, Places
  <2>3. local' = [local EXCEPT ![t] = m]
    BY <1>1 DEF Sim!Toggle
  <2>4. QED
    BY <2>2, <2>3
<1>a. m.pc = "start" /\ m.round = 1 /\ m.i = local[t].i /\ m.old = local[t].old
      /\ m.target = local[t].target
  BY <1>1 DEF Locals
<1> HIDE DEF m
<1>3. /\ local' \in [Sim!Threads -> Locals] /\ local'[t] = m
      /\ \A u \in Sim!Threads : u # t => local'[u] = local[u]
  BY <1>1, <1>2, MovesTo
<1>4. PsimTypeOK'
  BY <1>1, <1>3, SameRecords DEF Sim!Toggle, PsimTypeOK
<1>b. Overlap'
  <2>1. UNCHANGED <<list, st, rec, curr, bit, calls>>
    BY DEF Sim!Toggle
  <2>2. ~Sim!Here(t, "store") /\ Busy(t) /\ ~Sim!Here(t, "apply")'
    BY <1>1, <1>3, <1>a DEF Sim!Here, Busy
  <2>3. CopyIsTrue(t)'
    BY <1>3, <1>a, NoCopy
  <2>4. QED
    BY <1>1, <1>2, <1>3, <1>a, <2>1, <2>2, <2>3, Common, LocalStep DEF PsimIInv
<1>5. ASSUME waits PROVE InTurnInv'
  <2>1. Turn(t)
    BY <1>5 DEF PsimIInv, InTurnInv
  <2>2. Sim!Current' = Sim!Current /\ Sim!Current \in StateRecords /\ list' = list
    BY <1>1, NamesInRange DEF Sim!Toggle, Sim!Current
  <2>3. toggles' \in [Sim!Threads -> BOOLEAN] /\ toggles'[t] = ~toggles[t]
        /\ \A u \in Sim!Threads : u # t => toggles'[u] = toggles[u]
    BY <1>1 DEF Sim!Toggle, PsimTypeOK
  <2>4. OnlyMine(t, Sim!Current.applied)'
    <3>1. \A u \in Sim!Threads : Sim!Current.applied[u] = toggles[u] /\ toggles[u] \in BOOLEAN
      BY <1>1, <2>1 DEF Turn, AllApplied, PsimTypeOK
    <3>2. QED
      BY <2>2, <2>3, <3>1 DEF OnlyMine
  <2>5. Turn(t)'
    <3>1. m.pc = "start" /\ m.i = 0
      BY <1>1, <1>a, <2>1 DEF Turn, Sim!Here
    <3>2. Asks(t, list[Sim!Current.object])'
      BY <1>1, <2>1, <2>2 DEF Turn, Asks, Sim!Toggle
    <3>3. QED
      BY <1>3, <2>4, <3>1, <3>2 DEF Turn, Sim!Here, CopyOfCurrent
  <2>6. ~Sim!Here(t, "idle")' /\ ~Sim!Here(t, "idle")
    BY <1>1, <1>3, <1>a DEF Sim!Here
  <2>8. QED
    BY <1>3, <1>5, <2>5, <2>6, OneTurn DEF Sim!Toggle
<1>6. QED
  BY <1>4, <1>b, <1>5 DEF PsimIInv, InTurnInv, Sim!Toggle

\* As long as the record of its call is current, nobody begins to write the
\* state a thread copies.
LEMMA SameOwners ==
  ASSUME NEW t \in Sim!Threads, bit' = bit, ~Sim!Here(t, "store"),
         \A u \in Sim!Threads : u # t => local'[u] = local[u]
  PROVE  \A u \in Sim!Threads : Sim!Mine(u)' = Sim!Mine(u) /\ (Sim!Here(u, "store") => Sim!Here(u, "store")')
BY DEF Sim!Mine, Sim!Here

LEMMA StartKeeps == ASSUME NEW t \in Sim!Threads, PsimIInv, Sim!Start(t) PROVE PsimIInv'
<1> DEFINE m == [local[t] EXCEPT !.pc = "copy", !.old = curr]
<1>1. PsimTypeOK /\ local[t] \in Locals /\ local \in [Sim!Threads -> Locals] /\ Sim!Here(t, "start")
  <2>1. Sim!Here(t, "start")
    BY DEF Sim!Start
  <2>2. QED
    BY <2>1, HasLocals
<1>2. m \in Locals /\ local' = [local EXCEPT ![t] = m]
  <2>1. curr \in Sim!Records
    BY <1>1 DEF PsimTypeOK
  <2>2. QED
    BY <1>1, <2>1, LocalChanges, Places DEF Sim!Start
<1>3. /\ m.pc = "copy" /\ m.i = local[t].i /\ m.round = local[t].round
      /\ m.target = local[t].target /\ m.old = curr
  BY <1>1 DEF Locals
<1> HIDE DEF m
<1>4. /\ PsimTypeOK /\ Overlap /\ local' \in [Sim!Threads -> Locals] /\ local'[t] = m
      /\ \A u \in Sim!Threads : u # t => local'[u] = local[u]
      /\ Own(t) /\ curr \in Sim!Records /\ Stored(curr)
      /\ local[t].old \in Sim!Records /\ Stored(local[t].old)
      /\ local[t].target \in Sim!Records /\ Stored(local[t].target)
      /\ Busy(t) /\ ~Sim!Here(t, "toggle") => local[t].round \in {1, 2}
      /\ waits => Turn(t)
  BY <1>2, Common
<1>5. UNCHANGED <<waits, announce, toggles, list, st, rec, curr, bit, calls, want>>
  BY DEF Sim!Start
<1>6. PsimTypeOK'
  BY <1>4, <1>5, SameRecords DEF PsimTypeOK
<1>7. Overlap'
  <2>1. ~Sim!Here(t, "store") /\ Busy(t) /\ ~Sim!Here(t, "toggle") /\ ~Sim!Here(t, "apply")'
    BY <1>1, <1>3, <1>4 DEF Sim!Here, Busy
  <2>2. CopyIsTrue(t)'
    BY <1>3, <1>4, NoCopy
  <2>3. QED
    BY <1>3, <1>4, <1>5, <2>1, <2>2, LocalStep
<1>8. ASSUME waits PROVE InTurnInv'
  <2>1. Turn(t) /\ Sim!Current' = Sim!Current
    BY <1>4, <1>5, <1>8 DEF Sim!Current
  <2>2. Turn(t)'
    BY <1>1, <1>3, <1>4, <1>5, <2>1 DEF Turn, Sim!Here, Asks, OnlyMine, CopyOfCurrent
  <2>3. ~Sim!Here(t, "idle")' /\ ~Sim!Here(t, "idle")
    BY <1>1, <1>3, <1>4 DEF Sim!Here
  <2>4. QED
    BY <1>4, <1>5, <1>8, <2>2, <2>3, OneTurn
<1>9. QED
  BY <1>5, <1>6, <1>7, <1>8 DEF PsimIInv, InTurnInv

\* The state that is current is not being written: its owner has left it, or has
\* yet to store the pointer to it.
LEMMA CopyKeeps == ASSUME NEW t \in Sim!Threads, PsimIInv, Sim!Copy(t) PROVE PsimIInv'
<1> DEFINE m == [local[t] EXCEPT !.pc = "functor", !.from = rec[local[t].old].state]
<1>1. PsimTypeOK /\ local[t] \in Locals /\ local \in [Sim!Threads -> Locals] /\ Sim!Here(t, "copy")
  <2>1. Sim!Here(t, "copy")
    BY DEF Sim!Copy
  <2>2. QED
    BY <2>1, HasLocals
<1>2. m \in Locals /\ local' = [local EXCEPT ![t] = m]
  BY <1>1, NamesInRange, LocalChanges, Places DEF Sim!Copy
<1>3. /\ m.pc = "functor" /\ m.i = local[t].i /\ m.round = local[t].round
      /\ m.target = local[t].target /\ m.old = local[t].old /\ m.from = rec[local[t].old].state
  BY <1>1 DEF Locals
<1> HIDE DEF m
<1>4. /\ PsimTypeOK /\ Overlap /\ local' \in [Sim!Threads -> Locals] /\ local'[t] = m
      /\ \A u \in Sim!Threads : u # t => local'[u] = local[u]
      /\ Own(t) /\ curr \in Sim!Records /\ Stored(curr)
      /\ local[t].old \in Sim!Records /\ Stored(local[t].old)
      /\ local[t].target \in Sim!Records /\ Stored(local[t].target)
      /\ Busy(t) /\ ~Sim!Here(t, "toggle") => local[t].round \in {1, 2}
      /\ waits => Turn(t)
  BY <1>2, Common
<1>5. UNCHANGED <<waits, announce, toggles, list, st, rec, curr, bit, calls, want>>
  BY DEF Sim!Copy
<1>6. PsimTypeOK'
  BY <1>4, <1>5, SameRecords DEF PsimTypeOK
<1>7. Overlap'
  <2>1. ~Sim!Here(t, "store") /\ Busy(t) /\ ~Sim!Here(t, "toggle") /\ ~Sim!Here(t, "apply")'
    BY <1>1, <1>3, <1>4 DEF Sim!Here, Busy
  <2>2. CopyIsTrue(t)'
    <3> SUFFICES ASSUME curr = m.old, curr # <<0, 0>>, NEW u \in Sim!Threads, m.from = Sim!Mine(u)'
                 PROVE  Sim!Here(u, "store")'
      BY <1>3, <1>4, <1>5 DEF CopyIsTrue
    <3>1. rec[curr].state = Sim!Mine(u)
      BY <1>3, <1>5 DEF Sim!Mine
    <3>2. Sim!Here(u, "store")
      BY <1>4, <3>1 DEF Overlap, Sim!NextStateIsFree
    <3>3. QED
      BY <1>1, <1>4, <3>2 DEF Sim!Here
  <2>3. QED
    BY <1>3, <1>4, <1>5, <2>1, <2>2, LocalStep
<1>8. ASSUME waits PROVE InTurnInv'
  <2>1. Turn(t) /\ Sim!Current' = Sim!Current
    BY <1>4, <1>5, <1>8 DEF Sim!Current
  <2>2. Turn(t)'
    BY <1>1, <1>3, <1>4, <1>5, <2>1 DEF Turn, Sim!Here, Asks, OnlyMine, CopyOfCurrent
  <2>3. ~Sim!Here(t, "idle")' /\ ~Sim!Here(t, "idle")
    BY <1>1, <1>3, <1>4 DEF Sim!Here
  <2>4. QED
    BY <1>4, <1>5, <1>8, <2>2, <2>3, OneTurn
<1>9. QED
  BY <1>5, <1>6, <1>7, <1>8 DEF PsimIInv, InTurnInv

LEMMA FunctorKeeps == ASSUME NEW t \in Sim!Threads, PsimIInv, Sim!Functor(t) PROVE PsimIInv'
<1> DEFINE m == [local[t] EXCEPT !.pc = "call", !.object = st[local[t].from].object]
<1>1. PsimTypeOK /\ local[t] \in Locals /\ local \in [Sim!Threads -> Locals] /\ Sim!Here(t, "functor")
  <2>1. Sim!Here(t, "functor")
    BY DEF Sim!Functor
  <2>2. QED
    BY <2>1, HasLocals
<1>2. m \in Locals /\ local' = [local EXCEPT ![t] = m]
  BY <1>1, NamesInRange, LocalChanges, Places DEF Sim!Functor
<1>3. /\ m.pc = "call" /\ m.i = local[t].i /\ m.round = local[t].round
      /\ m.target = local[t].target /\ m.old = local[t].old
      /\ m.from = local[t].from /\ m.object = st[local[t].from].object
  BY <1>1 DEF Locals
<1> HIDE DEF m
<1>4. /\ PsimTypeOK /\ Overlap /\ local' \in [Sim!Threads -> Locals] /\ local'[t] = m
      /\ \A u \in Sim!Threads : u # t => local'[u] = local[u]
      /\ Own(t) /\ curr \in Sim!Records /\ Stored(curr)
      /\ local[t].old \in Sim!Records /\ Stored(local[t].old)
      /\ local[t].target \in Sim!Records /\ Stored(local[t].target)
      /\ Busy(t) /\ ~Sim!Here(t, "toggle") => local[t].round \in {1, 2}
      /\ waits => Turn(t)
  BY <1>2, Common
<1>5. UNCHANGED <<waits, announce, toggles, list, st, rec, curr, bit, calls, want>>
  BY DEF Sim!Functor
<1>6. PsimTypeOK'
  BY <1>4, <1>5, SameRecords DEF PsimTypeOK
<1>7. Overlap'
  <2>1. ~Sim!Here(t, "store") /\ Busy(t) /\ ~Sim!Here(t, "toggle") /\ ~Sim!Here(t, "apply")'
    BY <1>1, <1>3, <1>4 DEF Sim!Here, Busy
  <2>2. CopyIsTrue(t)'
    BY <1>1, <1>3, <1>4, <1>5, SameOwners DEF Own, CopyIsTrue, Sim!Here
  <2>3. QED
    BY <1>3, <1>4, <1>5, <2>1, <2>2, LocalStep
<1>8. ASSUME waits PROVE InTurnInv'
  <2>1. Turn(t) /\ Sim!Current' = Sim!Current
    BY <1>4, <1>5, <1>8 DEF Sim!Current
  <2>2. Turn(t)'
    BY <1>1, <1>3, <1>4, <1>5, <2>1 DEF Turn, Sim!Here, Asks, OnlyMine, CopyOfCurrent, Sim!Current
  <2>3. ~Sim!Here(t, "idle")' /\ ~Sim!Here(t, "idle")
    BY <1>1, <1>3, <1>4 DEF Sim!Here
  <2>4. QED
    BY <1>4, <1>5, <1>8, <2>2, <2>3, OneTurn
<1>9. QED
  BY <1>5, <1>6, <1>7, <1>8 DEF PsimIInv, InTurnInv

LEMMA CopyHeadKeeps == ASSUME NEW t \in Sim!Threads, PsimIInv, Sim!CopyHead(t) PROVE PsimIInv'
<1> DEFINE m == [local[t] EXCEPT !.pc = "rest", !.copy = <<Head(list[local[t].object])>>]
<1>1. PsimTypeOK /\ local[t] \in Locals /\ local \in [Sim!Threads -> Locals] /\ Sim!Here(t, "first")
  <2>1. Sim!Here(t, "first")
    BY DEF Sim!CopyHead
  <2>2. QED
    BY <2>1, HasLocals
<1>2. m \in Locals /\ local' = [local EXCEPT ![t] = m]
  <2>1. list[local[t].object] \in Seq(Int) /\ list[local[t].object] # <<>>
    BY <1>1, NamesInRange DEF Sim!CopyHead
  <2>2. <<Head(list[local[t].object])>> \in Seq(Int)
    BY <2>1
  <2>3. QED
    BY <1>1, <2>2, LocalChanges, Places DEF Sim!CopyHead
<1>3. /\ m.pc = "rest" /\ m.i = local[t].i /\ m.round = local[t].round
      /\ m.target = local[t].target /\ m.old = local[t].old
      /\ m.from = local[t].from /\ m.object = local[t].object /\ m.copy = <<Head(list[local[t].object])>>
  BY <1>1 DEF Locals
<1> HIDE DEF m
<1>4. /\ PsimTypeOK /\ Overlap /\ local' \in [Sim!Threads -> Locals] /\ local'[t] = m
      /\ \A u \in Sim!Threads : u # t => local'[u] = local[u]
      /\ Own(t) /\ curr \in Sim!Records /\ Stored(curr)
      /\ local[t].old \in Sim!Records /\ Stored(local[t].old)
      /\ local[t].target \in Sim!Records /\ Stored(local[t].target)
      /\ Busy(t) /\ ~Sim!Here(t, "toggle") => local[t].round \in {1, 2}
      /\ waits => Turn(t)
  BY <1>2, Common
<1>5. UNCHANGED <<waits, announce, toggles, list, st, rec, curr, bit, calls, want>>
  BY DEF Sim!CopyHead
<1>6. PsimTypeOK'
  BY <1>4, <1>5, SameRecords DEF PsimTypeOK
<1>7. Overlap'
  <2>1. ~Sim!Here(t, "store") /\ Busy(t) /\ ~Sim!Here(t, "toggle") /\ ~Sim!Here(t, "apply")'
    BY <1>1, <1>3, <1>4 DEF Sim!Here, Busy
  <2>2. CopyIsTrue(t)'
    BY <1>1, <1>3, <1>4, <1>5, SameOwners DEF Own, CopyIsTrue, Sim!Here
  <2>3. QED
    BY <1>3, <1>4, <1>5, <2>1, <2>2, LocalStep
<1>8. ASSUME waits PROVE InTurnInv'
  <2>1. Turn(t) /\ Sim!Current' = Sim!Current
    BY <1>4, <1>5, <1>8 DEF Sim!Current
  <2>2. Turn(t)'
    BY <1>1, <1>3, <1>4, <1>5, <2>1 DEF Turn, Sim!Here, Asks, OnlyMine, CopyOfCurrent
  <2>3. ~Sim!Here(t, "idle")' /\ ~Sim!Here(t, "idle")
    BY <1>1, <1>3, <1>4 DEF Sim!Here
  <2>4. QED
    BY <1>4, <1>5, <1>8, <2>2, <2>3, OneTurn
<1>9. QED
  BY <1>5, <1>6, <1>7, <1>8 DEF PsimIInv, InTurnInv

\* A list that is not empty is its first element and the rest.
LEMMA HeadAndTail ==
  ASSUME NEW s \in Seq(Int), s # <<>> PROVE <<Head(s)>> \o Tail(s) = s
<1>1. Len(s) \in Nat \ {0} /\ \A i \in 1..Len(s) : s[i] \in Int
  OBVIOUS
<1>2. /\ Tail(s) \in Seq(Int) /\ Len(Tail(s)) = Len(s) - 1
      /\ \A i \in 1..(Len(s) - 1) : Tail(s)[i] = s[i + 1]
  BY <1>1
<1>3. Head(s) = s[1] /\ <<Head(s)>> \in Seq(Int) /\ Len(<<Head(s)>>) = 1
      /\ <<Head(s)>>[1] = Head(s)
  BY <1>1
<1> DEFINE r == <<Head(s)>> \o Tail(s)
<1>4. r \in Seq(Int) /\ Len(r) = Len(s)
  BY <1>1, <1>2, <1>3
<1>5. ASSUME NEW i \in 1..Len(s) PROVE r[i] = s[i]
  <2>1. CASE i = 1
    BY <1>1, <1>3, <2>1
  <2>2. CASE i # 1
    <3>1. i - 1 \in 1..(Len(s) - 1) /\ r[i] = Tail(s)[i - 1]
      BY <1>1, <1>2, <1>3, <2>2
    <3>2. QED
      BY <1>2, <3>1
  <2>3. QED
    BY <2>1, <2>2
<1> HIDE DEF r
<1>6. r = s
  BY <1>4, <1>5
<1>7. QED
  BY <1>6 DEF r

LEMMA CopyRestKeeps == ASSUME NEW t \in Sim!Threads, PsimIInv, Sim!CopyRest(t) PROVE PsimIInv'
<1> DEFINE m == [local[t] EXCEPT !.pc = "read", !.copy = local[t].copy \o Tail(list[local[t].object])]
<1>1. PsimTypeOK /\ local[t] \in Locals /\ local \in [Sim!Threads -> Locals] /\ Sim!Here(t, "rest")
  <2>1. Sim!Here(t, "rest")
    BY DEF Sim!CopyRest
  <2>2. QED
    BY <2>1, HasLocals
<1>2. m \in Locals /\ local' = [local EXCEPT ![t] = m]
  <2>1. list[local[t].object] \in Seq(Int) /\ list[local[t].object] # <<>>
        /\ local[t].copy \in Seq(Int)
    BY <1>1, NamesInRange, Fields DEF Sim!CopyRest
  <2>2. local[t].copy \o Tail(list[local[t].object]) \in Seq(Int)
    BY <2>1
  <2>3. QED
    BY <1>1, <2>2, LocalChanges, Places DEF Sim!CopyRest
<1>3. /\ m.pc = "read" /\ m.i = local[t].i /\ m.round = local[t].round
      /\ m.target = local[t].target /\ m.old = local[t].old
      /\ m.from = local[t].from /\ m.copy = local[t].copy \o Tail(list[local[t].object])
  BY <1>1 DEF Locals
<1> HIDE DEF m
<1>4. /\ PsimTypeOK /\ Overlap /\ local' \in [Sim!Threads -> Locals] /\ local'[t] = m
      /\ \A u \in Sim!Threads : u # t => local'[u] = local[u]
      /\ Own(t) /\ curr \in Sim!Records /\ Stored(curr)
      /\ local[t].old \in Sim!Records /\ Stored(local[t].old)
      /\ local[t].target \in Sim!Records /\ Stored(local[t].target)
      /\ Busy(t) /\ ~Sim!Here(t, "toggle") => local[t].round \in {1, 2}
      /\ waits => Turn(t)
  BY <1>2, Common
<1>5. UNCHANGED <<waits, announce, toggles, list, st, rec, curr, bit, calls, want>>
  BY DEF Sim!CopyRest
<1>6. PsimTypeOK'
  BY <1>4, <1>5, SameRecords DEF PsimTypeOK
<1>7. Overlap'
  <2>1. ~Sim!Here(t, "store") /\ Busy(t) /\ ~Sim!Here(t, "toggle") /\ ~Sim!Here(t, "apply")'
    BY <1>1, <1>3, <1>4 DEF Sim!Here, Busy
  <2>2. CopyIsTrue(t)'
    <3>1. list[local[t].object] \in Seq(Int) /\ list[local[t].object] # <<>>
      BY <1>1, NamesInRange DEF Sim!CopyRest
    <3>2. <<Head(list[local[t].object])>> \o Tail(list[local[t].object]) = list[local[t].object]
      BY <3>1, HeadAndTail
    <3> SUFFICES ASSUME curr = m.old, curr # <<0, 0>>
                 PROVE  /\ \A u \in Sim!Threads : m.from = Sim!Mine(u)' => Sim!Here(u, "store")'
                        /\ m.copy = list[st[m.from].object]
      BY <1>3, <1>4, <1>5 DEF CopyIsTrue
    <3>3. /\ \A u \in Sim!Threads : local[t].from = Sim!Mine(u) => Sim!Here(u, "store")
          /\ local[t].object = st[local[t].from].object
          /\ local[t].copy = <<Head(list[local[t].object])>>
      BY <1>1, <1>3, <1>4 DEF Own, CopyIsTrue, Sim!Here
    <3>4. m.copy = list[st[m.from].object]
      BY <1>3, <3>2, <3>3
    <3>5. QED
      BY <1>1, <1>3, <1>4, <1>5, <3>3, <3>4, SameOwners DEF Sim!Here
  <2>3. QED
    BY <1>3, <1>4, <1>5, <2>1, <2>2, LocalStep
<1>8. ASSUME waits PROVE InTurnInv'
  <2>1. Turn(t) /\ Sim!Current' = Sim!Current
    BY <1>4, <1>5, <1>8 DEF Sim!Current
  <2>2. Turn(t)'
    <3>1. list[local[t].object] \in Seq(Int) /\ list[local[t].object] # <<>>
      BY <1>1, NamesInRange DEF Sim!CopyRest
    <3>2. <<Head(list[local[t].object])>> \o Tail(list[local[t].object]) = list[local[t].object]
      BY <3>1, HeadAndTail
    <3>3. Asks(t, m.copy) /\ OnlyMine(t, Sim!Current.applied) /\ m.i = 0 /\ m.old = curr
      <4>1. /\ local[t].object = Sim!Current.object
            /\ local[t].copy = <<Head(list[Sim!Current.object])>>
        BY <1>1, <2>1 DEF Turn, Sim!Here, CopyOfCurrent
      <4>2. m.copy = list[Sim!Current.object]
        BY <1>3, <3>2, <4>1
      <4>3. QED
        BY <1>1, <1>3, <2>1, <4>2 DEF Turn, Sim!Here
    <3>4. Asks(t, local[t].copy)' /\ OnlyMine(t, Sim!Current.applied)'
      BY <1>4, <1>5, <2>1, <3>3 DEF Asks, OnlyMine
    <3>5. QED
      BY <1>3, <1>4, <1>5, <3>3, <3>4 DEF Turn, Sim!Here, CopyOfCurrent
  <2>3. ~Sim!Here(t, "idle")' /\ ~Sim!Here(t, "idle")
    BY <1>1, <1>3, <1>4 DEF Sim!Here
  <2>4. QED
    BY <1>4, <1>5, <1>8, <2>2, <2>3, OneTurn
<1>9. QED
  BY <1>5, <1>6, <1>7, <1>8 DEF PsimIInv, InTurnInv

LEMMA CallKeeps == ASSUME NEW t \in Sim!Threads, PsimIInv, Sim!Call(t) PROVE PsimIInv'
<1>a. PICK o \in {local[t].object} \union (IF Sim!Freed(t) THEN Sim!Bound ELSE {}) :
        local' = [local EXCEPT ![t].object = o, ![t].copy = <<>>,
                               ![t].pc = IF list[o] = <<>> THEN "read" ELSE "first"]
  BY DEF Sim!Call
<1> DEFINE next == IF list[o] = <<>> THEN "read" ELSE "first"
           m == [local[t] EXCEPT !.object = o, !.copy = <<>>, !.pc = next]
<1>1. PsimTypeOK /\ local[t] \in Locals /\ local \in [Sim!Threads -> Locals] /\ Sim!Here(t, "call")
  <2>1. Sim!Here(t, "call")
    BY DEF Sim!Call
  <2>2. QED
    BY <2>1, HasLocals
<1>2. m \in Locals /\ local' = [local EXCEPT ![t] = m]
  <2>1. next \in PCs
    BY Places
  <2>2. o \in Sim!Objects
    BY <1>1, <1>a, NamesInRange, Fields DEF Sim!Bound, PsimTypeOK
  <2>3. local' = [local EXCEPT ![t] = m]
    BY <1>a
  <2> HIDE DEF next
  <2>4. QED
    BY <1>1, <2>1, <2>2, <2>3, LocalChanges
<1>3. /\ m.pc = next /\ m.i = local[t].i /\ m.round = local[t].round
      /\ m.target = local[t].target /\ m.old = local[t].old
      /\ m.from = local[t].from /\ m.object = o /\ m.copy = <<>>
  BY <1>1 DEF Locals
<1> HIDE DEF m, next
<1>4. /\ PsimTypeOK /\ Overlap /\ local' \in [Sim!Threads -> Locals] /\ local'[t] = m
      /\ \A u \in Sim!Threads : u # t => local'[u] = local[u]
      /\ Own(t) /\ curr \in Sim!Records /\ Stored(curr)
      /\ local[t].old \in Sim!Records /\ Stored(local[t].old)
      /\ local[t].target \in Sim!Records /\ Stored(local[t].target)
      /\ Busy(t) /\ ~Sim!Here(t, "toggle") => local[t].round \in {1, 2}
      /\ waits => Turn(t)
  BY <1>2, Common
<1>5. UNCHANGED <<waits, announce, toggles, list, st, rec, curr, bit, calls, want>>
  BY DEF Sim!Call
<1>6. PsimTypeOK'
  BY <1>4, <1>5, SameRecords DEF PsimTypeOK
<1>7. Overlap'
  <2>1. ~Sim!Here(t, "store") /\ Busy(t) /\ ~Sim!Here(t, "toggle") /\ ~Sim!Here(t, "apply")'
    BY <1>1, <1>3, <1>4 DEF Sim!Here, Busy, next
  <2>2. CopyIsTrue(t)'
    <3>1. ASSUME curr = local[t].old, curr # <<0, 0>> PROVE o = st[local[t].from].object
      BY <1>1, <1>4, <1>a, <3>1 DEF Own, CopyIsTrue, Sim!Here, Sim!Freed
    <3>2. QED
      BY <1>1, <1>3, <1>4, <1>5, <3>1, SameOwners DEF Own, CopyIsTrue, Sim!Here, next
  <2>3. QED
    BY <1>3, <1>4, <1>5, <2>1, <2>2, LocalStep DEF next
<1>8. ASSUME waits PROVE InTurnInv'
  <2>1. Turn(t) /\ Sim!Current' = Sim!Current
    BY <1>4, <1>5, <1>8 DEF Sim!Current
  <2>2. Turn(t)'
    <3>1. o = Sim!Current.object
      BY <1>1, <1>a, <2>1 DEF Turn, Sim!Here, CopyOfCurrent, Sim!Freed, Sim!Current
    <3>2. /\ m.i = 0 /\ m.old = curr /\ m.from = rec[curr].state
          /\ Asks(t, list[Sim!Current.object]) /\ OnlyMine(t, Sim!Current.applied)
      BY <1>1, <1>3, <2>1 DEF Turn, Sim!Here, CopyOfCurrent
    <3>3. /\ Asks(t, list[Sim!Current.object])' /\ OnlyMine(t, Sim!Current.applied)'
          /\ list[Sim!Current.object] = <<>> => Asks(t, local[t].copy)'
      BY <1>3, <1>4, <1>5, <2>1, <3>2 DEF Asks, OnlyMine
    <3>4. CASE list[Sim!Current.object] = <<>>
      BY <1>3, <1>4, <1>5, <2>1, <3>1, <3>2, <3>3, <3>4 DEF Turn, Sim!Here, CopyOfCurrent, next
    <3>5. CASE list[Sim!Current.object] # <<>>
      BY <1>3, <1>4, <1>5, <2>1, <3>1, <3>2, <3>3, <3>5 DEF Turn, Sim!Here, CopyOfCurrent, next
    <3>6. QED
      BY <3>4, <3>5
  <2>3. ~Sim!Here(t, "idle")' /\ ~Sim!Here(t, "idle")
    BY <1>1, <1>3, <1>4 DEF Sim!Here, next
  <2>4. QED
    BY <1>4, <1>5, <1>8, <2>2, <2>3, OneTurn
<1>9. QED
  BY <1>5, <1>6, <1>7, <1>8 DEF PsimIInv, InTurnInv

LEMMA CrashKeeps == ASSUME NEW t \in Sim!Threads, PsimIInv, Sim!Crash(t) PROVE PsimIInv'
<1> DEFINE m == [local[t] EXCEPT !.pc = "crashed"]
<1>1. /\ PsimTypeOK /\ local[t] \in Locals /\ local \in [Sim!Threads -> Locals]
      /\ local[t].pc \in {"call", "first", "rest"}
  <2>1. local[t].pc \in {"call", "first", "rest"}
    BY DEF Sim!Crash, Sim!Here
  <2>2. QED
    BY <2>1, HasLocals
<1>a. (Sim!Here(t, "call") /\ Sim!Freed(t)) \/ (local[t].pc # "call" /\ list[local[t].object] = <<>>)
  BY DEF Sim!Crash, Sim!Here
<1>2. m \in Locals /\ local' = [local EXCEPT ![t] = m]
  BY <1>1, LocalChanges, Places DEF Sim!Crash, Sim!Goto
<1>3. /\ m.pc = "crashed" /\ m.i = local[t].i /\ m.round = local[t].round
      /\ m.target = local[t].target /\ m.old = local[t].old
  BY <1>1 DEF Locals
<1> HIDE DEF m
<1>4. /\ PsimTypeOK /\ Overlap /\ local' \in [Sim!Threads -> Locals] /\ local'[t] = m
      /\ \A u \in Sim!Threads : u # t => local'[u] = local[u]
      /\ Own(t) /\ curr \in Sim!Records /\ Stored(curr)
      /\ local[t].old \in Sim!Records /\ Stored(local[t].old)
      /\ local[t].target \in Sim!Records /\ Stored(local[t].target)
      /\ Busy(t) /\ ~Sim!Here(t, "toggle") => local[t].round \in {1, 2}
      /\ waits => Turn(t)
  BY <1>2, Common
<1>5. UNCHANGED <<waits, announce, toggles, list, st, rec, curr, bit, calls, want>>
  BY DEF Sim!Crash
<1>6. PsimTypeOK'
  BY <1>4, <1>5, SameRecords DEF PsimTypeOK
<1>7. Overlap'
  <2>1. ~Sim!Here(t, "store") /\ Busy(t) /\ ~Sim!Here(t, "toggle") /\ ~Sim!Here(t, "apply")'
    BY <1>1, <1>3, <1>4 DEF Sim!Here, Busy
  <2>2. CopyIsTrue(t)'
    BY <1>1, <1>3, <1>4, <1>5, <1>a DEF Own, CopyIsTrue, Sim!Here, Sim!Freed
  <2>3. QED
    BY <1>3, <1>4, <1>5, <2>1, <2>2, LocalStep
<1>8. ASSUME waits PROVE InTurnInv'
  <2>1. Turn(t) /\ Sim!Current' = Sim!Current
    BY <1>4, <1>5, <1>8 DEF Sim!Current
  <2>2. Turn(t)'
    BY <1>1, <1>a, <2>1 DEF Turn, Sim!Here, CopyOfCurrent, Sim!Freed, Sim!Current
  <2>3. ~Sim!Here(t, "idle")' /\ ~Sim!Here(t, "idle")
    BY <1>1, <1>3, <1>4 DEF Sim!Here
  <2>4. QED
    BY <1>4, <1>5, <1>8, <2>2, <2>3, OneTurn
<1>9. QED
  BY <1>5, <1>6, <1>7, <1>8 DEF PsimIInv, InTurnInv

\* A step that gives the state s a new value.
LEMMA StateChange ==
  ASSUME PsimTypeOK, NEW s \in Sim!States, NEW r \in StateRecords, st' = [st EXCEPT ![s] = r]
  PROVE  /\ st' \in [Sim!States -> StateRecords] /\ st'[s] = r
         /\ \A x \in Sim!States : x # s => st'[x] = st[x]
BY DEF PsimTypeOK

\* The change of the marks of a state, or of the toggles a thread has seen.
LEMMA MarksChange ==
  ASSUME NEW f \in [Sim!Threads -> BOOLEAN]
  PROVE  /\ \A r \in StateRecords : LET x == [r EXCEPT !.applied = f] IN
              /\ x \in StateRecords /\ x.applied = f
              /\ x.object = r.object /\ x.rvals = r.rvals
         /\ \A l \in Locals : LET x == [l EXCEPT !.seen = f] IN
              /\ x \in Locals /\ x.seen = f
              /\ x.pc = l.pc /\ x.i = l.i /\ x.old = l.old /\ x.copy = l.copy
              /\ x.round = l.round /\ x.from = l.from /\ x.target = l.target
BY DEF StateRecords, Locals

LEMMA ReadKeeps == ASSUME NEW t \in Sim!Threads, PsimIInv, Sim!Read(t) PROVE PsimIInv'
<1> DEFINE i == local[t].i
           next == Sim!Round(t, "check")
           m == [next EXCEPT !.seen[i] = toggles[i]]
           v == st[rec[local[t].old].state].applied[i]
<1>1. /\ PsimTypeOK /\ local[t] \in Locals /\ local \in [Sim!Threads -> Locals] /\ Sim!Here(t, "read")
      /\ i \in Sim!Threads /\ Sim!Mine(t) \in Sim!States
  <2>1. Sim!Here(t, "read")
    BY DEF Sim!Read
  <2>2. QED
    BY <2>1, HasLocals, NamesInRange, Fields
<1>2. /\ next \in Locals /\ next.seen = local[t].seen /\ next.old = local[t].old
      /\ next.copy = local[t].copy /\ next.round = local[t].round
      /\ next.from = local[t].from /\ next.target = local[t].target
      /\ \/ i + 1 \in Sim!Threads /\ next.i = i + 1 /\ next.pc = "read"
         \/ i = NThreads - 1 /\ next.i = 0 /\ next.pc = "check"
  <2>1. "check" \in PCs /\ local[t].pc = "read"
    BY <1>1, Places DEF Sim!Here
  <2>2. next \in Locals
    BY <1>1, <2>1, RoundMeans
  <2>3. QED
    BY <1>1, <2>1, <2>2, RoundFields
<1> DEFINE f == [next.seen EXCEPT ![i] = toggles[i]]
           g == [st[Sim!Mine(t)].applied EXCEPT ![i] = v]
<1>3. f \in [Sim!Threads -> BOOLEAN] /\ g \in [Sim!Threads -> BOOLEAN]
      /\ v \in BOOLEAN /\ st[Sim!Mine(t)] \in StateRecords
  BY <1>1, <1>2, Fields, NamesInRange DEF PsimTypeOK
<1>4. /\ m = [next EXCEPT !.seen = f]
      /\ local' = [local EXCEPT ![t] = m]
      /\ st' = [st EXCEPT ![Sim!Mine(t)] = [st[Sim!Mine(t)] EXCEPT !.applied = g]]
  BY DEF Sim!Read
<1> HIDE DEF i, next, m, v, f, g
<1>5. /\ m \in Locals /\ m.pc = next.pc /\ m.i = next.i /\ m.old = next.old
      /\ m.copy = next.copy /\ m.seen = f /\ m.round = next.round /\ m.from = next.from
      /\ m.target = next.target
  BY <1>2, <1>3, <1>4, MarksChange
<1>6. /\ local' \in [Sim!Threads -> Locals] /\ local'[t] = m
      /\ \A u \in Sim!Threads : u # t => local'[u] = local[u]
  BY <1>1, <1>4, <1>5, MovesTo
<1>a. /\ st' \in [Sim!States -> StateRecords] /\ st'[Sim!Mine(t)].applied = g
      /\ st'[Sim!Mine(t)].object = st[Sim!Mine(t)].object
      /\ \A r \in Sim!States : r # Sim!Mine(t) => st'[r] = st[r]
  <2> DEFINE x == [st[Sim!Mine(t)] EXCEPT !.applied = g]
  <2>1. x \in StateRecords /\ x.applied = g /\ x.object = st[Sim!Mine(t)].object
    BY <1>3, MarksChange
  <2>2. QED
    BY <1>1, <1>4, <2>1, StateChange
<1>8. PsimTypeOK'
  <2>1. /\ UNCHANGED <<waits, announce, toggles, list, rec, curr, bit, calls, want>>
        /\ Sim!Records' = Sim!Records /\ Locals' = Locals /\ Sim!MaxCalls' = Sim!MaxCalls
        /\ Sim!Objects' = Sim!Objects /\ StateRecords' = StateRecords
    BY SameRecords DEF Sim!Read
  <2>2. QED
    BY <1>1, <1>6, <1>a, <2>1 DEF PsimTypeOK
<1>b. Overlap'
  <2>1. /\ PsimTypeOK /\ Overlap /\ Own(t) /\ curr \in Sim!Records /\ Stored(curr)
        /\ local[t].old \in Sim!Records /\ Stored(local[t].old)
        /\ local[t].target \in Sim!Records /\ Stored(local[t].target)
        /\ local[t].round \in {1, 2}
    BY <1>1, <1>4, <1>5, Common DEF Busy, Sim!Here
  <2>2. ~Sim!Here(t, "store") /\ Busy(t) /\ Busy(t)' /\ ~Sim!Here(t, "apply")'
    BY <1>1, <1>2, <1>5, <1>6 DEF Sim!Here, Busy
  <2>3. UNCHANGED <<list, rec, curr, bit, calls>>
    BY DEF Sim!Read
  <2>4. /\ m.old = local[t].old /\ m.from = local[t].from /\ m.copy = local[t].copy
        /\ m.round = local[t].round /\ m.target = local[t].target /\ m.pc \in {"read", "check"}
    BY <1>2, <1>5
  <2>5. \A x \in Sim!States : st'[x].object = st[x].object
    BY <1>a
  <2>6. CopyIsTrue(t)'
    <3>1. local[t].from \in Sim!States
      BY <1>1, Fields
    <3>2. QED
      BY <1>1, <1>6, <2>1, <2>2, <2>3, <2>4, <2>5, <3>1, SameOwners DEF Own, CopyIsTrue, Sim!Here
  <2>7. QED
    BY <1>1, <1>6, <2>1, <2>2, <2>3, <2>4, <2>5, <2>6, LocalStep
<1>9. ASSUME waits PROVE InTurnInv'
  <2>1. Turn(t) /\ rec[curr].state \in Sim!States /\ v = Sim!Current.applied[i]
    BY <1>1, <1>9, NamesInRange DEF PsimIInv, InTurnInv, Sim!Current, Turn, Sim!Here, v
  <2>b. UNCHANGED <<waits, announce, toggles, list, rec, curr, bit, calls, want>>
    BY DEF Sim!Read
  <2>2. Sim!Current'.object = Sim!Current.object /\ Sim!Current'.applied = Sim!Current.applied
    <3>1. CASE rec[curr].state = Sim!Mine(t)
      <4>1. g = st[Sim!Mine(t)].applied
        <5>1. st[Sim!Mine(t)].applied \in [Sim!Threads -> BOOLEAN] /\ v = st[Sim!Mine(t)].applied[i]
          BY <1>1, <2>1, <3>1, NamesInRange, Fields DEF Sim!Current
        <5>2. QED
          BY <5>1 DEF g
      <4>2. QED
        BY <1>a, <2>b, <3>1, <4>1 DEF Sim!Current
    <3>2. CASE rec[curr].state # Sim!Mine(t)
      BY <1>a, <2>1, <2>b, <3>2 DEF Sim!Current
    <3>3. QED
      BY <3>1, <3>2
  <2>3. Sim!Mine(t)' = Sim!Mine(t)
    BY DEF Sim!Mine, Sim!Read
  <2>4. Asks(t, local[t].copy)' /\ OnlyMine(t, Sim!Current.applied)'
    <3>1. Asks(t, local[t].copy) /\ OnlyMine(t, Sim!Current.applied)
      BY <1>1, <2>1 DEF Turn, Sim!Here
    <3>2. m.copy = local[t].copy
      BY <1>2, <1>5
    <3>3. QED
      BY <1>6, <2>2, <2>b, <3>1, <3>2 DEF Asks, OnlyMine
  <2>5. \A j \in 0..i : m.seen[j] = toggles[j] /\ st'[Sim!Mine(t)].applied[j] = Sim!Current.applied[j]
    <3>1. \A j \in 0..(i - 1) : local[t].seen[j] = toggles[j]
                              /\ st[Sim!Mine(t)].applied[j] = Sim!Current.applied[j]
      BY <1>1, <2>1 DEF Turn, Sim!Here, i
    <3>2. ASSUME NEW j \in 0..i
          PROVE  m.seen[j] = toggles[j] /\ st'[Sim!Mine(t)].applied[j] = Sim!Current.applied[j]
      <4>1. /\ local[t].seen \in [Sim!Threads -> BOOLEAN]
            /\ st[Sim!Mine(t)].applied \in [Sim!Threads -> BOOLEAN]
            /\ st'[Sim!Mine(t)].applied = [st[Sim!Mine(t)].applied EXCEPT ![i] = v]
            /\ m.seen = [local[t].seen EXCEPT ![i] = toggles[i]]
        BY <1>1, <1>2, <1>5, <1>a, NamesInRange, Fields DEF f, g
      <4>2. j \in Sim!Threads /\ (j = i \/ j \in 0..(i - 1))
        BY <1>1, PsimConstants DEF Sim!Threads
      <4>3. QED
        BY <1>1, <2>1, <3>1, <4>1, <4>2
    <3>3. QED
      BY <3>2
  <2>6. Turn(t)'
    <3>1. CASE i + 1 \in Sim!Threads /\ m.i = i + 1 /\ m.pc = "read"
      <4>1. \A j \in 0..(m.i - 1) :
              m.seen[j] = toggles'[j] /\ st'[Sim!Mine(t)'].applied[j] = Sim!Current'.applied[j]
        BY <1>1, <2>2, <2>3, <2>5, <3>1, PsimConstants DEF Sim!Read
      <4>2. m.old = curr'
        BY <1>1, <1>2, <1>5, <2>1 DEF Turn, Sim!Here, Sim!Read
      <4>3. QED
        BY <1>6, <2>4, <3>1, <4>1, <4>2 DEF Turn, Sim!Here, CopyOfCurrent
    <3>2. CASE i = NThreads - 1 /\ m.i = 0 /\ m.pc = "check"
      <4>1. m.old = curr'
        BY <1>1, <1>2, <1>5, <2>1 DEF Turn, Sim!Here, Sim!Read
      <4>2. Sim!Threads = 0..i
        BY <3>2 DEF Sim!Threads
      <4>3. m.seen = toggles'
        <5>1. m.seen \in [Sim!Threads -> BOOLEAN] /\ toggles \in [Sim!Threads -> BOOLEAN]
          BY <1>1, <1>3, <1>5 DEF PsimTypeOK
        <5>2. toggles' = toggles /\ \A j \in Sim!Threads : m.seen[j] = toggles[j]
          BY <2>5, <2>b, <4>2
        <5>3. QED
          BY <5>1, <5>2
      <4>4. OnlyMine(t, st[Sim!Mine(t)].applied)'
        BY <2>2, <2>3, <2>4, <2>5, <4>2 DEF OnlyMine
      <4>5. QED
        BY <1>6, <2>4, <3>2, <4>1, <4>3, <4>4 DEF Turn, Sim!Here, CopyOfCurrent
    <3>3. QED
      BY <1>2, <1>5, <3>1, <3>2
  <2>7. ~Sim!Here(t, "idle")' /\ ~Sim!Here(t, "idle")
    BY <1>1, <1>2, <1>5, <1>6 DEF Sim!Here
  <2>8. QED
    BY <1>6, <1>9, <2>6, <2>7, OneTurn DEF Sim!Read
<1>10. QED
  BY <1>8, <1>b, <1>9 DEF PsimIInv, InTurnInv, Sim!Read

\* A round of Attempt ends without success.
LEMMA GivesUp ==
  ASSUME PsimTypeOK, Overlap, NEW t \in Sim!Threads, local[t] \in Locals, local \in [Sim!Threads -> Locals],
         UNCHANGED <<list, st, rec, curr, bit, calls>>, Busy(t), ~Sim!Here(t, "store"),
         local[t].round \in {1, 2},
         NEW m \in Locals, local' = [local EXCEPT ![t] = m],
         m = [local[t] EXCEPT !.i = 0, !.round = local[t].round + 1,
                              !.pc = IF local[t].round = 1 THEN "start" ELSE "answer"]
  PROVE  Overlap'
<1>1. /\ m.round = local[t].round + 1 /\ m.old = local[t].old /\ m.target = local[t].target
      /\ m.pc = IF local[t].round = 1 THEN "start" ELSE "answer"
  BY DEF Locals
<1>2. /\ local'[t] = m /\ \A u \in Sim!Threads : u # t => local'[u] = local[u]
  BY MovesTo
<1>3. /\ CopyIsTrue(t)' /\ (Busy(t)' => local'[t].round \in {1, 2}) /\ ~Sim!Here(t, "apply")'
      /\ local'[t].pc \notin {"target", "dcas", "store"}
  BY <1>1, <1>2, NoCopy DEF Busy, Sim!Here
<1>4. QED
  BY <1>1, <1>2, <1>3, Knows, LocalStep

LEMMA CheckKeeps == ASSUME NEW t \in Sim!Threads, PsimIInv, Sim!Check(t) PROVE PsimIInv'
<1> DEFINE bound == [local[t] EXCEPT !.pc = "bind"]
<1>1. PsimTypeOK /\ local[t] \in Locals /\ local \in [Sim!Threads -> Locals] /\ Sim!Here(t, "check")
  <2>1. Sim!Here(t, "check")
    BY DEF Sim!Check
  <2>2. QED
    BY <2>1, HasLocals
<1>a. /\ Own(t) /\ Overlap /\ Stored(local[t].old) /\ Stored(local[t].target)
      /\ local[t].old \in Sim!Records /\ local[t].target \in Sim!Records /\ local[t].round \in {1, 2}
      /\ Busy(t) /\ ~Sim!Here(t, "store") /\ ~Sim!Here(t, "apply")
  BY <1>1, Knows DEF PsimIInv, Sim!Here, Busy
<1>b. UNCHANGED <<waits, announce, toggles, list, st, rec, curr, bit, calls, want>>
  BY DEF Sim!Check
<1>2. bound \in Locals
  BY <1>1, LocalChanges, Places
<1>3. CASE curr # local[t].old
  <2> DEFINE pc == IF local[t].round = 1 THEN "start" ELSE "answer"
             m == [local[t] EXCEPT !.i = 0, !.round = local[t].round + 1, !.pc = pc]
  <2>1. pc \in PCs /\ local[t].round + 1 \in 0..3
    BY <1>a, Places
  <2>2. m \in Locals /\ local' = [local EXCEPT ![t] = m]
    <3>1. local' = [local EXCEPT ![t] = m]
      BY <1>3 DEF Sim!Check, Sim!Again
    <3> HIDE DEF pc
    <3>2. QED
      BY <1>1, <2>1, <3>1, LocalChanges
  <2>3. PsimTypeOK'
    BY <1>1, <2>2, MovesTo, SameRecords DEF Sim!Check, PsimTypeOK
  <2>4. ~waits
    BY <1>1, <1>3 DEF PsimIInv, InTurnInv, Turn, Sim!Here
  <2>5. Overlap'
    BY <1>1, <1>a, <1>b, <2>2, GivesUp
  <2>6. QED
    BY <2>3, <2>4, <2>5 DEF PsimIInv, InTurnInv, Sim!Check
<1>4. CASE curr = local[t].old
  <2>1. local' = [local EXCEPT ![t] = bound]
    BY <1>4 DEF Sim!Check, Sim!Goto
  <2>2. /\ local' \in [Sim!Threads -> Locals] /\ local'[t] = bound
        /\ \A u \in Sim!Threads : u # t => local'[u] = local[u]
    BY <1>1, <1>2, <2>1, MovesTo
  <2>3. PsimTypeOK'
    BY <1>1, <2>2, SameRecords DEF Sim!Check, PsimTypeOK
  <2>a. Overlap'
    <3>1. /\ bound.pc = "bind" /\ bound.old = local[t].old /\ bound.round = local[t].round
          /\ bound.target = local[t].target
      BY <1>1 DEF Locals
    <3> HIDE DEF bound
    <3>2. CopyIsTrue(t)' /\ Busy(t)' /\ ~Sim!Here(t, "apply")'
      BY <2>2, <3>1, NoCopy DEF Sim!Here, Busy
    <3>3. QED
      BY <1>1, <1>a, <1>b, <2>2, <3>1, <3>2, LocalStep
  <2>4. ASSUME waits PROVE InTurnInv'
    <3>1. Turn(t) /\ Sim!Mine(t)' = Sim!Mine(t)
      BY <2>4 DEF PsimIInv, InTurnInv, Sim!Mine, Sim!Check
    <3>2. /\ bound.pc = "bind" /\ bound.i = local[t].i /\ bound.old = local[t].old
          /\ bound.seen = local[t].seen /\ bound.copy = local[t].copy
      BY <1>1 DEF Locals
    <3>3. Asks(t, local[t].copy)' /\ OnlyMine(t, st[Sim!Mine(t)].applied)'
      <4>1. Asks(t, local[t].copy) /\ OnlyMine(t, st[Sim!Mine(t)].applied)
        BY <1>1, <3>1 DEF Turn, Sim!Here
      <4>2. QED
        BY <2>2, <3>1, <3>2, <4>1 DEF Asks, OnlyMine, Sim!Check
    <3>4. local[t].i = 0 /\ local[t].old = curr /\ local[t].seen = toggles
      BY <1>1, <3>1 DEF Turn, Sim!Here
    <3>5. Turn(t)'
      BY <2>2, <3>2, <3>3, <3>4 DEF Turn, Sim!Here, Sim!Check, CopyOfCurrent
    <3>6. ~Sim!Here(t, "idle")' /\ ~Sim!Here(t, "idle")
      BY <1>1, <2>2, <3>2 DEF Sim!Here
    <3>7. QED
      BY <2>2, <2>4, <3>5, <3>6, OneTurn DEF Sim!Check
  <2>5. QED
    BY <2>3, <2>a, <2>4 DEF PsimIInv, InTurnInv, Sim!Check
<1>5. QED
  BY <1>3, <1>4

\* A thread writes a list that no state but its own has.
LEMMA NotMyList ==
  ASSUME PsimTypeOK, Overlap, NEW t \in Sim!Threads, Busy(t), NEW s \in Sim!States, s # Sim!Mine(t)
  PROVE  st[s].object # Sim!Copied(t)
<1>1. PICK u \in Sim!Threads, b \in {0, 1} : s = <<u, b>>
  BY DEF Sim!States
<1>2. /\ Own(t) /\ calls[t] >= 1 /\ calls[t] \in Nat /\ bit[t] \in {0, 1}
      /\ Sim!Copied(t)[1] = t /\ Sim!Copied(t)[2] = calls[t]
  <2>1. Own(t)
    BY DEF Overlap
  <2>2. calls[t] >= 1
    BY <2>1 DEF Own
  <2>3. calls[t] \in Nat /\ bit[t] \in {0, 1}
    BY NamesInRange, PsimConstants
  <2>4. QED
    BY <2>1, <2>2, <2>3 DEF Sim!Copied
<1>3. st[s].object = Sim!Given \/ st[s].object[1] = u
  BY <1>1 DEF Overlap, ListsApart
<1>4. CASE u # t
  <2>1. Sim!Given[2] = 0
    BY DEF Sim!Given
  <2>2. QED
    BY <1>2, <1>3, <1>4, <2>1
<1>5. CASE u = t
  <2>1. s = <<t, 1 - bit[t]>>
    BY <1>1, <1>2, <1>5 DEF Sim!Mine
  <2>2. st[s].object[2] < calls[t]
    BY <1>2, <2>1 DEF Own
  <2>3. QED
    BY <1>2, <2>2
<1>6. QED
  BY <1>4, <1>5

\* A step of t that writes its state and the list of its round.
LEMMA WriteStep ==
  ASSUME PsimTypeOK, Overlap, NEW t \in Sim!Threads, local[t].pc \in {"bind", "apply"},
         UNCHANGED <<rec, curr, bit, calls>>,
         \A u \in Sim!Threads : u # t => local'[u] = local[u],
         local'[t].pc \in {"apply", "mark"}, local'[t].old = local[t].old,
         local'[t].target = local[t].target, local'[t].round = local[t].round,
         st'[Sim!Mine(t)].object = Sim!Copied(t),
         \A x \in Sim!States : x # Sim!Mine(t) => st'[x].object = st[x].object,
         \A o \in Sim!Objects : o # Sim!Copied(t) => list'[o] = list[o]
  PROVE  Overlap'
<1>1. Busy(t) /\ Busy(t)' /\ ~Sim!Here(t, "store")
  BY DEF Busy, Sim!Here
<1>2. \A r \in Sim!Records : Stored(r) => Stored(r)'
  BY <1>1, StaysStored
<1>3. \A u \in Sim!Threads : Sim!Mine(u)' = Sim!Mine(u) /\ Sim!New(u)' = Sim!New(u)
                          /\ (Sim!Here(u, "store") <=> Sim!Here(u, "store")')
  BY DEF Sim!Mine, Sim!New, Sim!Here
<1>4. Stored(curr)' /\ Sim!NextStateIsFree'
  BY <1>2, <1>3, Knows DEF Overlap, Sim!NextStateIsFree
<1>5. ListsApart'
  <2> SUFFICES ASSUME NEW u \in Sim!Threads, NEW b \in {0, 1}
               PROVE  LET object == st'[<<u, b>>].object IN
                      object = Sim!Given \/ (object[1] = u /\ object[2] <= calls[u])
    BY DEF ListsApart
  <2>1. <<u, b>> \in Sim!States /\ calls[u] \in Nat
    BY PsimConstants DEF Sim!States, PsimTypeOK
  <2>2. CASE <<u, b>> = Sim!Mine(t)
    <3>1. u = t /\ st'[<<u, b>>].object = Sim!Copied(t)
      BY <2>2 DEF Sim!Mine
    <3>2. Sim!Copied(t)[1] = t /\ Sim!Copied(t)[2] = calls[t]
      BY DEF Sim!Copied
    <3>3. QED
      BY <2>1, <3>1, <3>2
  <2>3. CASE <<u, b>> # Sim!Mine(t)
    <3>1. st'[<<u, b>>].object = st[<<u, b>>].object
      BY <2>1, <2>3
    <3>2. LET object == st[<<u, b>>].object IN
          object = Sim!Given \/ (object[1] = u /\ object[2] <= calls[u])
      BY DEF Overlap, ListsApart
    <3>3. QED
      BY <3>1, <3>2
  <2>4. QED
    BY <2>2, <2>3
<1>6. ASSUME NEW u \in Sim!Threads, u # t PROVE Own(u)'
  <2>1. /\ Own(u) /\ local'[u] = local[u] /\ local[u].old \in Sim!Records
        /\ local[u].target \in Sim!Records /\ local[u].from \in Sim!States /\ Sim!Mine(u) \in Sim!States
        /\ Sim!Mine(u) # Sim!Mine(t)
    BY <1>6, NamesInRange, Knows DEF Sim!Mine
  <2>2. <<u, 1 - bit[u]>> \in Sim!States /\ <<u, 1 - bit[u]>> # Sim!Mine(t)
    <3>1. 1 - bit[u] \in {0, 1}
      BY NamesInRange
    <3>2. QED
      BY <1>6, <3>1 DEF Sim!States, Sim!Mine
  <2>3. /\ (Busy(u)' <=> Busy(u)) /\ (Sim!Here(u, "apply")' <=> Sim!Here(u, "apply"))
        /\ Sim!Copied(u)' = Sim!Copied(u)
    BY <2>1 DEF Busy, Sim!Here, Sim!Copied
  <2>4. CopyIsTrue(u)'
    <3>1. CASE local[u].from = Sim!Mine(t)
      BY <1>1, <2>1, <3>1 DEF Own, CopyIsTrue
    <3>2. CASE local[u].from # Sim!Mine(t)
      <4> DEFINE o == st[local[u].from].object
      <4>1. o \in Sim!Objects /\ o # Sim!Copied(t)
        BY <1>1, <2>1, <3>2, NotMyList, NamesInRange
      <4>2. st'[local[u].from].object = o /\ list'[o] = list[o]
        BY <2>1, <3>2, <4>1
      <4>3. QED
        BY <1>3, <2>1, <4>2 DEF Own, CopyIsTrue
    <3>3. QED
      BY <3>1, <3>2
  <2>5. QED
    BY <1>2, <1>3, <2>1, <2>2, <2>3, <2>4 DEF Own
<1>7. Own(t)'
  <2>1. /\ Own(t) /\ local[t].old \in Sim!Records /\ local[t].target \in Sim!Records
        /\ Sim!Copied(t)' = Sim!Copied(t)
    BY Knows DEF Sim!Copied
  <2>2. <<t, 1 - bit[t]>> \in Sim!States /\ <<t, 1 - bit[t]>> # Sim!Mine(t)
    <3>1. 1 - bit[t] \in {0, 1} /\ 1 - bit[t] # bit[t]
      BY NamesInRange
    <3>2. QED
      BY <3>1 DEF Sim!States, Sim!Mine
  <2>3. CopyIsTrue(t)'
    BY NoCopy
  <2>4. QED
    BY <1>1, <1>2, <1>3, <2>1, <2>2, <2>3 DEF Own, Sim!Here
<1>8. QED
  BY <1>4, <1>5, <1>6, <1>7 DEF Overlap

\* The change of the list of a state, or of its answers.
LEMMA ObjectChange ==
  ASSUME NEW r \in StateRecords
  PROVE  /\ \A o \in Sim!Objects : LET x == [r EXCEPT !.object = o] IN
              /\ x \in StateRecords /\ x.object = o
              /\ x.applied = r.applied /\ x.rvals = r.rvals
         /\ \A a \in [Sim!Threads -> Int] : LET x == [r EXCEPT !.rvals = a] IN
              /\ x \in StateRecords /\ x.rvals = a
              /\ x.applied = r.applied /\ x.object = r.object
BY DEF StateRecords

LEMMA BindKeeps == ASSUME NEW t \in Sim!Threads, PsimIInv, Sim!Bind(t) PROVE PsimIInv'
<1> DEFINE m == [local[t] EXCEPT !.pc = "apply"]
           x == [st[Sim!Mine(t)] EXCEPT !.object = Sim!Copied(t)]
<1>1. /\ PsimTypeOK /\ local[t] \in Locals /\ local \in [Sim!Threads -> Locals] /\ Sim!Here(t, "bind")
      /\ Sim!Mine(t) \in Sim!States /\ st[Sim!Mine(t)] \in StateRecords /\ local[t].copy \in Seq(Int)
  <2>1. Sim!Here(t, "bind")
    BY DEF Sim!Bind
  <2>2. QED
    BY <2>1, HasLocals, NamesInRange, Fields
<1>a. Own(t) /\ local[t].round \in {1, 2} /\ Sim!Copied(t) \in Sim!Objects
  BY <1>1, Knows, NamesInRange DEF PsimIInv, Sim!Here, Busy
<1>2. m \in Locals /\ local' = [local EXCEPT ![t] = m]
  BY <1>1, LocalChanges, Places DEF Sim!Bind, Sim!Goto
<1>3. /\ local' \in [Sim!Threads -> Locals] /\ local'[t] = m
      /\ \A u \in Sim!Threads : u # t => local'[u] = local[u]
  BY <1>1, <1>2, MovesTo
<1>4. /\ x \in StateRecords /\ x.object = Sim!Copied(t) /\ x.applied = st[Sim!Mine(t)].applied
      /\ st' = [st EXCEPT ![Sim!Mine(t)] = x]
  BY <1>1, <1>a, ObjectChange DEF Sim!Bind
<1> HIDE DEF x
<1>5. /\ st' \in [Sim!States -> StateRecords] /\ st'[Sim!Mine(t)] = x
      /\ \A y \in Sim!States : y # Sim!Mine(t) => st'[y] = st[y]
  BY <1>1, <1>4, StateChange
<1>b. /\ list' \in [Sim!Objects -> Seq(Int)] /\ list'[Sim!Copied(t)] = local[t].copy
      /\ \A o \in Sim!Objects : o # Sim!Copied(t) => list'[o] = list[o]
  <2>1. list \in [Sim!Objects -> Seq(Int)] /\ list' = [list EXCEPT ![Sim!Copied(t)] = local[t].copy]
    BY <1>1 DEF Sim!Bind, PsimTypeOK
  <2>2. QED
    BY <1>1, <1>a, <2>1
<1>c. UNCHANGED <<waits, announce, toggles, rec, curr, bit, calls, want>>
  BY DEF Sim!Bind
<1>6. PsimTypeOK'
  BY <1>1, <1>3, <1>5, <1>b, <1>c, SameRecords DEF PsimTypeOK
<1>d. Overlap'
  <2>1. /\ m.pc = "apply" /\ m.old = local[t].old /\ m.target = local[t].target
        /\ m.round = local[t].round
    BY <1>1 DEF Locals
  <2> HIDE DEF m
  <2>2. Overlap /\ local[t].pc = "bind"
    BY <1>1 DEF PsimIInv, Sim!Here
  <2>3. /\ st'[Sim!Mine(t)].object = Sim!Copied(t)
        /\ \A y \in Sim!States : y # Sim!Mine(t) => st'[y].object = st[y].object
    BY <1>4, <1>5
  <2>4. QED
    BY <1>1, <1>3, <1>b, <1>c, <2>1, <2>2, <2>3, WriteStep
<1>7. ASSUME waits PROVE InTurnInv'
  <2>1. Turn(t) /\ Sim!Mine(t)' = Sim!Mine(t)
    BY <1>7 DEF PsimIInv, InTurnInv, Sim!Mine, Sim!Bind
  <2>2. /\ m.pc = "apply" /\ m.i = local[t].i /\ m.old = local[t].old
        /\ m.seen = local[t].seen
    BY <1>1 DEF Locals
  <2>3. Asks(t, local[t].copy) /\ OnlyMine(t, st[Sim!Mine(t)].applied)
        /\ local[t].i = 0 /\ local[t].old = curr /\ local[t].seen = toggles
    BY <1>1, <2>1 DEF Turn, Sim!Here
  <2>4. Asks(t, list[st[Sim!Mine(t)].object])' /\ OnlyMine(t, st[Sim!Mine(t)].applied)'
    BY <1>4, <1>5, <1>b, <1>c, <2>1, <2>3 DEF Asks, OnlyMine
  <2>5. ~(t < m.i)
    BY <2>2, <2>3, PsimConstants
  <2>6. Turn(t)'
    BY <1>3, <1>c, <2>2, <2>3, <2>4, <2>5 DEF Turn, Sim!Here, CopyOfCurrent
  <2>7. ~Sim!Here(t, "idle")' /\ ~Sim!Here(t, "idle")
    BY <1>1, <1>3, <2>2 DEF Sim!Here
  <2>8. QED
    BY <1>3, <1>7, <2>6, <2>7, OneTurn DEF Sim!Bind
<1>8. QED
  BY <1>6, <1>d, <1>7 DEF PsimIInv, InTurnInv, Sim!Bind

LEMMA ApplyKeeps == ASSUME NEW t \in Sim!Threads, PsimIInv, Sim!Apply(t) PROVE PsimIInv'
<1> DEFINE i == local[t].i
           m == Sim!Round(t, "mark")
           object == st[Sim!Mine(t)].object
           after == Sim!SerialApply(list[object], announce[i])
           answers == [st[Sim!Mine(t)].rvals EXCEPT ![i] = after.answer]
           x == [st[Sim!Mine(t)] EXCEPT !.rvals = answers]
<1>1. /\ PsimTypeOK /\ local[t] \in Locals /\ local \in [Sim!Threads -> Locals] /\ Sim!Here(t, "apply")
      /\ Sim!Mine(t) \in Sim!States /\ st[Sim!Mine(t)] \in StateRecords /\ i \in Sim!Threads
      /\ st[Sim!Mine(t)].rvals \in [Sim!Threads -> Int]
      /\ object \in Sim!Objects /\ list[object] \in Seq(Int)
  <2>1. Sim!Here(t, "apply")
    BY DEF Sim!Apply
  <2>2. QED
    BY <2>1, HasLocals, NamesInRange, Fields
<1>a. object = Sim!Copied(t) /\ Overlap
  BY <1>1, Knows DEF PsimIInv, Own
<1>2. /\ m \in Locals /\ m.old = local[t].old /\ m.seen = local[t].seen
      /\ m.target = local[t].target /\ m.round = local[t].round
      /\ \/ i + 1 \in Sim!Threads /\ m.i = i + 1 /\ m.pc = "apply"
         \/ i = NThreads - 1 /\ m.i = 0 /\ m.pc = "mark"
  <2>1. "mark" \in PCs /\ local[t].pc = "apply"
    BY <1>1, Places DEF Sim!Here
  <2>2. m \in Locals
    BY <1>1, <2>1, RoundMeans
  <2>3. QED
    BY <1>1, <2>1, <2>2, RoundFields
<1>b. local' = [local EXCEPT ![t] = m]
  BY DEF Sim!Apply
<1> HIDE DEF m
<1>3. /\ local' \in [Sim!Threads -> Locals] /\ local'[t] = m
      /\ \A u \in Sim!Threads : u # t => local'[u] = local[u]
  BY <1>1, <1>2, <1>b, MovesTo
<1>4. after.list \in Seq(Int) /\ answers \in [Sim!Threads -> Int]
  <2>1. announce[i] \in Requests
    BY <1>1 DEF PsimTypeOK
  <2> HIDE DEF object
  <2>2. after \in [list : Seq(Int), answer : Int]
    BY <1>1, <2>1, SerialApplyType
  <2> HIDE DEF after
  <2>3. after.list \in Seq(Int) /\ after.answer \in Int
    BY <2>2
  <2>4. QED
    BY <1>1, <2>3
<1>5. \/ /\ local[t].seen[i] # st[Sim!Mine(t)].applied[i]
         /\ list' = [list EXCEPT ![object] = after.list]
         /\ st' = [st EXCEPT ![Sim!Mine(t)] = x]
      \/ /\ local[t].seen[i] = st[Sim!Mine(t)].applied[i]
         /\ list' = list /\ st' = st
  <2> HIDE DEF after
  <2>1. QED
    BY DEF Sim!Apply, after
<1> HIDE DEF answers, after, object
<1>6. /\ x \in StateRecords /\ x.object = object /\ x.rvals = answers
      /\ x.applied = st[Sim!Mine(t)].applied
  BY <1>1, <1>4, ObjectChange DEF object
<1> HIDE DEF x, i
<1>7. /\ st' \in [Sim!States -> StateRecords] /\ list' \in [Sim!Objects -> Seq(Int)]
      /\ \A y \in Sim!States : y # Sim!Mine(t) => st'[y] = st[y]
      /\ \A o \in Sim!Objects : o # object => list'[o] = list[o]
      /\ st'[Sim!Mine(t)].object = object /\ st'[Sim!Mine(t)].applied = st[Sim!Mine(t)].applied
      /\ \/ /\ local[t].seen[i] # st[Sim!Mine(t)].applied[i]
            /\ st'[Sim!Mine(t)].rvals = answers /\ list'[object] = after.list
         \/ /\ local[t].seen[i] = st[Sim!Mine(t)].applied[i]
            /\ st'[Sim!Mine(t)] = st[Sim!Mine(t)] /\ list'[object] = list[object]
  <2>1. st \in [Sim!States -> StateRecords] /\ list \in [Sim!Objects -> Seq(Int)]
    BY <1>1 DEF PsimTypeOK
  <2>2. CASE /\ local[t].seen[i] # st[Sim!Mine(t)].applied[i]
             /\ list' = [list EXCEPT ![object] = after.list]
             /\ st' = [st EXCEPT ![Sim!Mine(t)] = x]
    BY <1>1, <1>4, <1>6, <2>1, <2>2
  <2>3. CASE /\ local[t].seen[i] = st[Sim!Mine(t)].applied[i]
             /\ list' = list /\ st' = st
    BY <1>1, <2>1, <2>3 DEF object
  <2>4. QED
    BY <1>5, <2>2, <2>3
<1>8. UNCHANGED <<waits, announce, toggles, rec, curr, bit, calls, want>>
  BY DEF Sim!Apply
<1>9. PsimTypeOK'
  BY <1>1, <1>3, <1>7, <1>8, SameRecords DEF PsimTypeOK
<1>c. Overlap'
  <2>1. local[t].pc = "apply" /\ local'[t].pc \in {"apply", "mark"}
    BY <1>1, <1>2, <1>3 DEF Sim!Here
  <2>2. QED
    BY <1>1, <1>2, <1>3, <1>7, <1>8, <1>a, <2>1, WriteStep
<1>10. ASSUME waits PROVE InTurnInv'
  <2>1. Turn(t) /\ Sim!Mine(t)' = Sim!Mine(t)
    BY <1>8, <1>10 DEF PsimIInv, InTurnInv, Sim!Mine
  <2>2. /\ OnlyMine(t, st[Sim!Mine(t)].applied) /\ local[t].old = curr /\ local[t].seen = toggles
        /\ IF t < i THEN Served(t) ELSE Asks(t, list[object])
    BY <1>1, <2>1 DEF Turn, Sim!Here, i, object
  <2>3. OnlyMine(t, st[Sim!Mine(t)].applied)'
    BY <1>7, <1>8, <2>1, <2>2 DEF OnlyMine
  <2>4. IF t < i + 1 THEN Served(t)' ELSE Asks(t, list[st[Sim!Mine(t)].object])'
    <3>1. CASE t = i
      <4>1. st'[Sim!Mine(t)].rvals = answers /\ list'[object] = after.list
        BY <1>1, <1>7, <2>2, <3>1 DEF OnlyMine
      <4>2. after = want
        BY <2>2, <3>1, PsimConstants DEF Asks, after
      <4>3. answers[t] = after.answer
        BY <1>1, <3>1 DEF answers
      <4>4. Served(t)'
        BY <1>7, <1>8, <2>1, <4>1, <4>2, <4>3 DEF Served
      <4>5. QED
        BY <1>1, <3>1, <4>4, PsimConstants
    <3>2. CASE t # i
      <4>1. st'[Sim!Mine(t)] = st[Sim!Mine(t)] /\ list'[object] = list[object]
        BY <1>1, <1>7, <2>2, <3>2 DEF OnlyMine
      <4>2. (t < i + 1) <=> (t < i)
        BY <1>1, <3>2 DEF Sim!Threads
      <4>3. QED
        BY <1>7, <1>8, <2>1, <2>2, <4>1, <4>2 DEF Served, Asks, object
    <3>3. QED
      BY <3>1, <3>2
  <2>5. Turn(t)'
    <3>1. CASE i + 1 \in Sim!Threads /\ m.i = i + 1 /\ m.pc = "apply"
      BY <1>2, <1>3, <1>8, <2>2, <2>3, <2>4, <3>1 DEF Turn, Sim!Here, CopyOfCurrent
    <3>2. CASE i = NThreads - 1 /\ m.i = 0 /\ m.pc = "mark"
      <4>1. Served(t)'
        BY <2>4, <3>2, PsimConstants DEF Sim!Threads
      <4>2. QED
        BY <1>2, <1>3, <1>8, <2>2, <3>2, <4>1 DEF Turn, Sim!Here, CopyOfCurrent
    <3>3. QED
      BY <1>2, <3>1, <3>2
  <2>6. ~Sim!Here(t, "idle")' /\ ~Sim!Here(t, "idle")
    BY <1>1, <1>2, <1>3 DEF Sim!Here
  <2>7. QED
    BY <1>3, <1>8, <1>10, <2>5, <2>6, OneTurn
<1>11. QED
  BY <1>8, <1>9, <1>c, <1>10 DEF PsimIInv, InTurnInv

LEMMA MarkKeeps == ASSUME NEW t \in Sim!Threads, PsimIInv, Sim!Mark(t) PROVE PsimIInv'
<1> DEFINE i == local[t].i
           m == Sim!Round(t, "before")
           g == [st[Sim!Mine(t)].applied EXCEPT ![i] = local[t].seen[i]]
           x == [st[Sim!Mine(t)] EXCEPT !.applied = g]
<1>1. /\ PsimTypeOK /\ local[t] \in Locals /\ local \in [Sim!Threads -> Locals] /\ Sim!Here(t, "mark")
      /\ Sim!Mine(t) \in Sim!States /\ st[Sim!Mine(t)] \in StateRecords /\ i \in Sim!Threads
      /\ st[Sim!Mine(t)].applied \in [Sim!Threads -> BOOLEAN] /\ local[t].seen \in [Sim!Threads -> BOOLEAN]
  <2>1. Sim!Here(t, "mark")
    BY DEF Sim!Mark
  <2>2. QED
    BY <2>1, HasLocals, NamesInRange, Fields
<1>2. /\ m \in Locals /\ m.old = local[t].old
      /\ m.target = local[t].target /\ m.round = local[t].round
      /\ \/ i + 1 \in Sim!Threads /\ m.i = i + 1 /\ m.pc = "mark"
         \/ i = NThreads - 1 /\ m.i = 0 /\ m.pc = "before"
      /\ local' = [local EXCEPT ![t] = m]
  <2>1. "before" \in PCs /\ local[t].pc = "mark"
    BY <1>1, Places DEF Sim!Here
  <2>2. m \in Locals
    BY <1>1, <2>1, RoundMeans
  <2>3. local' = [local EXCEPT ![t] = m]
    BY DEF Sim!Mark
  <2>4. QED
    BY <1>1, <2>1, <2>2, <2>3, RoundFields
<1>3. st' = [st EXCEPT ![Sim!Mine(t)] = x] /\ g \in [Sim!Threads -> BOOLEAN]
  BY <1>1 DEF Sim!Mark
<1> HIDE DEF i, m, g
<1>4. /\ local' \in [Sim!Threads -> Locals] /\ local'[t] = m
      /\ \A u \in Sim!Threads : u # t => local'[u] = local[u]
  BY <1>1, <1>2, MovesTo
<1>5. /\ x \in StateRecords /\ x.applied = g /\ x.object = st[Sim!Mine(t)].object
      /\ x.rvals = st[Sim!Mine(t)].rvals
  BY <1>1, <1>3, MarksChange
<1> HIDE DEF x
<1>6. /\ st' \in [Sim!States -> StateRecords] /\ st'[Sim!Mine(t)] = x
      /\ \A y \in Sim!States : y # Sim!Mine(t) => st'[y] = st[y]
  BY <1>1, <1>3, <1>5, StateChange
<1>7. UNCHANGED <<waits, announce, toggles, list, rec, curr, bit, calls, want>>
  BY DEF Sim!Mark
<1>8. PsimTypeOK'
  BY <1>1, <1>4, <1>6, <1>7, SameRecords DEF PsimTypeOK
<1>a. Overlap'
  <2>1. /\ Overlap /\ Stored(local[t].old) /\ Stored(local[t].target)
        /\ local[t].old \in Sim!Records /\ local[t].target \in Sim!Records /\ local[t].round \in {1, 2}
    BY <1>1, Knows DEF PsimIInv, Sim!Here, Busy
  <2>2. /\ ~Sim!Here(t, "store") /\ Busy(t) /\ ~Sim!Here(t, "apply")' /\ CopyIsTrue(t)'
        /\ local'[t].pc \in {"mark", "before"}
    BY <1>1, <1>2, <1>4, NoCopy DEF Sim!Here, Busy
  <2>3. \A y \in Sim!States : st'[y].object = st[y].object
    BY <1>5, <1>6
  <2>4. QED
    BY <1>1, <1>2, <1>4, <1>7, <2>1, <2>2, <2>3, LocalStep
<1>9. ASSUME waits PROVE InTurnInv'
  <2>1. Turn(t) /\ Sim!Mine(t)' = Sim!Mine(t)
    BY <1>7, <1>9 DEF PsimIInv, InTurnInv, Sim!Mine
  <2>2. /\ local[t].old = curr /\ local[t].seen = toggles /\ Served(t)
        /\ \A j \in 0..(i - 1) : st[Sim!Mine(t)].applied[j] = toggles[j]
    BY <1>1, <2>1 DEF Turn, Sim!Here, i
  <2>3. Served(t)'
    BY <1>5, <1>6, <1>7, <2>1, <2>2 DEF Served
  <2>4. \A j \in 0..i : st'[Sim!Mine(t)].applied[j] = toggles[j]
    <3>1. ASSUME NEW j \in 0..i PROVE st'[Sim!Mine(t)].applied[j] = toggles[j]
      <4>1. j \in Sim!Threads /\ (j = i \/ j \in 0..(i - 1))
        BY <1>1, PsimConstants DEF Sim!Threads
      <4>2. st'[Sim!Mine(t)].applied = g
        BY <1>5, <1>6
      <4>3. QED
        BY <1>1, <2>2, <4>1, <4>2 DEF g
    <3>2. QED
      BY <3>1
  <2>5. Turn(t)'
    <3>1. CASE i + 1 \in Sim!Threads /\ m.i = i + 1 /\ m.pc = "mark"
      <4>1. \A j \in 0..(m.i - 1) : st'[Sim!Mine(t)'].applied[j] = toggles'[j]
        <5>1. m.i - 1 = i
          BY <1>1, <3>1 DEF Sim!Threads
        <5>2. QED
          BY <1>7, <2>1, <2>4, <5>1
      <4>2. m.old = curr' /\ m.seen = toggles'
        <5>1. m.seen = local[t].seen
          BY <1>1, RoundFields, Places DEF m
        <5>2. QED
          BY <1>2, <1>7, <2>2, <5>1
      <4>3. QED
        BY <1>4, <2>3, <3>1, <4>1, <4>2 DEF Turn, Sim!Here, CopyOfCurrent
    <3>2. CASE i = NThreads - 1 /\ m.i = 0 /\ m.pc = "before"
      <4>1. AllMarked(t)'
        BY <1>7, <2>1, <2>4, <3>2 DEF AllMarked, Sim!Threads
      <4>2. QED
        BY <1>2, <1>4, <1>7, <2>2, <2>3, <3>2, <4>1 DEF Turn, Sim!Here, CopyOfCurrent
    <3>3. QED
      BY <1>2, <3>1, <3>2
  <2>6. ~Sim!Here(t, "idle")' /\ ~Sim!Here(t, "idle")
    BY <1>1, <1>2, <1>4 DEF Sim!Here
  <2>7. QED
    BY <1>4, <1>7, <1>9, <2>5, <2>6, OneTurn
<1>10. QED
  BY <1>7, <1>8, <1>a, <1>9 DEF PsimIInv, InTurnInv

\* A step that gives the record r a new value.
LEMMA RecordChange ==
  ASSUME PsimTypeOK, NEW r \in Sim!Records, NEW v \in SeqRecords, rec' = [rec EXCEPT ![r] = v]
  PROVE  /\ rec' \in [Sim!Records -> SeqRecords] /\ rec'[r] = v
         /\ \A x \in Sim!Records : x # r => rec'[x] = rec[x]
BY DEF PsimTypeOK

\* A step of t that gives its state to a record no other thread fills.
LEMMA RecordStep ==
  ASSUME PsimTypeOK, Overlap, NEW t \in Sim!Threads, NEW r \in Sim!Records,
         local[t].pc \in {"before", "dcas"}, local'[t].pc \in {"target", "store"},
         UNCHANGED <<list, st, curr, bit, calls>>,
         \A u \in Sim!Threads : u # t => local'[u] = local[u] /\ (Busy(u) => Sim!New(u) # r),
         local'[t].old = local[t].old, local'[t].target = local[t].target,
         local'[t].round = local[t].round,
         \A x \in Sim!Records : x # r => rec'[x] = rec[x],
         rec'[r].state = Sim!Mine(t), rec'[Sim!New(t)].state = Sim!Mine(t),
         r = curr => Sim!Here(t, "store")'
  PROVE  Overlap'
<1>1. Busy(t) /\ Busy(t)' /\ ~Sim!Here(t, "store") /\ ~Sim!Here(t, "apply")'
  BY DEF Busy, Sim!Here
<1>2. \A x \in Sim!Records : Stored(x) => Stored(x)'
  BY <1>1, StaysStored
<1>3. \A u \in Sim!Threads : Sim!Mine(u)' = Sim!Mine(u) /\ Sim!New(u)' = Sim!New(u)
                          /\ (Sim!Here(u, "store") => Sim!Here(u, "store")')
  BY DEF Sim!Mine, Sim!New, Sim!Here
<1>4. Stored(curr)' /\ ListsApart'
  BY <1>2, Knows DEF Overlap, ListsApart
<1>5. Sim!NextStateIsFree'
  <2> SUFFICES ASSUME curr # <<0, 0>>, NEW u \in Sim!Threads, rec'[curr].state = Sim!Mine(u)
               PROVE  Sim!Here(u, "store")'
    BY <1>3 DEF Sim!NextStateIsFree
  <2>1. CASE curr = r
    <3>1. u = t
      BY <2>1 DEF Sim!Mine
    <3>2. QED
      BY <2>1, <3>1
  <2>2. CASE curr # r
    BY <1>3, <2>2, Knows DEF Overlap, Sim!NextStateIsFree
  <2>3. QED
    BY <2>1, <2>2
<1>6. ASSUME NEW u \in Sim!Threads, u # t PROVE Own(u)'
  <2>1. /\ Own(u) /\ local'[u] = local[u] /\ local[u].old \in Sim!Records
        /\ local[u].target \in Sim!Records /\ Sim!New(u) \in Sim!Records
    BY <1>6, NamesInRange, Knows
  <2>2. /\ (Busy(u)' <=> Busy(u)) /\ (Sim!Here(u, "apply")' <=> Sim!Here(u, "apply"))
        /\ Sim!Copied(u)' = Sim!Copied(u)
    BY <2>1 DEF Busy, Sim!Here, Sim!Copied
  <2>3. CopyIsTrue(u)'
    BY <1>3, <2>1 DEF Own, CopyIsTrue
  <2>4. local[u].pc \in {"target", "dcas", "store"} => rec'[Sim!New(u)].state = Sim!Mine(u)
    BY <1>6, <2>1 DEF Own, Busy
  <2>5. QED
    BY <1>2, <1>3, <2>1, <2>2, <2>3, <2>4 DEF Own
<1>7. Own(t)'
  <2>1. Own(t) /\ local[t].old \in Sim!Records /\ local[t].target \in Sim!Records
    BY Knows
  <2>2. CopyIsTrue(t)'
    BY NoCopy
  <2>3. QED
    BY <1>1, <1>2, <1>3, <2>1, <2>2 DEF Own, Sim!Here
<1>8. QED
  BY <1>4, <1>5, <1>6, <1>7 DEF Overlap

LEMMA BeforeKeeps == ASSUME NEW t \in Sim!Threads, PsimIInv, Sim!Before(t) PROVE PsimIInv'
<1> DEFINE old == rec[local[t].old]
           m == [local[t] EXCEPT !.pc = "target", !.before = old]
           v == [state |-> Sim!Mine(t), seq |-> old.seq + 1]
<1>1. /\ PsimTypeOK /\ Overlap /\ local[t] \in Locals /\ Sim!Here(t, "before")
      /\ Sim!Mine(t) \in Sim!States /\ Sim!New(t) \in Sim!Records /\ old \in SeqRecords
      /\ curr \in Sim!Records /\ curr # Sim!New(t)
  <2>1. Sim!Here(t, "before")
    BY DEF Sim!Before
  <2>2. Busy(t)
    BY <2>1 DEF Busy, Sim!Here
  <2>3. old \in SeqRecords
    BY HasLocals, NamesInRange DEF PsimTypeOK
  <2>4. QED
    BY <2>1, <2>2, <2>3, HasLocals, NamesInRange, Knows, NewIsNotStored
<1>2. m \in Locals /\ local' = [local EXCEPT ![t] = m]
  BY <1>1, LocalChanges, Places DEF Sim!Before
<1>3. v \in SeqRecords /\ rec' = [rec EXCEPT ![Sim!New(t)] = v] /\ v.state = Sim!Mine(t)
  <2>1. old.seq + 1 \in Nat
    BY <1>1, Fields
  <2>2. QED
    BY <1>1, <2>1 DEF Sim!Before, SeqRecords
<1>4. /\ local' \in [Sim!Threads -> Locals] /\ local'[t] = m
      /\ \A u \in Sim!Threads : u # t => local'[u] = local[u]
      /\ waits => Turn(t)
  BY <1>2, Common
<1>5. /\ rec' \in [Sim!Records -> SeqRecords] /\ rec'[Sim!New(t)] = v
      /\ \A r \in Sim!Records : r # Sim!New(t) => rec'[r] = rec[r]
  <2> HIDE DEF v
  <2>1. QED
    BY <1>1, <1>3, RecordChange
<1>a. UNCHANGED <<waits, announce, toggles, list, st, curr, bit, calls, want>>
  BY DEF Sim!Before
<1>b. /\ m.pc = "target" /\ m.i = local[t].i /\ m.old = local[t].old /\ m.before = old
      /\ m.target = local[t].target /\ m.round = local[t].round
  BY <1>1 DEF Locals
<1> HIDE DEF m, v
<1>6. PsimTypeOK'
  BY <1>1, <1>4, <1>5, <1>a, SameRecords DEF PsimTypeOK
<1>7. Overlap'
  <2>1. \A u \in Sim!Threads : u # t => Sim!New(u) # Sim!New(t)
    BY DEF Sim!New
  <2>2. local[t].pc = "before"
    BY <1>1 DEF Sim!Here
  <2>3. QED
    BY <1>1, <1>3, <1>4, <1>5, <1>a, <1>b, <2>1, <2>2, RecordStep
<1>8. ASSUME waits PROVE InTurnInv'
  <2>1. Turn(t) /\ Sim!Mine(t)' = Sim!Mine(t) /\ rec'[curr] = rec[curr] /\ curr' = curr
    BY <1>1, <1>4, <1>5, <1>8, <1>a DEF Sim!Mine
  <2>2. local[t].i = 0 /\ local[t].old = curr /\ Served(t) /\ AllMarked(t)
    BY <1>1, <2>1 DEF Turn, Sim!Here
  <2>3. Served(t)' /\ AllMarked(t)'
    BY <1>a, <2>1, <2>2 DEF Served, AllMarked
  <2>4. m.before = rec'[curr']
    BY <1>b, <2>1, <2>2
  <2>5. Turn(t)'
    BY <1>4, <1>b, <2>1, <2>2, <2>3, <2>4 DEF Turn, Sim!Here, CopyOfCurrent
  <2>6. ~Sim!Here(t, "idle")' /\ ~Sim!Here(t, "idle")
    BY <1>1, <1>4, <1>b DEF Sim!Here
  <2>7. QED
    BY <1>4, <1>8, <1>a, <2>5, <2>6, OneTurn
<1>9. QED
  BY <1>6, <1>7, <1>8, <1>a DEF PsimIInv, InTurnInv

LEMMA TargetKeeps == ASSUME NEW t \in Sim!Threads, PsimIInv, Sim!Target(t) PROVE PsimIInv'
<1> DEFINE m == [local[t] EXCEPT !.pc = "dcas", !.target = curr]
<1>1. PsimTypeOK /\ local[t] \in Locals /\ local \in [Sim!Threads -> Locals] /\ Sim!Here(t, "target")
  <2>1. Sim!Here(t, "target")
    BY DEF Sim!Target
  <2>2. QED
    BY <2>1, HasLocals
<1>2. m \in Locals /\ local' = [local EXCEPT ![t] = m]
  <2>1. curr \in Sim!Records
    BY <1>1 DEF PsimTypeOK
  <2>2. QED
    BY <1>1, <2>1, LocalChanges, Places DEF Sim!Target
<1>3. /\ m.pc = "dcas" /\ m.i = local[t].i /\ m.round = local[t].round
      /\ m.old = local[t].old /\ m.target = curr /\ m.before = local[t].before
  BY <1>1 DEF Locals
<1> HIDE DEF m
<1>4. /\ PsimTypeOK /\ Overlap /\ local' \in [Sim!Threads -> Locals] /\ local'[t] = m
      /\ \A u \in Sim!Threads : u # t => local'[u] = local[u]
      /\ Own(t) /\ curr \in Sim!Records /\ Stored(curr)
      /\ local[t].old \in Sim!Records /\ Stored(local[t].old)
      /\ Busy(t) /\ ~Sim!Here(t, "toggle") => local[t].round \in {1, 2}
      /\ waits => Turn(t)
  BY <1>2, Common
<1>5. UNCHANGED <<waits, announce, toggles, list, st, rec, curr, bit, calls, want>>
  BY DEF Sim!Target
<1>6. PsimTypeOK'
  BY <1>4, <1>5, SameRecords DEF PsimTypeOK
<1>7. Overlap'
  <2>1. /\ ~Sim!Here(t, "store") /\ Busy(t) /\ ~Sim!Here(t, "toggle") /\ ~Sim!Here(t, "apply")'
        /\ local[t].pc = "target"
    BY <1>1, <1>3, <1>4 DEF Sim!Here, Busy
  <2>2. CopyIsTrue(t)'
    BY <1>3, <1>4, NoCopy
  <2>3. QED
    BY <1>3, <1>4, <1>5, <2>1, <2>2, LocalStep
<1>8. ASSUME waits PROVE InTurnInv'
  <2>1. Turn(t) /\ Sim!Mine(t)' = Sim!Mine(t)
    BY <1>4, <1>5, <1>8 DEF Sim!Mine
  <2>2. local[t].i = 0 /\ local[t].old = curr /\ Served(t) /\ AllMarked(t) /\ local[t].before = rec[curr]
    BY <1>1, <2>1 DEF Turn, Sim!Here
  <2>3. Served(t)' /\ AllMarked(t)'
    BY <1>5, <2>1, <2>2 DEF Served, AllMarked
  <2>4. Turn(t)'
    BY <1>3, <1>4, <1>5, <2>2, <2>3 DEF Turn, Sim!Here, CopyOfCurrent
  <2>5. ~Sim!Here(t, "idle")' /\ ~Sim!Here(t, "idle")
    BY <1>1, <1>3, <1>4 DEF Sim!Here
  <2>6. QED
    BY <1>4, <1>5, <1>8, <2>4, <2>5, OneTurn
<1>9. QED
  BY <1>5, <1>6, <1>7, <1>8 DEF PsimIInv, InTurnInv

LEMMA DcasKeeps == ASSUME NEW t \in Sim!Threads, PsimIInv, Sim!Dcas(t) PROVE PsimIInv'
<1> DEFINE target == local[t].target
           m == [local[t] EXCEPT !.pc = "store"]
           v == [rec[target] EXCEPT !.state = Sim!Mine(t)]
<1>1. /\ PsimTypeOK /\ Overlap /\ local[t] \in Locals /\ local \in [Sim!Threads -> Locals]
      /\ Sim!Here(t, "dcas") /\ Sim!Mine(t) \in Sim!States /\ Sim!New(t) \in Sim!Records /\ Own(t)
      /\ target \in Sim!Records /\ Stored(target) /\ rec[target] \in SeqRecords
      /\ local[t].round \in {1, 2} /\ Busy(t) /\ ~Sim!Here(t, "store")
  <2>1. Sim!Here(t, "dcas")
    BY DEF Sim!Dcas
  <2>2. Busy(t) /\ ~Sim!Here(t, "toggle") /\ ~Sim!Here(t, "store")
    BY <2>1 DEF Busy, Sim!Here
  <2>3. target \in Sim!Records
    BY HasLocals, Knows
  <2>4. rec[target] \in SeqRecords
    BY <2>3, HasLocals DEF PsimTypeOK
  <2>5. QED
    BY <2>1, <2>2, <2>3, <2>4, HasLocals, NamesInRange, Knows
<1>a. UNCHANGED <<waits, announce, toggles, list, st, curr, bit, calls, want>>
  BY DEF Sim!Dcas
<1>2. CASE rec[target] # local[t].before
  <2> DEFINE pc == IF local[t].round = 1 THEN "start" ELSE "answer"
             n == [local[t] EXCEPT !.i = 0, !.round = local[t].round + 1, !.pc = pc]
  <2>1. pc \in PCs /\ local[t].round + 1 \in 0..3
    BY <1>1, Places
  <2>2. n \in Locals /\ local' = [local EXCEPT ![t] = n] /\ rec' = rec
    <3>1. local' = [local EXCEPT ![t] = n] /\ rec' = rec
      BY <1>2 DEF Sim!Dcas, Sim!Again
    <3> HIDE DEF pc
    <3>2. QED
      BY <1>1, <2>1, <3>1, LocalChanges
  <2>3. PsimTypeOK'
    BY <1>1, <1>a, <2>2, MovesTo, SameRecords DEF PsimTypeOK
  <2>4. ~waits
    BY <1>1, <1>2 DEF PsimIInv, InTurnInv, Turn, Sim!Here
  <2>5. Overlap'
    BY <1>1, <1>a, <2>2, GivesUp
  <2>6. QED
    BY <1>a, <2>3, <2>4, <2>5 DEF PsimIInv, InTurnInv
<1>3. CASE rec[target] = local[t].before
  <2>1. m \in Locals /\ local' = [local EXCEPT ![t] = m]
    BY <1>1, <1>3, LocalChanges, Places DEF Sim!Dcas, Sim!Goto
  <2>2. v \in SeqRecords /\ v.state = Sim!Mine(t) /\ rec' = [rec EXCEPT ![target] = v]
    BY <1>1, <1>3 DEF Sim!Dcas, SeqRecords
  <2>3. /\ local' \in [Sim!Threads -> Locals] /\ local'[t] = m
        /\ \A u \in Sim!Threads : u # t => local'[u] = local[u]
        /\ waits => Turn(t)
    BY <2>1, Common
  <2>4. /\ rec' \in [Sim!Records -> SeqRecords] /\ rec'[target] = v
        /\ \A r \in Sim!Records : r # target => rec'[r] = rec[r]
    <3> HIDE DEF v, target
    <3>1. QED
      BY <1>1, <2>2, RecordChange
  <2>5. /\ m.pc = "store" /\ m.i = local[t].i /\ m.old = local[t].old
        /\ m.target = local[t].target /\ m.round = local[t].round
    BY <1>1 DEF Locals
  <2> HIDE DEF m, v
  <2>6. PsimTypeOK'
    BY <1>1, <1>a, <2>3, <2>4, SameRecords DEF PsimTypeOK
  <2>7. rec'[Sim!New(t)] = rec[Sim!New(t)] /\ rec[Sim!New(t)].state = Sim!Mine(t)
    <3>1. target # Sim!New(t)
      BY <1>1, NewIsNotStored
    <3>2. rec[Sim!New(t)].state = Sim!Mine(t)
      BY <1>1 DEF Own, Sim!Here
    <3>3. QED
      BY <1>1, <2>4, <3>1, <3>2
  <2>8. Overlap'
    <3>1. \A u \in Sim!Threads : Busy(u) => Sim!New(u) # target
      BY <1>1, NewIsNotStored
    <3>2. local[t].pc = "dcas" /\ Sim!Here(t, "store")'
      BY <1>1, <2>3, <2>5 DEF Sim!Here
    <3> HIDE DEF target
    <3>3. QED
      BY <1>1, <1>a, <2>2, <2>3, <2>4, <2>5, <2>7, <3>1, <3>2, RecordStep
  <2>9. ASSUME waits PROVE InTurnInv'
    <3>1. Turn(t) /\ Sim!Mine(t)' = Sim!Mine(t)
      BY <1>a, <2>3, <2>9 DEF Sim!Mine
    <3>2. local[t].i = 0 /\ Served(t) /\ AllMarked(t) /\ target = curr
      BY <1>1, <3>1 DEF Turn, Sim!Here
    <3>3. Served(t)' /\ AllMarked(t)'
      BY <1>a, <3>1, <3>2 DEF Served, AllMarked
    <3>4. rec'[curr'].state = Sim!Mine(t)'
      BY <1>a, <2>2, <2>4, <3>1, <3>2
    <3>5. Turn(t)'
      BY <2>3, <2>5, <3>2, <3>3, <3>4 DEF Turn, Sim!Here, CopyOfCurrent
    <3>6. ~Sim!Here(t, "idle")' /\ ~Sim!Here(t, "idle")
      BY <1>1, <2>3, <2>5 DEF Sim!Here
    <3>7. QED
      BY <1>a, <2>3, <2>9, <3>5, <3>6, OneTurn
  <2>10. QED
    BY <1>a, <2>6, <2>8, <2>9 DEF PsimIInv, InTurnInv
<1>4. QED
  BY <1>2, <1>3

LEMMA StoreKeeps == ASSUME NEW t \in Sim!Threads, PsimIInv, Sim!Store(t) PROVE PsimIInv'
<1> DEFINE m == [local[t] EXCEPT !.pc = "answer"]
<1>1. /\ PsimTypeOK /\ local[t] \in Locals /\ local \in [Sim!Threads -> Locals] /\ Sim!Here(t, "store")
      /\ Sim!New(t) \in Sim!Records /\ curr' = Sim!New(t) /\ Busy(t) /\ rec[Sim!New(t)].state = Sim!Mine(t)
  <2>1. Sim!Here(t, "store") /\ curr' = Sim!New(t)
    BY DEF Sim!Store
  <2>2. Busy(t)
    BY <2>1 DEF Busy, Sim!Here
  <2>3. Own(t)
    BY HasLocals, Knows
  <2>4. QED
    BY <2>1, <2>2, <2>3, HasLocals, NamesInRange DEF Own, Sim!Here
<1>2. m \in Locals /\ local' = [local EXCEPT ![t] = m]
  BY <1>1, LocalChanges, Places DEF Sim!Store, Sim!Goto
<1>b. /\ m.pc = "answer" /\ m.i = local[t].i /\ m.old = local[t].old
      /\ m.target = local[t].target
  BY <1>1 DEF Locals
<1> HIDE DEF m
<1>3. /\ Overlap /\ local' \in [Sim!Threads -> Locals] /\ local'[t] = m
      /\ \A u \in Sim!Threads : u # t => local'[u] = local[u]
      /\ waits => Turn(t)
  BY <1>2, Common
<1>4. bit' \in [Sim!Threads -> {0, 1}] /\ bit'[t] # bit[t]
      /\ \A u \in Sim!Threads : u # t => bit'[u] = bit[u]
  <2>1. bit \in [Sim!Threads -> {0, 1}] /\ bit' = [bit EXCEPT ![t] = 1 - bit[t]]
    BY <1>1 DEF Sim!Store, PsimTypeOK
  <2>2. 1 - bit[t] \in {0, 1} /\ 1 - bit[t] # bit[t]
    BY <2>1
  <2>3. QED
    BY <2>1, <2>2
<1>a. UNCHANGED <<waits, announce, toggles, list, st, rec, calls, want>>
  BY DEF Sim!Store
<1>5. PsimTypeOK'
  BY <1>1, <1>3, <1>4, <1>a, SameRecords DEF PsimTypeOK
<1>c. Overlap'
  <2>1. ~Busy(t)' /\ ~Sim!Here(t, "apply")' /\ ~Sim!Here(t, "store")' /\ CopyIsTrue(t)'
    BY <1>3, <1>b, NoCopy DEF Busy, Sim!Here
  <2>2. \A x \in Sim!Records : Stored(x) => Stored(x)'
    BY <1>1, <1>3, <1>a, StaysStored
  <2>3. Stored(curr)'
    <3>1. Sim!New(t)[1] = t /\ Sim!New(t)[2] = calls[t]
      BY DEF Sim!New
    <3>2. QED
      BY <1>1, <1>a, <2>1, <3>1 DEF Stored
  <2>4. Sim!NextStateIsFree'
    <3>1. rec'[curr'].state = Sim!Mine(t)
      BY <1>1, <1>a
    <3>2. \A u \in Sim!Threads : Sim!Mine(t) # Sim!Mine(u)'
      BY <1>4 DEF Sim!Mine
    <3>3. QED
      BY <3>1, <3>2 DEF Sim!NextStateIsFree
  <2>5. ListsApart'
    BY <1>3, <1>a DEF Overlap, ListsApart
  <2>6. ASSUME NEW u \in Sim!Threads, u # t PROVE Own(u)'
    <3>1. /\ Own(u) /\ local'[u] = local[u] /\ local[u].old \in Sim!Records
          /\ local[u].target \in Sim!Records /\ Stored(local[u].old)
          /\ bit'[u] = bit[u]
      BY <1>1, <1>3, <1>4, <2>6, Knows
    <3>2. /\ (Busy(u)' <=> Busy(u)) /\ (Sim!Here(u, "apply")' <=> Sim!Here(u, "apply"))
          /\ Sim!Copied(u)' = Sim!Copied(u) /\ Sim!Mine(u)' = Sim!Mine(u) /\ Sim!New(u)' = Sim!New(u)
      BY <1>a, <3>1 DEF Busy, Sim!Here, Sim!Copied, Sim!Mine, Sim!New
    <3>3. curr' # local'[u].old
      BY <1>1, <3>1, NewIsNotStored
    <3>4. CopyIsTrue(u)'
      BY <3>3 DEF CopyIsTrue
    <3>5. QED
      BY <1>a, <2>2, <3>1, <3>2, <3>4 DEF Own
  <2>7. Own(t)'
    <3>1. /\ local[t].old \in Sim!Records /\ local[t].target \in Sim!Records
          /\ Stored(local[t].old) /\ Stored(local[t].target)
      BY <1>1, <1>3, Knows
    <3>2. local'[t].pc = "answer"
      BY <1>3, <1>b
    <3>3. QED
      BY <1>3, <1>b, <2>1, <2>2, <3>1, <3>2 DEF Own
  <2>8. QED
    BY <2>3, <2>4, <2>5, <2>6, <2>7 DEF Overlap
<1>6. ASSUME waits PROVE InTurnInv'
  <2>1. Turn(t)
    BY <1>3, <1>6
  <2>2. local[t].i = 0 /\ Served(t) /\ AllMarked(t)
    BY <1>1, <2>1 DEF Turn, Sim!Here
  <2>3. Sim!Current' = st[Sim!Mine(t)]
    BY <1>1, <1>a DEF Sim!Current
  <2>4. Settled' /\ (Sim!Current.rvals[t] = want.answer)'
    BY <1>a, <2>2, <2>3 DEF Settled, AllApplied, Served, AllMarked
  <2>5. Turn(t)'
    BY <1>3, <1>b, <2>2, <2>4 DEF Turn, Sim!Here, CopyOfCurrent
  <2>6. ~Sim!Here(t, "idle")' /\ ~Sim!Here(t, "idle")
    BY <1>1, <1>3, <1>b DEF Sim!Here
  <2>7. QED
    BY <1>3, <1>6, <1>a, <2>5, <2>6, OneTurn
<1>7. QED
  BY <1>5, <1>6, <1>a, <1>c DEF PsimIInv, InTurnInv

LEMMA AnswerKeeps == ASSUME NEW t \in Sim!Threads, PsimIInv, Sim!Answer(t) PROVE PsimIInv'
<1> DEFINE a == st[rec[curr].state].rvals[t]
           m == [local[t] EXCEPT !.pc = "done", !.res = a]
<1>1. /\ PsimTypeOK /\ local[t] \in Locals /\ local \in [Sim!Threads -> Locals] /\ Sim!Here(t, "answer")
      /\ Sim!Current \in StateRecords
  <2>1. Sim!Here(t, "answer")
    BY DEF Sim!Answer
  <2>2. QED
    BY <2>1, HasLocals, NamesInRange
<1>2. a \in Int
  BY <1>1, Fields DEF Sim!Current
<1>3. m \in Locals /\ local' = [local EXCEPT ![t] = m]
  <2>1. local' = [local EXCEPT ![t] = m]
    BY DEF Sim!Answer
  <2> HIDE DEF a
  <2>2. QED
    BY <1>1, <1>2, <2>1, LocalChanges, Places
<1>b. /\ m.pc = "done" /\ m.i = local[t].i /\ m.res = Sim!Current.rvals[t] /\ m.old = local[t].old
      /\ m.target = local[t].target
  BY <1>1 DEF Locals, Sim!Current
<1> HIDE DEF m
<1>4. /\ Overlap /\ local' \in [Sim!Threads -> Locals] /\ local'[t] = m
      /\ \A u \in Sim!Threads : u # t => local'[u] = local[u]
      /\ waits => Turn(t)
  BY <1>3, Common
<1>a. UNCHANGED <<waits, announce, toggles, list, st, rec, curr, bit, calls, want>>
  BY DEF Sim!Answer
<1>5. PsimTypeOK'
  BY <1>1, <1>4, <1>a, SameRecords DEF PsimTypeOK
<1>c. Overlap'
  <2>1. /\ ~Sim!Here(t, "store") /\ ~Busy(t)' /\ CopyIsTrue(t)' /\ ~Sim!Here(t, "apply")'
        /\ local'[t].pc = "done"
    BY <1>1, <1>4, <1>b, NoCopy DEF Sim!Here, Busy
  <2>2. QED
    BY <1>1, <1>4, <1>a, <1>b, <2>1, Knows, LocalStep
<1>6. ASSUME waits PROVE InTurnInv'
  <2>1. Turn(t) /\ Sim!Current' = Sim!Current
    BY <1>4, <1>6, <1>a DEF Sim!Current
  <2>2. local[t].i = 0 /\ Settled /\ Sim!Current.rvals[t] = want.answer
    BY <1>1, <2>1 DEF Turn, Sim!Here
  <2>3. Settled' /\ want' = want
    BY <1>a, <2>1, <2>2 DEF Settled, AllApplied
  <2>4. Turn(t)'
    BY <1>4, <1>b, <2>2, <2>3 DEF Turn, Sim!Here, CopyOfCurrent
  <2>5. ~Sim!Here(t, "idle")' /\ ~Sim!Here(t, "idle")
    BY <1>1, <1>4, <1>b DEF Sim!Here
  <2>6. QED
    BY <1>4, <1>6, <1>a, <2>4, <2>5, OneTurn
<1>7. QED
  BY <1>5, <1>6, <1>a, <1>c DEF PsimIInv, InTurnInv

\* The constructor's record is always stored.
LEMMA GivenIsStored ==
  ASSUME PsimIInv PROVE Stored(<<0, 0>>) /\ <<0, 0>> \in Sim!Records
<1>1. 0 \in Sim!Threads /\ calls[0] \in Nat
  BY PsimConstants, HasLocals
<1>2. Busy(0) => calls[0] >= 1
  BY <1>1 DEF PsimIInv, Overlap, Own
<1>3. Stored(<<0, 0>>)
  BY <1>1, <1>2 DEF Stored
<1>4. QED
  BY <1>3, PsimConstants

LEMMA ReturnKeeps == ASSUME NEW t \in Sim!Threads, PsimIInv, Sim!Return(t) PROVE PsimIInv'
<1>1. PsimTypeOK /\ local[t] \in Locals /\ local \in [Sim!Threads -> Locals] /\ Sim!Here(t, "done")
  <2>1. Sim!Here(t, "done")
    BY DEF Sim!Return
  <2>2. QED
    BY <2>1, HasLocals
<1>2. /\ Sim!Idle \in Locals /\ Sim!Idle.pc = "idle" /\ Sim!Idle.i = 0 /\ Sim!Idle.old = <<0, 0>>
      /\ Sim!Idle.target = <<0, 0>>
  BY PsimConstants DEF Sim!Idle, Sim!Off, Locals, PCs, SeqRecords
<1>3. local' = [local EXCEPT ![t] = Sim!Idle]
  BY DEF Sim!Return
<1>4. /\ Overlap /\ local' \in [Sim!Threads -> Locals] /\ local'[t] = Sim!Idle
      /\ \A u \in Sim!Threads : u # t => local'[u] = local[u]
      /\ waits => Turn(t)
  BY <1>2, <1>3, Common
<1>a. UNCHANGED <<waits, announce, toggles, list, st, rec, curr, bit, calls, want>>
  BY DEF Sim!Return
<1>5. PsimTypeOK'
  BY <1>1, <1>4, <1>a, SameRecords DEF PsimTypeOK
<1>c. Overlap'
  <2>1. /\ ~Sim!Here(t, "store") /\ ~Busy(t)' /\ CopyIsTrue(t)' /\ ~Sim!Here(t, "apply")'
        /\ local'[t].pc = "idle"
    BY <1>1, <1>2, <1>4, NoCopy DEF Sim!Here, Busy
  <2>2. QED
    BY <1>1, <1>2, <1>4, <1>a, <2>1, GivenIsStored, LocalStep
<1>6. ASSUME waits PROVE InTurnInv'
  <2>1. Turn(t) /\ Sim!Current' = Sim!Current
    BY <1>4, <1>6, <1>a DEF Sim!Current
  <2>2. Settled'
    <3>1. Settled
      BY <1>1, <2>1 DEF Turn, Sim!Here
    <3>2. QED
      BY <1>a, <2>1, <3>1 DEF Settled, AllApplied
  <2>3. Turn(t)'
    BY <1>2, <1>4 DEF Turn, Sim!Here, CopyOfCurrent
  <2>4. ~Sim!Here(t, "idle")
    BY <1>1 DEF Sim!Here
  <2>5. QED
    BY <1>4, <1>6, <1>a, <2>2, <2>3, <2>4, OneTurn
<1>7. QED
  BY <1>5, <1>6, <1>a, <1>c DEF PsimIInv, InTurnInv

-----------------------------------------------------------------------------
LEMMA PsimInitInvariant == Sim!Init => PsimIInv
<1> SUFFICES ASSUME Sim!Init PROVE PsimIInv
  OBVIOUS
<1>1. \A t \in Sim!Threads : /\ local[t] = Sim!Idle /\ Sim!Mine(t) = <<t, 0>> /\ calls[t] = 0
                         /\ Sim!Mine(t) \in Sim!States
  BY DEF Sim!Init, Sim!Mine, Sim!States
<1>2. Settled
  BY PsimConstants DEF Sim!Init, Settled, AllApplied, Sim!Current, Sim!Off
<1>3. /\ Sim!Idle.pc = "idle" /\ Sim!Idle.i = 0 /\ Sim!Idle.old = <<0, 0>> /\ Sim!Idle.target = <<0, 0>>
  BY DEF Sim!Idle
<1>4. InTurnInv
  BY <1>1, <1>2, <1>3 DEF InTurnInv, Alone, Quiet, Turn, Sim!Here, CopyOfCurrent
<1>5. Overlap
  <2>1. curr = <<0, 0>> /\ \A s \in Sim!States : st[s].object = Sim!Given
    BY DEF Sim!Init
  <2>2. \A t \in Sim!Threads : ~Busy(t)
    BY <1>1, <1>3 DEF Busy
  <2>3. Stored(<<0, 0>>)
    BY <1>1, <2>2, PsimConstants DEF Stored
  <2>4. Sim!NextStateIsFree /\ ListsApart
    BY <2>1 DEF Sim!NextStateIsFree, ListsApart, Sim!States
  <2>5. ASSUME NEW t \in Sim!Threads PROVE Own(t)
    BY <1>1, <1>3, <2>2, <2>3 DEF Own, CopyIsTrue, Sim!Here
  <2>6. QED
    BY <2>1, <2>3, <2>4, <2>5 DEF Overlap
<1>6. QED
  BY <1>4, <1>5, InitType DEF PsimIInv

\* The inductive invariant holds in every reachable state.
THEOREM PsimInductiveInvariant == Sim!Spec => []PsimIInv
<1>1. PsimIInv /\ [Sim!Next]_(Sim!vars) => PsimIInv'
  <2> SUFFICES ASSUME PsimIInv, [Sim!Next]_(Sim!vars) PROVE PsimIInv'
    OBVIOUS
  <2>1. ASSUME NEW t \in Sim!Threads, Sim!Step(t) PROVE PsimIInv'
    BY <2>1, AnnounceKeeps, ToggleKeeps, StartKeeps, CopyKeeps, FunctorKeeps, CallKeeps,
       CopyHeadKeeps, CopyRestKeeps, CrashKeeps, ReadKeeps, CheckKeeps, BindKeeps, ApplyKeeps,
       MarkKeeps, BeforeKeeps, TargetKeeps, DcasKeeps, StoreKeeps, AnswerKeeps, ReturnKeeps
    DEF Sim!Step
  <2>2. CASE UNCHANGED Sim!vars
    <3>1. /\ UNCHANGED <<waits, announce, toggles, list, st, rec, curr, bit, local, calls, want>>
          /\ Sim!MaxCalls' = Sim!MaxCalls /\ Sim!Records' = Sim!Records /\ Locals' = Locals
          /\ Sim!Objects' = Sim!Objects /\ StateRecords' = StateRecords
      BY <2>2, SameRecords DEF Sim!vars
    <3>2. PsimTypeOK'
      BY <3>1 DEF PsimIInv, PsimTypeOK
    <3>3. Settled' <=> Settled
      BY <3>1 DEF Settled, AllApplied, Sim!Current
    <3>4. ASSUME NEW t \in Sim!Threads PROVE Turn(t)' <=> Turn(t)
      BY <3>1, <3>3 DEF Turn, Sim!Here, Asks, OnlyMine, Served, AllMarked, AllApplied, Sim!Current, Sim!Mine,
                        Sim!New, CopyOfCurrent
    <3>5. (Alone' <=> Alone) /\ (Quiet' <=> Quiet)
      BY <3>1, <3>3 DEF Alone, Quiet, Sim!Here
    <3>6. (Stored(curr)' <=> Stored(curr)) /\ (Sim!NextStateIsFree' <=> Sim!NextStateIsFree)
      BY <3>1 DEF Stored, Busy, Sim!NextStateIsFree, Sim!Mine, Sim!Here
    <3>7. (ListsApart' <=> ListsApart) /\ \A t \in Sim!Threads : Own(t)' <=> Own(t)
      BY <3>1 DEF ListsApart, Own, Busy, Stored, Sim!New, Sim!Mine, Sim!Copied, Sim!Here, CopyIsTrue
    <3>8. QED
      BY <3>1, <3>2, <3>4, <3>5, <3>6, <3>7 DEF PsimIInv, InTurnInv, Overlap
  <2>3. QED
    BY <2>1, <2>2 DEF Sim!Next, Sim!Terminating
<1>2. QED
  BY PsimInitInvariant, <1>1, PTL DEF Sim!Spec

\* The variables of Psim keep their types, in whatever way the calls overlap.
THEOREM TypeCorrect == Sim!Spec => []PsimTypeOK
<1>1. PsimIInv => PsimTypeOK
  BY DEF PsimIInv
<1>2. QED
  BY <1>1, PsimInductiveInvariant, PTL

\* Calls that do not overlap act like calls of the sequential stack: the
\* current list is what they give, and the answer is the one they give.
THEOREM CallsInTurnAreSequential == Sim!Spec => []Sim!InTurnIsSequential
<1>1. PsimIInv => Sim!InTurnIsSequential
  <2> SUFFICES ASSUME PsimIInv, waits, NEW t \in Sim!Threads, Sim!Here(t, "done")
               PROVE  list[Sim!Current.object] = want.list /\ local[t].res = want.answer
    BY DEF Sim!InTurnIsSequential, Sim!Returning
  <2>1. Turn(t)
    BY DEF PsimIInv, InTurnInv
  <2>2. QED
    BY <2>1 DEF Turn, Settled, Sim!Here
<1>2. QED
  BY <1>1, PsimInductiveInvariant, PTL

\* However calls overlap, the state a thread will write next is not the
\* current one, once the constructor's record has been left.
THEOREM NextStateStaysFree == Sim!Spec => []Sim!NextStateIsFree
<1>1. PsimIInv => Sim!NextStateIsFree
  BY DEF PsimIInv, Overlap
<1>2. QED
  BY <1>1, PsimInductiveInvariant, PTL

\* However calls overlap, a copy that passes Attempt's check is a true one, and
\* none crashes while the record it was begun with is current.
THEOREM CheckedCopiesAreTrue == Sim!Spec => []Sim!CheckedCopyIsTrue
<1>1. PsimIInv => Sim!CheckedCopyIsTrue
  <2> SUFFICES ASSUME PsimIInv, NEW t \in Sim!Threads, curr = local[t].old, curr # <<0, 0>>
               PROVE  /\ Sim!Here(t, "check") => local[t].copy = list[st[local[t].from].object]
                      /\ ~Sim!Here(t, "crashed")
    BY DEF Sim!CheckedCopyIsTrue
  <2>1. CopyIsTrue(t)
    BY DEF PsimIInv, Overlap, Own
  <2>2. QED
    BY <2>1 DEF CopyIsTrue, Sim!Here
<1>2. QED
  BY <1>1, PsimInductiveInvariant, PTL
=============================================================================
