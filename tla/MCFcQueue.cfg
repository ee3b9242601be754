SPECIFICATION Spec
CONSTANTS
  t1 = t1  t2 = t2  t3 = t3
  NULL = NULL
  Threads = {t1, t2, t3}
  Structs = {"enqueue", "dequeue"}
  Arguments <- BothEnds
  RoundMax = 1
  MaxCalls = 3
  Prefill <- TwoElements
SYMMETRY Symmetry
INVARIANT CrashOnlyAfterClash
PROPERTY CombinesUntilClash
