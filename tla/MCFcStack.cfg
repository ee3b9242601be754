SPECIFICATION FairSpec
CONSTANTS
  t1 = t1  t2 = t2  t3 = t3
  NULL = NULL
  Threads = {t1, t2, t3}
  Structs = {"S"}
  Arguments <- PushAndPop
  RoundMax = 3
  MaxCalls = 3
INVARIANTS OneCombiner ListIsWhole
PROPERTIES RefinesCombined EveryCallReturns
