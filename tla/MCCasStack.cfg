SPECIFICATION FairSpec
CONSTANTS
  t1 = t1  t2 = t2
  n1 = n1  n2 = n2
  v1 = v1  v2 = v2
  Null = Null
  Empty = Empty
  Kinds = {"lfStack", "If_Stack_new", "AtomicStack"}
  Threads = {t1, t2}
  Values = {v1, v2}
  Nodes = {n1, n2}
  MaxCalls = 3
INVARIANTS StackIsSound WalkIsSnapshot
PROPERTIES RefinesLifo EveryCallReturns
