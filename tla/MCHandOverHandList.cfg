SPECIFICATION FairSpec
CONSTANTS
  t1 = t1  t2 = t2
  Null = Null  Wild = Wild
  Empty = Empty
  NoThread = NoThread
  Threads = {t1, t2}
  Values = {1, 2, 3}
  Nodes = {1, 2, 3, 4}
  FreshNext = {Null, Wild}
  Prefill = {1, 2}
  MaxCalls = 2
INVARIANTS ListIsSound ReadersWereTrue
PROPERTIES RefinesSortedSet EveryCallReturns
