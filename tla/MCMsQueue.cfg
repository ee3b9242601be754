SPECIFICATION FairTraversalSpec
CONSTANTS
  t1 = t1  t2 = t2
  n1 = n1  n2 = n2  n3 = n3
  v1 = v1  v2 = v2
  Null = Null
  Empty = Empty
  Threads = {t1, t2}
  Values = {v1, v2}
  Nodes = {n1, n2, n3}
  MaxCalls = 2
ACTION_CONSTRAINT FirstThingsFirst
INVARIANTS ListIsSound SizeCountsOneWalk EmptyDrains FindAnswersRemoved
PROPERTIES ListIsWriteOnce RefinesFifo EveryCallReturnsButFind
