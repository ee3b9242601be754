SPECIFICATION FairSpec
CONSTANTS
  t1 = t1  t2 = t2
  Threads = {t1, t2}
  Keys = {2, 3}
  KeyMax = 4
  Built <- ThreeKeys
  MaxCalls = 2
INVARIANTS TreeIsSound RetiredOnce
PROPERTIES NodesChangeUnderFlag RefinesKeySet EveryCallReturns
