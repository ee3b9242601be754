SPECIFICATION FairSpec
CONSTANTS
  t1 = t1  t2 = t2
  Threads = {t1, t2}
  Capacity <- TwoSlots
  MaxCalls = 4
INVARIANT RingIsSound
PROPERTIES SizeIsHonest RefusalsAreHonest EveryCallReturns
