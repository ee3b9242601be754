SPECIFICATION FairSpec
CONSTANTS
  NThreads = 3
  Actions = 7
  Suites <- FullAndHalf
  MaxCount = 2
INVARIANTS TestsLeaveTheirShare SumIsWhole FirstSleepIsUsed
PROPERTY EveryTestEnds
