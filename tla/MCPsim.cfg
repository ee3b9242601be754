SPECIFICATION Spec
CONSTANTS
  NThreads = 2
  Funcs = {"add", "remove"}
  InTurn = 3
  Together = 3
INVARIANTS InTurnIsSequential NextStateIsFree CheckedCopyIsTrue
