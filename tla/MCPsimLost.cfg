SPECIFICATION Spec
CONSTANTS
  NThreads = 2
  Funcs = {"add"}
  InTurn = 0
  Together = 2
INVARIANT AllAddsAreKept
