SPECIFICATION Spec
CONSTANTS
  c1 = c1  c2 = c2  loop = loop
  Callers = {c1, c2}
  Loop = loop
  Cap = 1
  MaxAttempts = 2
  StartPaused = FALSE
  Faults = {"unwritten"}
  ReadFails = FALSE
  Drifts <- NoDrift
  MaxStarts = 5
  MaxCrashes = 0
SYMMETRY Symmetry
INVARIANTS TypeOK LedgerCoversFile DepositBound RateBound
CHECK_DEADLOCK FALSE
