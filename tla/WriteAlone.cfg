SPECIFICATION Spec
CONSTANTS
  c1 = c1  c2 = c2  loop = loop
  Callers = {c1}
  Loop = loop
  Cap = 1
  MaxAttempts = 3
  StartPaused = FALSE
  Faults = {"unsynced"}
  ReadFails = TRUE
  Drifts <- AnyDrift
  MaxStarts = 2
  MaxCrashes = 1
PROPERTY RestartKeepsHold
CHECK_DEADLOCK FALSE
