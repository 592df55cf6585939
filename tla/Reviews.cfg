SPECIFICATION Spec
CONSTANTS
  None = None
  RotateAt = 2
  Failures = {"unwritten", "unsynced", "short", "unended"}
  Tiers = {1, 2}
  ApiFails = TRUE
  LastDay = 2
  MaxAsks = 2
  MaxWritten = 5
  MaxFailures = 1
  MaxRestarts = 1
INVARIANTS TypeOK KeepsWindow OneWake StreakCountsDays RaiseReachesGate
CHECK_DEADLOCK FALSE
