SPECIFICATION Spec
CONSTANTS
  None = None
  a = a  b = b  c1 = c1  c2 = c2
  ArmBefore = 1
  Window = 1
  RefreshAfter = 1
  FailedTicks = 2
  InFlightMax = 2
  CustodyRetries = 1
  EscalateAfter <- EscalateOverdue
  Clients = {c1}
  TargetSets = {a, b}
  Notice = 2
  Lag = 0
  Lifetime = 0
  MaxSends = 2
  SendErrors <- OtherCodes
  Conditions = {}
  Holds = {"paused", "locked"}
  RowFails = FALSE
  Vacuous = FALSE
  RowLags = TRUE
  Horizon = 4
  LastPropose = 2
  MaxFaults = 1
PROPERTIES LandsAsGated TickTracksChain
CHECK_DEADLOCK FALSE
