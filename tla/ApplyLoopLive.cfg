SPECIFICATION FairSpec
CONSTANTS
  None = None
  a = a  b = b  c1 = c1  c2 = c2
  ArmBefore = 1
  Window = 1
  RefreshAfter = 1
  FailedTicks = 2
  InFlightMax = 2
  CustodyRetries = 1
  EscalateAfter <- EscalateOverdue
  Clients = {c1}
  TargetSets = {a, b}
  Notice = 3
  Lag = 1
  Lifetime = 0
  MaxSends = 2
  SendErrors <- Codes
  Conditions = {}
  Holds = {}
  RowFails = FALSE
  Vacuous = FALSE
  RowLags = FALSE
  Horizon = 5
  LastPropose = 0
  MaxFaults = 1
PROPERTY EventuallySettled
CHECK_DEADLOCK FALSE
