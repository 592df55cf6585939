SPECIFICATION Spec
CONSTANTS
  None = None
  a = a  b = b  c1 = c1  c2 = c2
  ArmBefore = 1
  Window = 1
  RefreshAfter = 1
  FailedTicks = 2
  InFlightMax = 2
  CustodyRetries = 1
  EscalateAfter <- EscalateOverdue
  Clients = {c1}
  TargetSets = {a, b}
  Notice = 2
  Lag = 1
  Lifetime = 0
  MaxSends = 1
  SendErrors <- Codes
  Conditions = {"BOOK_NOT_FRESH"}
  Holds = {}
  RowFails = FALSE
  Vacuous = TRUE
  RowLags = FALSE
  Horizon = 4
  LastPropose = 1
  MaxFaults = 1
INVARIANT TypeOK
PROPERTIES HeldForOperator DoneMeansMoved
CHECK_DEADLOCK FALSE
