SPECIFICATION Spec
CONSTANTS
  CategoryOf <- McCategory
  StablePools = "stable"
  Callers = {c1, c2}
  Candidates <- McCandidates
  FirstBook <- McBook
  NoShares = {"a"}
  Policies <- McPolicies
  Good <- McGood
  Variants <- McVariants
  Answers <- McAnswers
  Notice = 1
  RolledWindow = 4
  MaxNow = 7
  MaxLanded = 2
  MaxFaults = 2
  FaultsUntil = 2
  BaseUnits = 2
  Whole = 20
  Tolerance = 2
  Vaults <- McVaults
  Holdings <- McHoldings
  Amounts <- McAmounts
SYMMETRY AnyCaller
CHECK_DEADLOCK FALSE
INVARIANTS TypeOK GateFollowsVerdict QuotaBound HoldEnds InitAgrees AmountsAddUp
