SPECIFICATION FairSpec
CONSTANTS
  None = None  Torn = Torn
  Key = Key  Owner = Owner  Other = Other
  Tokens = {t1, t2, t3, t4, t5, t6}
  Shipped = {"standard", "rehearsal"}
  Edited = {"edited"}
  Admitting = {"rehearsal", "edited"}
  Notices = {1, 2}
  Addresses = {"here", "there"}
  Options <- McOptions
  MaxFaults = 2
CHECK_DEADLOCK FALSE
INVARIANTS TypeOK GreenAfterInit
PROPERTIES OnlyByConsent FixesConverge
