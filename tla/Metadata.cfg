SPECIFICATION FairSpec
CONSTANTS
  None = None
  c1 = c1  stamp = stamp  t0 = t0  t1 = t1
  Keys <- AlertKeys
  Realert = 1
  Callers = {c1}
  Stamp = stamp
  Texts = {t0, t1}
  Published = {t1}
  RetryMax = 2
  AlertAfter = 2
  Edits <- EditedDocs
  MaxFaults = 2
INVARIANT TypeOK
PROPERTIES NoLostEdit StampHeld StampedMeansCarried EventuallyStamped LowSolHeard
