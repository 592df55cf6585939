SPECIFICATION Spec
CONSTANTS
  PageLegs = 2
  ComputeCap = 10
  MicroLamports = 10
  DefaultUnits = 4
  AllocatorPinned = TRUE
  Intents <- McIntents
  Offers <- McOffers
  Honest <- McHonests
  Books <- McBooks
  Quotes <- McQuotes
  MaxResign = 2
  MaxTx = 3
  MaxDeployments = 2
  Scripted = TRUE
CHECK_DEADLOCK FALSE
INVARIANT OneBook
