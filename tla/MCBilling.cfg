SPECIFICATION FairSpec
CONSTANTS
  h1 = h1  h2 = h2  x1 = x1  x2 = x2
  Txns = {x1, x2}
  Handlers = {h1, h2}
  MaxTerm = 2
  MaxRenewals = 1
  MaxCrashes = 1
  None = None
INVARIANT PaysOnce
INVARIANT RecordedIsApplied
PROPERTY EveryPaymentIsApplied
CHECK_DEADLOCK FALSE
CONSTRAINT Untouched
