SPECIFICATION Spec
CONSTANTS
  h1 = h1  h2 = h2  x1 = x1  x2 = x2
  Txns = {x1, x2}
  Handlers = {h1, h2}
  MaxTerm = 2
  MaxRenewals = 1
  MaxCrashes = 1
  None = None
CHECK_DEADLOCK FALSE
PROPERTY PaidIsNotVoided
