SPECIFICATION FairSpec
CONSTANTS
  r1 = r1  r2 = r2  h1 = h1  h2 = h2
  Requests <- TwoRequests
  Text <- SameText
  Handlers <- OneHandler
  Limit = 1
  Providers = 2
  MaxRounds = 1
  Months = 1
  Endpoints = {"summary", "delete"}
  NoRequest = NoRequest  NoHandler = NoHandler
INVARIANT WithinAllowance
PROPERTY EveryTurnEnds
CHECK_DEADLOCK FALSE
