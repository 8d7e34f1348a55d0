SPECIFICATION Spec
CONSTANTS
  r1 = r1  r2 = r2  h1 = h1  h2 = h2
  Requests <- TwoRequests
  Text <- SameText
  Handlers <- TwoHandlers
  Limit = 1
  Providers = 2
  MaxRounds = 1
  Months = 0
  Endpoints = {"summary", "delete"}
  NoRequest = NoRequest  NoHandler = NoHandler
SYMMETRY HandlerSymmetry
INVARIANT TypeOK
INVARIANT OneWorker
INVARIANT ToldTheTruth
INVARIANT AnsweredIffDone
PROPERTY FencedWrites
PROPERTY KeepsAccount
CHECK_DEADLOCK FALSE
