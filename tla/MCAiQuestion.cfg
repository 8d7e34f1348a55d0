SPECIFICATION Spec
CONSTANTS
  r1 = r1  r2 = r2  h1 = h1  h2 = h2
  Requests <- TwoRequests
  Text <- SameText
  Handlers <- OneHandler
  Limit = 1
  Providers = 2
  MaxRounds = 1
  Months = 0
  Endpoints = {}
  NoRequest = NoRequest  NoHandler = NoHandler
INVARIANT QuestionIsAsked
CHECK_DEADLOCK FALSE
