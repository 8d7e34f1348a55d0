SPECIFICATION FairSpec
CONSTANTS
  f1 = f1  f2 = f2  l1 = l1  l2 = l2  h1 = h1  h2 = h2
  Records <- TwoFiles
  Logos <- NoLogos
  Size <- Sizes
  Limit = 2
  Handlers <- TwoHandlers
  NoKey = NoKey  NoHandler = NoHandler
PROPERTY EveryRequestEnds
CHECK_DEADLOCK FALSE
