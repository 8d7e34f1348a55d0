SPECIFICATION FairSpec
CONSTANTS
  m1 = m1  w1 = w1  w2 = w2
  Rows = {m1}
  Workers = {w1, w2}
  Lease = 1
  SafeRetry = 2
  KeyLife = 4
  MaxStall = 2
  MaxCrashes = 1
  NoWorker = NoWorker
  NotYet = NotYet
INVARIANT NoDoubleMail
PROPERTY EveryMailSettles
CHECK_DEADLOCK FALSE
