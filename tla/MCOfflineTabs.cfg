SPECIFICATION Spec
CONSTANTS
  j1 = j1  tab1 = tab1  tab2 = tab2
  Ops = {1, 2}
  Tabs <- TwoTabs
  Jobs = {j1}
  JobOf <- AllOnOneJob
  MaxRetries = 2
  MaxIncidents = 0
  MaxLate = 1
  NoJob = NoJob
  None = None
SYMMETRY Symmetry
INVARIANT AppliedOnce
INVARIANT AcknowledgedIsStored
INVARIANT SessionsEndLater
CHECK_DEADLOCK FALSE
