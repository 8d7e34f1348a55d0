SPECIFICATION Spec
CONSTANTS
  j1 = j1  tab1 = tab1  tab2 = tab2
  Ops = {1, 2}
  Tabs <- OneTab
  Jobs = {j1}
  JobOf <- AllOnOneJob
  MaxRetries = 2
  MaxIncidents = 0
  MaxLate = 1
  NoJob = NoJob
  None = None
INVARIANT NotesOnce
CHECK_DEADLOCK FALSE
