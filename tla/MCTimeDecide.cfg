SPECIFICATION Spec
CONSTANTS
  t1 = t1  t2 = t2  e1 = e1  e2 = e2  e3 = e3  g1 = g1  h1 = h1  h2 = h2  h3 = h3
  Technicians <- TwoTechs
  Entries = {e1, e2}
  Spans <- OneShift
  Grants <- OneGrant
  Holder <- HeldByFirst
  Window <- WholeDay
  MaxMinutes <- TwoUnits
  Handlers <- TwoHandlers
  Endpoints = {"clock", "create", "submit", "decide", "list", "overtime", "cancel"}
  NoGrant = NoGrant
SYMMETRY Symmetry
INVARIANT DecisionRecorded
INVARIANT PendingEntryIsDecidable
CHECK_DEADLOCK FALSE
