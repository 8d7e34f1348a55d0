SPECIFICATION Spec
CONSTANTS
  t1 = t1  t2 = t2  e1 = e1  e2 = e2  e3 = e3  g1 = g1  h1 = h1  h2 = h2  h3 = h3
  Technicians <- OneTech
  Entries = {e1, e2, e3}
  Spans <- OverlappingShifts
  Grants <- OneGrant
  Holder <- HeldByFirst
  Window <- WholeDay
  MaxMinutes <- TwoUnits
  Handlers <- TwoHandlers
  Endpoints = {"clock", "create", "edit", "submit", "decide", "overtime", "cancel"}
  NoGrant = NoGrant
SYMMETRY Symmetry
INVARIANT CapPerRequest
INVARIANT BookedPerRequest
INVARIANT OvertimeWasApproved
PROPERTY GrantDecidedOnce
PROPERTY SettledTimeIsFinal
CHECK_DEADLOCK FALSE
