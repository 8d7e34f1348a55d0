SPECIFICATION Spec
CONSTANTS
  t1 = t1  t2 = t2  e1 = e1  e2 = e2  e3 = e3  g1 = g1  h1 = h1  h2 = h2  h3 = h3
  Technicians <- OneTech
  Entries = {e1}
  Spans <- TwoShifts
  Grants <- NoGrants
  Holder <- HeldByFirst
  Window <- WholeDay
  MaxMinutes <- TwoUnits
  Handlers <- TwoHandlers
  Endpoints = {"create", "edit", "submit", "decide"}
  NoGrant = NoGrant
SYMMETRY Symmetry
PROPERTY ApprovedHoursStand
CHECK_DEADLOCK FALSE
