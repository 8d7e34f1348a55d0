SPECIFICATION Spec
CONSTANTS
  j1 = j1  t1 = t1  t2 = t2
  s1 = s1  s2 = s2  s3 = s3  e1 = e1  r1 = r1  h1 = h1  h2 = h2
  Jobs <- OneJob
  Technicians <- OneTech
  Office = Office
  Sessions = {s1}
  Events = {}
  Records = {r1}
  AuditWindow = 1
  Handlers <- TwoHandlers
  Endpoints = {"schedule", "dispatch", "clock", "capture", "submit"}
  NoJob = NoJob
  NoEvent = NoEvent
  TeamJobs = {}
  PlannedJobs <- OneJob
  SafetyJobs = {}
  SignOffJobs = {}
  Crew <- FullCrew
  ManualWork = {}
PROPERTY EvidenceLocked
CHECK_DEADLOCK FALSE
