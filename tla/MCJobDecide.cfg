SPECIFICATION Spec
CONSTANTS
  j1 = j1  t1 = t1  t2 = t2
  s1 = s1  s2 = s2  s3 = s3  e1 = e1  r1 = r1  h1 = h1  h2 = h2
  Jobs <- OneJob
  Technicians <- OneTech
  Office = Office
  Sessions = {s1, s2, s3}
  Events = {e1}
  Records = {}
  AuditWindow = 1
  Handlers <- TwoHandlers
  Endpoints = {"schedule", "dispatch", "clock", "capture", "submit", "decide", "list", "cancel"}
  NoJob = NoJob
  NoEvent = NoEvent
  TeamJobs = {}
  PlannedJobs <- OneJob
  SafetyJobs = {}
  SignOffJobs = {}
  Crew <- FullCrew
  ManualWork = {}
SYMMETRY Symmetry
INVARIANT NoWorkOnSubmittedJob
INVARIANT SubmittedJobIsDecidable
INVARIANT DecisionAgrees
INVARIANT OneOpenSession
INVARIANT ClockOutOncePerEvent
PROPERTY FollowsWorkflow
PROPERTY ClosedSessionsAreFinal
CHECK_DEADLOCK FALSE
