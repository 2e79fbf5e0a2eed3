\* Concurrent requests, a rollback beside executors, a failed write or read, a crash.
SPECIFICATION FairSpec
CONSTANTS
  Table <- ShortTable
  Specs <- OneSpec
  Passwords <- OnePassword
  ResumePasswords <- NoneSupplied
  Jobs = {j1}
  p1 = p1
  p2 = p2
  NoPassword = NoPassword
  Handlers = {h1, h2}
  Executors = {x1, x2}
  MaxResumes = 1
  MaxRollbacks = 1
  MaxFaults = 1
  MaxCrashes = 1
INVARIANTS
  PersistedProgressIsReal
  CompletedJobsSettledEveryStep
PROPERTIES
  RunningJobsEnd
CHECK_DEADLOCK FALSE
