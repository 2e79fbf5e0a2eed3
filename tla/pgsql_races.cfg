\* One job, two requests at a time, every fault, scheduled fairly.
SPECIFICATION FairSpec
CONSTANTS
  Table <- ConfigTable
  Specs <- OneSpec
  Passwords <- OnePassword
  DeploySecrets <- FirstSecret
  ResumeSecrets <- NoneSupplied
  p1 = p1
  p2 = p2
  NoPassword = NoPassword
  NoJob = NoJob
  Jobs = {j1}
  Handlers = {h1, h2}
  Executors = {x1, x2}
  MaxResumes = 3
  MaxFaults = 1
  MaxSecretFaults = 1
  MaxCrashes = 1
INVARIANTS
  PersistedProgressIsReal
  CompletedJobsSettledEveryStep
PROPERTIES
  RunningJobsEnd
CHECK_DEADLOCK FALSE
