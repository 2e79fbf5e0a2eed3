\* Two jobs deployed on the same nodes.
SPECIFICATION Spec
CONSTANTS
  Table <- ShortTable
  Specs <- OneSpec
  Passwords <- OnePassword
  DeploySecrets <- FirstSecret
  ResumeSecrets <- NoneSupplied
  p1 = p1
  p2 = p2
  NoPassword = NoPassword
  NoJob = NoJob
  Jobs = {j1, j2}
  Handlers = {h1}
  Executors = {x1, x2}
  MaxResumes = 1
  MaxFaults = 0
  MaxSecretFaults = 0
  MaxCrashes = 0
INVARIANTS
  ResetOncePerJob
CHECK_DEADLOCK FALSE
