\* One job on its nodes, one request at a time; failed and torn files, a crash.
SPECIFICATION Spec
CONSTANTS
  Table <- FullTable
  Specs <- AllSpecs
  Passwords <- TwoPasswords
  DeploySecrets <- FirstSecret
  ResumeSecrets <- SomeSupplied
  p1 = p1
  p2 = p2
  NoPassword = NoPassword
  NoJob = NoJob
  Jobs = {j1}
  Handlers = {h1}
  Executors = {x1, x2}
  MaxResumes = 3
  MaxFaults = 1
  MaxSecretFaults = 1
  MaxCrashes = 1
INVARIANTS
  TypeOK
  ResetOncePerJob
PROPERTIES
  NodesGetStoredPasswords
  CompletedClusterIsUsable
  ImplementsLifecycle
CHECK_DEADLOCK FALSE
