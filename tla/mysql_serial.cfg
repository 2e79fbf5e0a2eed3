\* One request at a time and no rollback, with failed writes and reads and a crash.
SPECIFICATION Spec
CONSTANTS
  Table <- FullTable
  Specs <- AllSpecs
  Passwords <- TwoPasswords
  ResumePasswords <- Supplied
  Jobs = {j1}
  p1 = p1
  p2 = p2
  NoPassword = NoPassword
  Handlers = {h1}
  Executors = {x1, x2}
  MaxResumes = 3
  MaxRollbacks = 0
  MaxFaults = 2
  MaxCrashes = 1
INVARIANTS
  TypeOK
  ResumeStandsOnItsSteps
  OneExecutorPerJob
  FailureNamesTheNextStep
  ProgressCountsApplicableSteps
PROPERTIES
  AdminPasswordStoredFirst
  CompletedMeansInPlace
  ImplementsLifecycle
CHECK_DEADLOCK FALSE
