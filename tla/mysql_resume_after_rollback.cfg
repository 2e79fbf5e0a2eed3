\* A resume after a rollback that failed.
SPECIFICATION Spec
CONSTANTS
  Table <- ShortTable
  Specs <- OneSpec
  Passwords <- OnePassword
  ResumePasswords <- NoneSupplied
  Jobs = {j1}
  p1 = p1
  p2 = p2
  NoPassword = NoPassword
  Handlers = {h1}
  Executors = {x1, x2}
  MaxResumes = 2
  MaxRollbacks = 1
  MaxFaults = 0
  MaxCrashes = 0
INVARIANTS
  ResumeStandsOnItsSteps
CHECK_DEADLOCK FALSE
