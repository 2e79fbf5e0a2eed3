\* Two concurrent resumes of a failed job.
SPECIFICATION Spec
CONSTANTS
  Table <- ShortTable
  Specs <- OneSpec
  Passwords <- OnePassword
  ResumePasswords <- NoneSupplied
  Jobs = {j1}
  p1 = p1
  p2 = p2
  NoPassword = NoPassword
  Handlers = {h1, h2}
  Executors = {x1, x2}
  MaxResumes = 2
  MaxRollbacks = 0
  MaxFaults = 0
  MaxCrashes = 0
INVARIANTS
  OneExecutorPerJob
CHECK_DEADLOCK FALSE
