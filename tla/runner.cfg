\* Two runs one after the other, of three tasks on two hosts.
SPECIFICATION FairSpec
CONSTANTS
  Hosts = {a, b}
  Tasks = 3
  WorkersHoldPipes = TRUE
  MaxRuns = 2
INVARIANTS
  TypeOK
  WorkspaceLastsAsLongAsTheRun
PROPERTIES
  ImplementsStepRun
  RunsEnd
CHECK_DEADLOCK FALSE
