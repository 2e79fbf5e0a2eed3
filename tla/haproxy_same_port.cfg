\* Two clients change one port; HAProxy refuses what they ask for.
SPECIFICATION Spec
CONSTANTS
  p1 = p1
  p2 = p2
  h1 = h1
  h2 = h2
  Ports = {p1, p2}
  Handlers = {h1, h2}
  Configs = {bad}
  BadConfigs = {bad}
  None = None
  Empty = Empty
  Torn = Torn
  Manages <- SamePort
  MaxRequests = 2
  MaxFaults = 0
  MaxFileFaults = 0
  MaxTornWrites = 0
  MaxCrashes = 0
INVARIANTS
  RestIsServable
CHECK_DEADLOCK FALSE
