\* Two clients that change the same ports to contents HAProxy accepts; nothing fails.
SPECIFICATION Spec
CONSTANTS
  p1 = p1
  p2 = p2
  h1 = h1
  h2 = h2
  Ports = {p1, p2}
  Handlers = {h1, h2}
  Configs = {a, b}
  BadConfigs = {}
  None = None
  Empty = Empty
  Torn = Torn
  Manages <- EveryPort
  MaxRequests = 4
  MaxFaults = 0
  MaxFileFaults = 0
  MaxTornWrites = 0
  MaxCrashes = 0
INVARIANTS
  ServedIsOnDisk
CHECK_DEADLOCK FALSE
