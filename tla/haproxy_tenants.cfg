\* Two clients with a port each; contents HAProxy refuses, failed reloads,
\* a failed rename or removal, a torn write, a crash.
SPECIFICATION Spec
CONSTANTS
  p1 = p1
  p2 = p2
  h1 = h1
  h2 = h2
  Ports = {p1, p2}
  Handlers = {h1, h2}
  Configs = {a, bad}
  BadConfigs = {bad}
  None = None
  Empty = Empty
  Torn = Torn
  Manages <- OnePortEach
  MaxRequests = 4
  MaxFaults = 2
  MaxFileFaults = 1
  MaxTornWrites = 1
  MaxCrashes = 1
INVARIANTS
  TypeOK
  RestIsServable
  OldConfigIsAtHand
PROPERTIES
  ImplementsTable
CHECK_DEADLOCK FALSE
