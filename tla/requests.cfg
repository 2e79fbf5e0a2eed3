\* One job of either engine, every kind of request, resumed as often as it fails.
SPECIFICATION Spec
CONSTANTS
  none = none
  word = word
  other = other
  junk = junk
  a = a
  b = b
  Cores <- AllCores
  NoCore = none
  Matching <- MatchingCores
  Addresses <- AddressCores
  DefaultName = word
  Requests <- AllRequests
  Given <- Passwords
INVARIANTS
  TypeOK
  StoredRequestIsFinal
  AppAccountIsAsAsked
CHECK_DEADLOCK FALSE
