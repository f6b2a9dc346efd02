SPECIFICATION MixSpec
CONSTANTS
  ByteBase = 2
  MemSize = 5
  Lanes = 2
  LsqSize = 3
  LsuCount = 2
  Access <- AllAccesses
  Address = {0, 1}
  Datum <- AllData
  Length = {1, 2}
  Producer = {9}
  TagLimit = 3
INVARIANTS
  LsqTypeOK
  UnitsServeQueue
  NoLoadPassesUnknown
  LoadsSeeOlderStores
PROPERTY
  AccessesLeave
CHECK_DEADLOCK FALSE
