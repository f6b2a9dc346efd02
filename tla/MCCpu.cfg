SPECIFICATION WorkloadSpec
CONSTANTS
  ByteBase = 4
  MemSize = 8
  Lanes = 4
  WordBits = 8
  ExpBits = 3
  FracBits = 4
  DoubleBits = 12
  VectorBits = 32
  Reg = {0, 1, 2, 3}
  RobSize = 4
  TableSize = 2
  TagLimit = 40
  Programs <- AllPrograms
  Configs <- EveryConfig
  Images <- AllImages
INVARIANTS
  CpuTypeOK
  LsqMirrorsRob
  OneHome
  WaitsForOlder
PROPERTIES
  KeepsToRename
  ImplementsMachine
CHECK_DEADLOCK FALSE
