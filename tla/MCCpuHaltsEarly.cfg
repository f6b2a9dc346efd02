SPECIFICATION CpuFairSpec
CONSTANTS
  ByteBase = 4
  MemSize = 8
  Lanes = 4
  WordBits = 8
  ExpBits = 3
  FracBits = 4
  DoubleBits = 12
  VectorBits = 32
  Reg = {0, 1, 2, 3}
  RobSize = 4
  TableSize = 2
  TagLimit = 40
  Programs <- EndsInBranch
  Configs <- DefaultPredictor
  Images <- Zeros
INVARIANTS
  HaltsAtEnd
CHECK_DEADLOCK FALSE
