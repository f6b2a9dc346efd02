SPECIFICATION MCSpec
CONSTANTS
  ExpBits = 4
  FracBits = 2
  DoubleBits = 8
INVARIANTS
  NearestIsCorrect
  DirectedIsCorrect
  Faithful
  InvalidIsNan
  ConversionSaturates
  OrderIsOne
  ClassAgrees
CHECK_DEADLOCK FALSE
