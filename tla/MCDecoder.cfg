SPECIFICATION Spec
INVARIANTS
  DecodesEncodings
  AcceptsOnlyEncodings
  DecodedMatchesTables
CHECK_DEADLOCK FALSE
