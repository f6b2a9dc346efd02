SPECIFICATION RenameSpec
CONSTANTS
  Reg = {0, 1}
  Addr = {0, 4, 8}
  Value = {0}
  VLen = {0}
  RobSize = 3
  TagLimit = 4
  Decoded <- MCDecoded
  Outcome <- MCOutcome
INVARIANTS
  RenameTypeOK
  TagsOrdered
  RatYoungest
  VecTagYoungest
  ResolvedInOrder
PROPERTY
  VsetsForgottenByFlush
CHECK_DEADLOCK FALSE
