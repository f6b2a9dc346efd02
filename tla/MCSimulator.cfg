SPECIFICATION SimFairSpec
CONSTANTS
  MEM_SIZE = 11
  WORD_BYTES = 4
  NUM_REGISTERS = 2
  Invocations <- MixedRuns
  OldResults <- FilesOfResults
  MaxRuns = 2
  MaxEvents = 2
INVARIANTS
  SimTypeOK
  HeaderOnce
  FocusOnALine
PROPERTIES
  QuitQuits
  HeadlessReports
CHECK_DEADLOCK FALSE
