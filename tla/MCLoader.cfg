SPECIFICATION MCSpec
CONSTANTS
  MEM_SIZE = 4
  AddrMod = 16
  Files <- SmallFiles
  WordMod = 256
  Text <- Words
  Dumps <- SmallDumps
  Keys <- ConfigKeys
  Default <- Defaults
  Accepts <- Accepted
  Contents <- SmallContents
  Absent = absent
  BadType = badtype
INVARIANTS
  LoaderTypeOK
  CopiesInBounds
  ImageIsOverlay
  ListsCode
  ConfigOfFile
CHECK_DEADLOCK FALSE
