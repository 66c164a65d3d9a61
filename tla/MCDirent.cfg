SPECIFICATION DirSpec
CONSTANTS
  Directories <- SmallDirectories
  PATH_MAX = 3
  MaxCalls = 5
  NULL = NULL
INVARIANTS DirInv EachEntryOnce ScandirExact
PROPERTY DirCallsReturn
CHECK_DEADLOCK FALSE
