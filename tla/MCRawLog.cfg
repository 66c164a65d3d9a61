SPECIFICATION Spec
CONSTANTS
  t1 = t1
  t2 = t2
  t3 = t3
  NULL = NULL
  Threads = {t1, t2}
  kLogBufSize = 4
  PrefixSizes = {1, 4, 5}
  MessageSizes <- McMessageSizes
  NoticeSize = 2
  Severities = {0, 3}
  MaxCalls = 1
INVARIANTS LinesInv CrashReasonWhole
SYMMETRY Symmetry
CHECK_DEADLOCK FALSE
