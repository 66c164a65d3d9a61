SPECIFICATION Spec
CONSTANTS
  t1 = t1
  t2 = t2
  t3 = t3
  NULL = NULL
  Threads = {t1}
  kLogBufSize = 4
  PrefixSizes = {1}
  MessageSizes <- McMessageSizes
  NoticeSize = 2
  Severities = {0, 3}
  MaxCalls = 1
INVARIANT NoOverflowWhenTrue
CHECK_DEADLOCK FALSE
