SPECIFICATION FairSpec
CONSTANTS
  SIGSEGV = SIGSEGV
  SIGABRT = SIGABRT
  SIGTERM = SIGTERM
  NULL = NULL
  t1 = t1
  t2 = t2
  t3 = t3
  Threads = {t1, t2}
  Main = t1
  kFailureSignals <- McSignals
  Faults = {SIGSEGV}
  Depth = 1
  MaxSignals = 3
INVARIANTS HandlerInv OneDump DumpBeforeDeath
PROPERTY FailureEndsProcess
CHECK_DEADLOCK FALSE
