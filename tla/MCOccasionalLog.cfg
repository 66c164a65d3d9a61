SPECIFICATION SiteSpec
CONSTANTS
  t1 = t1
  t2 = t2
  t3 = t3
  NULL = NULL
  Threads = {t1, t2, t3}
  Macros = {"EVERY_N", "IF_EVERY_N", "FIRST_N", "EVERY_T"}
  N = 2
  MaxExecutions = 6
  IntMax = 5
  Period = 2
  MaxClock = 7
  MaxTimers = 2
INVARIANTS FirstNWithin PhaseKept ExactWhenAlone
           TimeTypeOK SkipJustified BurstBounded
SYMMETRY Symmetry
CHECK_DEADLOCK FALSE
