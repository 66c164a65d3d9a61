SPECIFICATION LifeSpec
CONSTANTS
  MaxPrints = 2
  NumTests = 2
  MaxScopes = 3
  SavedFlags = {"v"}
  main_thread = main_thread
  t1 = t1
  t2 = t2
  Main = main_thread
  Threads = {main_thread, t1, t2}
  Builds <- AllBuilds
INVARIANTS OutputExact FdsAccounted IsolationInv SurvivorsFail MutexInv
PROPERTY MutexKeepsPromise
CHECK_DEADLOCK FALSE
