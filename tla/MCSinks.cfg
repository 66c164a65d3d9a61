SPECIFICATION SinksSpec
CONSTANTS
  main_thread = main_thread
  other = other
  writer_thread = writer_thread
  Main = main_thread
  Others = {other}
  Writer = writer_thread
  Registrations <- WaitingOrMockOrBoth
  MaxLogs = 3
  NULL = NULL
INVARIANTS SinksInv MockExactWhenAlone
PROPERTY LogsReturn
CHECK_DEADLOCK FALSE
