SPECIFICATION RunSpec
CONSTANTS
  a = a
  b = b
  x = x y = y h1 = h1 h2 = h2 t1 = t1 t2 = t2
  Fibers = {a, b}
  Scenarios <- MCScenarios
  DialAbort = 2
  CloseAbort = 2
  TlpAbort = 2
  StateAbort = 2
  MaxRanges = 3
  MaxAckRanges = 3
  Duplicates = TRUE
  Timers = {t1, t2}
  Timeouts = {1, 2}
  Repeats = {0, 1}
  Hosts = {h1, h2}
  Home <- MCHome
  Factories = {x}
  Accepting = {x}
  MaxEvents = 3
INVARIANTS
  NothingAcross
  AckedIsHeld
  AsScheduled
CHECK_DEADLOCK FALSE
