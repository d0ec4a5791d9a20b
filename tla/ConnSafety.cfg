SPECIFICATION Spec
CONSTANTS
  Peers = {a, b}
  Diallers = {a, b}
  Closers = {a, b}
  Senders = {a, b}
  MaxId = 3
  DialInitial = 1
  DialAbort = 2
  CloseInitial = 1
  CloseAbort = 2
  Duplicates = TRUE
  MaxLosses = 0
SYMMETRY Symmetry
INVARIANTS
  EstablishedIsMutual
  BothEstablishedAgree
  LiveConnectionNotReset
  TimerFitsState
CHECK_DEADLOCK FALSE
