SPECIFICATION FairSpec
CONSTANTS
  Peers = {a, b}
  Diallers = {a}
  Closers = {a}
  Senders = {}
  MaxId = 4
  DialInitial = 1
  DialAbort = 2
  CloseInitial = 1
  CloseAbort = 2
  Duplicates = FALSE
  MaxLosses = 1
PROPERTIES
  DialResolves
  CloseResolves
CHECK_DEADLOCK FALSE
