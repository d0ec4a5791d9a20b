SPECIFICATION FairSpec
CONSTANTS
  Streams = {s}
  Sizes = {1, 2}
  Fragment = 1
  PacingLimit = 2
  QueueLimit = 3
  Cwnds = {1, 2}
  TlpAbort = 4
  StateAbort = 4
  MaxAckRanges = 3
  MaxRanges = 5
  Word = 16
  MaxBytes = 3
  MaxPackets = 10
  MaxFlushes = 0
  MaxSkips = 0
  Duplicates = FALSE
  MaxLosses = 2
  PromptNetwork = TRUE
PROPERTIES
  AllDelivered
INVARIANTS
  LosslessStaysUp
CHECK_DEADLOCK FALSE
