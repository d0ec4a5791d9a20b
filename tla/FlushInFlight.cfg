SPECIFICATION Spec
CONSTANTS
  Streams = {s}
  Sizes = {1, 2}
  Fragment = 1
  PacingLimit = 2
  QueueLimit = 3
  Cwnds = {2}
  TlpAbort = 4
  StateAbort = 4
  MaxAckRanges = 3
  MaxRanges = 5
  Word = 16
  MaxBytes = 3
  MaxPackets = 6
  MaxFlushes = 1
  MaxSkips = 0
  Duplicates = FALSE
  MaxLosses = 0
  PromptNetwork = FALSE
INVARIANT BytesInFlightExact
CHECK_DEADLOCK FALSE
