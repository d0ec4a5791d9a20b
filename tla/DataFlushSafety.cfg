SPECIFICATION Spec
CONSTANTS
  Streams = {s}
  Sizes = {1, 2}
  Fragment = 1
  PacingLimit = 2
  QueueLimit = 3
  Cwnds = {2}
  TlpAbort = 2
  StateAbort = 2
  MaxAckRanges = 3
  MaxRanges = 5
  Word = 16
  MaxBytes = 2
  MaxPackets = 4
  MaxFlushes = 1
  MaxSkips = 1
  Duplicates = TRUE
  MaxLosses = 0
  PromptNetwork = FALSE
INVARIANTS
  TrackedOnce
  NoDanglingItem
  RetransmissionArmed
CHECK_DEADLOCK FALSE
