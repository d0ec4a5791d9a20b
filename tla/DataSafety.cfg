SPECIFICATION Spec
CONSTANTS
  Streams = {s, t}
  Sizes = {2, 3}
  Fragment = 2
  PacingLimit = 2
  QueueLimit = 3
  Cwnds = {2, 3}
  TlpAbort = 2
  StateAbort = 2
  MaxAckRanges = 3
  MaxRanges = 3
  Word = 16
  MaxBytes = 3
  MaxPackets = 5
  MaxFlushes = 0
  MaxSkips = 0
  Duplicates = TRUE
  MaxLosses = 0
  PromptNetwork = FALSE
SYMMETRY Symmetry
INVARIANTS
  AckRangesExact
  AckedIsReceived
  BytesInFlightExact
  NoReadyDataHeld
PROPERTIES
  ImplementsReliableStream
CHECK_DEADLOCK FALSE
