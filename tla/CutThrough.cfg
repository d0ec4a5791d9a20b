CONSTANTS
  u1 = u1 u2 = u2 s = s a = a b = b c = c
  Peers = {u1, s}
  Solicited = {s}
  Unsolicited = {u1}
  Sends <- SomeSends
  Closers = {s}
  ReserveIds <- Reserve
  Messages = {a, b, c}
  Bad = {c}
  Witness <- SomeWitness
  Pieces = 2
  Slots = 2
  MaxTicks = 2
  MaxFlushes = 1
  MaxPublished = 1
SPECIFICATION Spec
INVARIANTS IdsConserved  UsedIsOwned RelayedOnce
CHECK_DEADLOCK FALSE
