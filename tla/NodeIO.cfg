CONSTANTS
  m1 = m1 m2 = m2 m3 = m3 e1 = e1 i1 = i1 a1 = a1 a2 = a2 b1 = b1 b2 = b2
  prefix_length = 2
  Radix = 2
  MaxLength = 2
  Lengths = {0, 1, 2, 3}
  MaxMessages = 3
  Base = 2
  Clients = {"none", "eth", "cosmos", "matic", "stakes", "grapher"}
  Blocks = {m1, m2, m3}
  Spam = {m2}
  Externals = {e1}
  Internals = {i1}
  LineLimit = 3
  FirstInterval = 1
  LongestInterval = 2
  MaxConnects = 2
  MaxQueries = 3
  Modes = {"none", "udp", "tcp", "server"}
  Addrs = {a1, a2}
  MaxHandles = 3
  MaxSends = 4
  MaxMade = 3
  ChainBlocks = {b1, b2}
  MaxNodes = 2
  MaxFrames = 2
  MaxChecks = 1
  AuthSize = 4
  OldSize = 3
  Junk = {1, 4}
SPECIFICATION NodeIOSpec
SYMMETRY ChainBlockSymmetry
CHECK_DEADLOCK FALSE
INVARIANTS
  
  OnlyAcceptedRelayed BooksExact OneAttempt 
  SendsOwned CallbacksFindOwner
  FramesAsSent NodePointerLive BlocksWhole
