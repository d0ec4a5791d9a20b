CONSTANTS
  r1 = r1 r2 = r2 m1 = m1 m2 = m2 k0 = k0 k1 = k1
  Nodes = {r1, r2, m1, m2}
  Discovers <- Beacon
  ClientKeys = {k0}
  ClientKey <- OneCluster
  ZeroKey = k0
  Acceptors = {m1, m2, r1}
  MaxSol <- OneEach
  MaxUnsol <- OneEach
  Channels = 1
  MaxQueue = 1
  MaxCloses = 1
SPECIFICATION Spec
INVARIANTS SubscribersServed SolicitedAreLive
