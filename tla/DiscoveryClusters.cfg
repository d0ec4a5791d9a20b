CONSTANTS
  root = root c1 = c1 c2 = c2 r1 = r1 r2 = r2 d = d k1 = k1 k2 = k2
  NoAddr = NoAddr ZeroKey = ZeroKey Off = Off
  RAddr <- MCRAddr
  ServerKeys <- SignedKeys
  Protocols <- MCProtocols
  DiscoveryAddrs <- MCQueries
  Servers = {root, c1, c2}
  Clients = {r1, r2}
  Stoppable = {c2}
  Discoverers = {d}
  Keys = {k1, k2}
  Skew <- NoSkew
  HeartbeatAddrs <- ClusterHeartbeat
  HeartbeatPeriod = 1
  BeaconPeriod = 1
  PeerTimeout = 2
  MapTimeout = 2
  Window = 2
  Word = 16
  PageSize = 1
  Duplicates = FALSE
  MaxDelay = 0
  MaxMishaps = 1
  MaxTime = 3
SPECIFICATION Spec
CHECK_DEADLOCK FALSE
INVARIANTS AnnouncedUnderItsCluster AnnouncedWithItsKey LiveRelayListed AnnouncedInTime
