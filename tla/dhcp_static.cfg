SPECIFICATION LeaseSpec
CONSTANTS
  W = 64
  Iss <- NearWrap
  Unit = 5
  MaxChunks = 2
  MaxSyns = 1
  AckSegments = 2
  Servers = {s1}
  Addrs = {a1, a2}
  NoServer = NoServer
  NoAddr = NoAddr
  Pool <- WholePool
  MaxTroubles = 0
INVARIANTS
  StaticKept
CHECK_DEADLOCK FALSE
