SPECIFICATION PartsSpec
CONSTANTS
  W = 64
  Iss <- NearWrap
  Unit = 5
  MaxChunks = 2
  MaxSyns = 1
  AckSegments = 2
  Servers = {s1, s2}
  Addrs = {a1, a2}
  NoServer = NoServer
  NoAddr = NoAddr
  Pool <- OwnPool
  MaxTroubles = 2
INVARIANTS
  EndsAgree
  LeaseHeld
PROPERTIES
  ByteStreams
  Addressed
CHECK_DEADLOCK FALSE
