SPECIFICATION Spec
CONSTANTS
  NoPort = NoPort
  NoPeer = NoPeer
  NoReq = NoReq
  Ports = {1, 2, 3, 4}
  ListenPorts = {1}
  Ephemeral = {2, 3, 4}
  Peers = {a}
  Reqs = {r1, r2, r3}
  MaxListeners = 1
  MaxConnections = 3
  MaxClientPorts = 2
  MaxPending = 2
  MaxSyns = 1
  MaxBindings = 4
  MaxCrashes = 0
PROPERTIES
  CachedPortServes
CHECK_DEADLOCK FALSE
