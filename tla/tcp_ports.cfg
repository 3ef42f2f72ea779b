SPECIFICATION FairSpec
CONSTANTS
  NoPort = NoPort
  NoPeer = NoPeer
  NoReq = NoReq
  Ports = {0, 1, 2, 3}
  ListenPorts = {0, 1}
  Ephemeral = {2, 3}
  Peers = {a, b}
  Reqs = {r1, r2, r3}
  MaxListeners = 1
  MaxConnections = 2
  MaxClientPorts = 2
  MaxPending = 2
  MaxSyns = 2
  MaxBindings = 3
  MaxCrashes = 1
INVARIANTS
  RepliesSafe
  PortsTied
  TupleUnique
PROPERTIES
  ConnectAnswered
CHECK_DEADLOCK FALSE
