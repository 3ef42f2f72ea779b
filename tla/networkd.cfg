SPECIFICATION ScenesSpec
CONSTANTS
  a1 = a1  a2 = a2  h1 = h1  h2 = h2  m1 = m1  m2 = m2
  dns = dns  http = http  number = number
  Hosts = {h1, h2}
  None = None
  Configs <- MCConfigs
  Apps = {a1, a2}
  UdpPorts = {dns}  TcpPorts = {http}
  Macs = {m1, m2}
  Packets <- MCPackets  Pings <- MCPings
  MaxBindings = 1  MaxArpEntries = 2  MaxPendingPings = 2  PipeSize = 1  Turns = 2
  MaxRequests = 3  MaxFrames = 4  MaxConfigs = 2  MaxDeaths = 1  MaxWaiting = 1
INVARIANTS
  NotMisdirected
  NoAnswerMissed
  HandlesOwned
  SessionsJust
PROPERTIES
  RequestsServed
  Attended
CHECK_DEADLOCK FALSE
