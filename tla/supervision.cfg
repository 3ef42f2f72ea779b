SPECIFICATION PartsSpec
CONSTANTS
  Clients = {c1, c2, c3}
  NoClient = none
  MaxPending = 1
  Pieces = 2
  MaxOthers = 1
  net = net
  app = app
  NoPid = NoPid
  NoService = NoService
  Missing = Missing
  p1 = p1
  p2 = p2
INVARIANTS
  RequestsPairOff
PROPERTIES
  Answered
  ManagerAttends
  RestartHonoured
CHECK_DEADLOCK FALSE
