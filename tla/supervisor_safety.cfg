SPECIFICATION Spec
CONSTANTS
  net = net
  app = app
  Services = {net, app}
  NoPid = NoPid
  NoService = NoService
  Missing = Missing
  MaxServices = 2
  MaxAutoStarts = 2
  MaxOthers = 1
  Definitions <- PairDefinitions
  Pids = {p1, p2, p3}
  Lingering = {app}
SYMMETRY Symmetry
INVARIANTS
  PidsOwned
  UnwantedIsEnding
  LogReaderKept
  CrashLoopBounded
PROPERTIES
  DependencyFirst
  StoppedStaysStopped
