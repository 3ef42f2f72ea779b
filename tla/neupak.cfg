SPECIFICATION PartsSpec
CONSTANTS
  app = app  lib = lib
  exe = exe  so = so
  p1 = p1  p2 = p2
  None = None
  Procs = {p1, p2}
  Packages = {app, lib}
  Paths = {exe, so}
  Library = {so}
  Published = {lib}
  Payload <- MCPayload
  Deps <- MCDeps
  MaxVersion = 2
  MaxCommands = 3
  MaxTroubles = 2
SYMMETRY Symmetry
INVARIANTS
  FilesAsRecorded
  DatabasesConsistent
  ArchivesTrue
CHECK_DEADLOCK FALSE
