SPECIFICATION PartsSpec
CONSTANTS
  Bytes = {0, 1, 2}
  Size = 3
  MaxOutput = 7
INVARIANTS
  ScreenShowsScene
  SoundAsMeant
  FilesAsReported
  GpuSafe
  Recent
CHECK_DEADLOCK FALSE
