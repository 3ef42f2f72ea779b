SPECIFICATION DevicesSpec
CONSTANTS
  Candidates = 2
  MaxFrames = 4
  QueueSize = 2
  IndexLimit = 4
  Serialised = TRUE
  MaxSends = 4
  RingCount = 3
  NicSends = 2
  Ring = 5
  Page = 2
  Guard = 2
  Prompt = TRUE
  MaxSamples = 5
INVARIANTS
  DeviceMemorySafe
  HeardInOrder
PROPERTIES
  FramesInOrder
  DevicesServed
CHECK_DEADLOCK FALSE
