SPECIFICATION FairSpec
CONSTANTS
  MaxStreams = 2
  RefillStreamsPerRun = 1
  RingFrames = 2
  RefillThreshold = 1
  MaxRefill = 2
  Voices = {v1, v2}
  Samples = {A, B}
  FirstFrame = 1
  FrameCount = 4
  EarlyDrop = FALSE
  Faults = {"open"}
  None = None
INVARIANTS TypeOK
PROPERTIES ImplementsPool EveryStreamEnds EverySlotReturns ShutdownJoins
CHECK_DEADLOCK FALSE
