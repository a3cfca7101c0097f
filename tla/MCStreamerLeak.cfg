SPECIFICATION Spec
CONSTANTS
  MaxStreams = 2
  RefillStreamsPerRun = 1
  RingFrames = 2
  RefillThreshold = 1
  MaxRefill = 2
  Voices = {v1, v2}
  Samples = {A, B}
  FirstFrame = 1
  FrameCount = 4
  EarlyDrop = TRUE
  Faults = {"open"}
  None = None
INVARIANT NoOrphan
CHECK_DEADLOCK FALSE
