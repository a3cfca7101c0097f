SPECIFICATION Spec
CONSTANTS
  Preload = 3
  FrameCount = 30
  RingFrames = 8
  WindowFrames = 7
  HistoryFrames = 4
  MaxAdvance = 2
  Lag = 2
  None = None
INVARIANTS TypeOK RightFrame Contiguous
PROPERTY SilentOnlyWhenStarved
CHECK_DEADLOCK FALSE
