SPECIFICATION Spec
CONSTANTS
  Preload = 3
  FrameCount = 30
  RingFrames = 8
  WindowFrames = 7
  HistoryFrames = 4
  MaxAdvance = 2
  Lag = 3
  None = None
INVARIANT RightFrame
CHECK_DEADLOCK FALSE
