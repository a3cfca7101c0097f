SPECIFICATION Spec
CONSTANTS
  Documents <- DefaultPaths
  long = long
  short = short
  Waves = {long, short}
  Looped = {long}
  Size <- BlocksOf
  Preload = 1
  Parallelism = 2
  Faults = FALSE
  LiveSources = FALSE
  None = None
PROPERTY LoadsAreTrue
