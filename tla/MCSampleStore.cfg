SPECIFICATION FairSpec
CONSTANTS
  Documents <- SharedSample
  long = long
  short = short
  Waves = {long, short}
  Looped = {long}
  Size <- BlocksOf
  Preload = 1
  Parallelism = 2
  Faults = TRUE
  LiveSources = FALSE
  None = None
INVARIANTS TypeOK TrustedIsWhole Fresh Backed
PROPERTIES LoadsAreTrue DecodedOnce LoadEnds
