SPECIFICATION Spec
CONSTANTS
  MS = 2
  SEC = 4
  Warmup = 2
  Duration = 5
  Levels = 2
  MaxTime = 22
INVARIANTS
  BucketsAreTrue
  Tiled
CHECK_DEADLOCK FALSE
