\* Two agents and two levels; a window of two ticks gives the ring of two a third
\* bucket, and the bound on the clock leaves two ticks for lateness and drains.
CONSTANTS
  Agents = {a1, a2}
  MS = 1
  SEC = 2
  Warmup = 1
  Duration = 2
  Grace = 0
  W = 2
  Levels = 2
  MaxTime = 8
SPECIFICATION CollectorSpec
INVARIANTS
  LiveAgreesWithSummary
  RollsOverTheLast
CHECK_DEADLOCK FALSE
