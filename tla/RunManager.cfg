SPECIFICATION Spec
CONSTANTS
  Reqs = {r1, r2}
  None = None
  Keep = 0
INVARIANTS
  OneAtATime
  NothingOutlivesTheServer
  RegistryKeepsTheNewest
  VanishedGetsNoRun
PROPERTY EverythingEnds
CHECK_DEADLOCK FALSE
