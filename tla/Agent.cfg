SPECIFICATION Spec
CONSTANTS
  End = 8
  DrainGrace = 3
  Cleanup = 3
  Drain = 4
  Commits = 2
  ResetEvery = 2
  MaxCommit = 1
  MaxFaults = 1
INVARIANTS
  EveryOpAccounted
  StartsWhatFits
  BackInTime
  AbandonedRefsAreGone
  
PROPERTIES
  Returns
