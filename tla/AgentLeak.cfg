SPECIFICATION Spec
CONSTANTS
  End = 6
  DrainGrace = 2
  Cleanup = 2
  Drain = 3
  Commits = 2
  ResetEvery = 2
  MaxCommit = 1
  MaxFaults = 1
INVARIANTS
  SessionRefsDeleted
