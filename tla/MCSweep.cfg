\* now is bounded by Horizon: the runs of time 0 and 1 grow stale within it.
CONSTANTS
  Refs <- MCRefs
  StaleAfter = 1
  Longest = 1
  Refusals = 2
  Horizon = 2
SPECIFICATION Spec
INVARIANTS
  OthersAreSpared
  EveryRepoIsSwept
  ReportIsTrue
PROPERTIES
  SweepEnds
