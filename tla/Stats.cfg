CONSTANTS
  Ids = {a1, a2}
  SessionCommits = 2
  Latencies = {1, 2, 3}
  latHistIdx <- MCLatHistIdx
  Percents = {250, 500, 950}
  FloatAbove <- MCFloatAbove
  Raw = {"m1", "m2", "m3", "m4"}
  Key <- MCKey
  Before <- MCBefore
  maxDistinctErrors = 1
  MaxSamples = 4
SPECIFICATION StatsSpec
INVARIANTS
  DemoAgreesWithSummary
  FiguresAreTrue
  SessionMix
