SPECIFICATION Spec
CONSTANTS
  NoTarget = NoTarget
  Targets = {t1, t2}
  Levels = 2
  MaxTicks = 1
INVARIANTS
  NobodyStartsEarly
  ResultsAreOfWholeLevels
  NothingHeldAtTheEnd
PROPERTIES
  IsTranscript
  IsCoordinator
  RunEnds
