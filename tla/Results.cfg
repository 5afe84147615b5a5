CONSTANTS
  Runs = {r1}
  Clis = {c1}
  Requests = {"first", "second"}
  Files <- MCFiles
  Directory <- MCDirectory
  FileOf <- MCFileOf
  Outs = {"cli", "run"}
  Found <- MCFound
  Namespace = "refs/forgemark/"
  Levels = 1
  States = {"cancelled"}
  Asks <- MCAsks
  historyReaders = 1
  Editable = {"old"}
  MaxEdits = 1
SPECIFICATION Spec
INVARIANTS
  ListingsTellTheTruth
  AnnouncedLoads
PROPERTY EveryReaderEnds
