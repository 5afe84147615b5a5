SPECIFICATION Spec
CONSTANTS
  NoConn = NoConn
  Viewers = {v1}
  Conns = {c1, c2}
  MaxBuffered = 2
  ChanCap = 1
  MaxLife = 1
  MaxBuckets = 3
  MaxBreaks = 1
INVARIANTS
  StreamIntact
  SubscriptionsOpen
  LogIsWhole
PROPERTIES
  FeedSpec
  EveryoneHangsUp
