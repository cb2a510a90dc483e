CONSTANTS
  Ids = {r1, r2}
  NoId = NoId
  r1 = r1
  r2 = r2
  Scopes <- SomeParts
SPECIFICATION FairSpec
INVARIANT OwnWritesShown
INVARIANT SaveTargets
INVARIANT NamesResolved
INVARIANT BadgesTellTheTruth
PROPERTY LoadsSettle
CHECK_DEADLOCK FALSE
