SPECIFICATION CacheSpec
CONSTANTS
  p1 = p1  p2 = p2  p3 = p3  r1 = r1  r2 = r2
  Replicas = {r1, r2}
  Procs = {p1, p2, p3}
  Home <- MCHome
  Groups <- Pairs
  TTL = 1
  MaxRev = 1
  MaxTime = 2
  NoEntry = NoEntry
INVARIANTS BoundedStaleness OwnWritesVisible
