CONSTANTS
  IPs = {a, b}
  Token = 2
  Burst = 3
  TTL = 3
  MaxTime = 8
  NoBucket = NoBucket
  NoSweep = NoSweep
SPECIFICATION Spec
INVARIANT BoundedRate
PROPERTY ImplementsTokenBucket
