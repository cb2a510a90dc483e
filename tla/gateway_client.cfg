CONSTANTS
  Callers = {c1, c2}
  Methods = {"GET", "DELETE", "HEAD"}
  SecretTTL = 1
  RespTTL = 1
  MaxRetries = 1
  MaxCalls = 2
  MaxVer = 1
  MaxTime = 2
  NoEntry = NoEntry
SPECIFICATION ClientFairSpec
INVARIANT SentAtMost
INVARIANT RotationTakesEffect
PROPERTY CallsEnd
CHECK_DEADLOCK FALSE
