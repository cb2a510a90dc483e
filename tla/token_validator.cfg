CONSTANTS
  ours = ours
  other = other
  kid1 = kid1
  kid2 = kid2
  a = a
  b = b
  Procs = {p1, p2}
  Issuers = {ours, other}
  Trusted = {ours}
  Kids = {kid1, kid2}
  Keys = {a, b}
  Tokens <- MCTokens
  TTL = 1
  Timeout = 1
  MaxRotations = 1
  MaxTime = 3
  NoKid = NoKid
  NoKey = NoKey
  NoEntry = NoEntry
SPECIFICATION Spec
PROPERTY RevokedKeysExpire
PROPERTY NewKeysArrive
SYMMETRY Interchangeable
CHECK_DEADLOCK FALSE
