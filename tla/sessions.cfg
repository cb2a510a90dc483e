CONSTANTS
  Streams = {s1, s2}
  Posts = {q1}
  Tokens = {t1, t2}
  Roles = {admin, user}
  MaxSessions = 1
  MaxEdits = 2
  NoGrant = NoGrant
  NoStream = NoStream
SPECIFICATION SessionsFairSpec
INVARIANT SessionsBounded
INVARIANT RolesAreCurrent
PROPERTY ShutdownWaitsForStreamsOnly
PROPERTY RevocationTakesEffect
