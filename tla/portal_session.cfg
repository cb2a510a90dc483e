CONSTANTS
  t1 = t1
  Tabs = {t1, t2}
  SSORoles = {"viewer"}
  MaxTokens = 2
  Scopes <- SomeScopes
  NoToken = NoToken
SPECIFICATION FairSpec
PROPERTY SignedOutForCause
PROPERTY StoredTokenLossHasACause
PROPERTY RefusedTokenDropped
CHECK_DEADLOCK FALSE
