CONSTANTS
  Handlers = {h1, h2}
  Requests <- AllCalls
  Defs = {d1, d2}
  Prefixed = FALSE
  Strict = TRUE
  Redaction = TRUE
  Faults <- AllFaults
  Cap = 1
  MaxCalls = 2
  Scopes <- SomeCalls
  NoRow = NoRow
  NoPin = NoPin
  NoRecord = NoRecord
SPECIFICATION FairSpec
INVARIANT RefusedForCause
INVARIANT ChangedIsRefused
INVARIANT ActiveQueriesExact
INVARIANT CallsAccounted
INVARIANT PayloadsRedacted
PROPERTY ShutdownCompletes
CHECK_DEADLOCK FALSE
