CONSTANTS
  Handlers = {h1, h2}
  Requests <- AllCalls
  Defs = {d1, d2}
  Prefixed = TRUE
  Strict = TRUE
  Redaction = TRUE
  Faults <- NoFaults
  Cap = 1
  MaxCalls = 2
  Scopes <- OneCall
  NoRow = NoRow
  NoPin = NoPin
  NoRecord = NoRecord
SPECIFICATION Spec
INVARIANT RefusedOnlyIfTampered
CHECK_DEADLOCK FALSE
