CONSTANTS
  k1 = k1
  k2 = k2
  v1 = v1
  e1 = e1
  Procs = {gateway, cli}
  Keys = {k1, k2}
  Vals = {v1, v2}
  EncKeys = {e1, e2}
  InitialFiles <- AnyFile
  MaxOps = 3
  None = None
SPECIFICATION Spec
INVARIANT AckedIsDurable
PROPERTY LoadsWholeVault
CHECK_DEADLOCK FALSE
