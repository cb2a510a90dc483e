SPECIFICATION ImportSpec
CONSTANTS
  c1 = c1  c2 = c2  e1 = e1  e2 = e2  d1 = d1  d1f = d1f
  Conns = {c1, c2}
  Eps = {e1, e2}
  ConnNames = {"crm", "erp"}
  ToolNames <- MCToolNames
  Defs = {d1, d1f}
  Canon <- MCCanon
  Writers = {"w1", "portal"}
  Importers = {"portal"}
  Documents <- MCDocuments
  ForeignKeys = TRUE
  MaxVersion = 2
  NoRow = NoRow  NoHash = NoHash  Idle = Idle
  LegacyConns <- MCLegacyConns
  LegacyEps <- MCLegacyEps
INVARIANTS HashPinsDefinition NoOrphans ImportLeavesPrefix
PROPERTIES VersionFollowsHash ImportIsWhole CollisionHasACause
