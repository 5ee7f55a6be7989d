SPECIFICATION MigrationSpec
CONSTANTS
  c1 = c1
  c2 = c2
  old1 = old1
  old2 = old2
  new1 = new1
  new2 = new2
  k = k
  NoKey = NoKey
  Connections <- MCConnections
  FirstVersions = {0, 1, 2}
  LegacyIds <- MCLegacyIds
  NewIds <- MCNewIds
  Keys <- MCKeys
  MayOverlap = TRUE
CHECK_DEADLOCK FALSE
PROPERTIES
  KeysAreKept
