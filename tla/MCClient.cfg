SPECIFICATION FairClientSpec
CONSTANTS
  peer = peer
  old = old
  new = new
  k1 = k1
  k2 = k2
  main = main
  extra = extra
  alone = alone
  None = None
  NoKey = NoKey
  Connections <- MCConnections
  FirstVersions = {0, 1}
  LegacyIds <- MCLegacyIds
  NewIds <- MCNewIds
  Keys <- MCLegacyIds
  MayOverlap = TRUE
  Own <- MCOwn
  Embedded <- MCEmbedded
  Created <- MCCreated
  Standalone <- MCAlone
  Callers <- OneCaller
  Reuse = FALSE
INVARIANTS
  ClientTypeOK
  StorageOutlivesUse
  NothingLeftRunning
  VersionTellsTable
  OldJobIdsStillHit
PROPERTIES
  NoRowLost
  CallsEnd
CHECK_DEADLOCK FALSE
