SPECIFICATION ClientSpec
CONSTANTS
  peer = peer
  old = old
  new = new
  k1 = k1
  k2 = k2
  main = main
  extra = extra
  alone = alone
  None = None
  NoKey = NoKey
  Connections <- MCOneOwn
  FirstVersions = {2}
  LegacyIds <- MCNoIds
  NewIds <- MCNoIds
  Keys <- MCLegacyIds
  MayOverlap = TRUE
  Own <- MCOneOwn
  Embedded <- MCNobody
  Created <- MCNobody
  Standalone <- MCAlone
  Callers <- TwoCallers
  Reuse = FALSE
CHECK_DEADLOCK FALSE
INVARIANTS
  RunsKeepTheirStorage
