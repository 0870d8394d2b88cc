SPECIFICATION FairSpec
CONSTANTS
  Announcements = {h264, h265}
  NoInfo = NoInfo
  Unreachable = Unreachable
  Enders = {e1}
  ProbeFailThreshold = 3
  MaxFailures = 4
INVARIANTS
  SourceTypeOK
  VerdictSound
  NoSilentChange
  OneLateProbe
PROPERTIES
  OfflineOnlyAfterThreshold
  ComesBack
  GoesOffline
