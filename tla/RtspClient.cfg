SPECIFICATION FairSpec
CONSTANTS
  MaxReconnect = 1
  MaxLate = 2
INVARIANTS
  RtspTypeOK
  InStep
  RefusedOnlyUnasked
PROPERTIES
  SilenceNoticed
  CloseReturns
CHECK_DEADLOCK FALSE
