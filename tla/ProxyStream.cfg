SPECIFICATION FairSpec
CONSTANTS
  MaxAttempts = 2
  Callbacks = {h1, h2}
INVARIANTS
  ProxyTypeOK
  OneConnection
  NoGraceOnceClosed
  LeakOnlyWhileDialing
  RefusedLeavesNothing
  GraceFollowsPeer
PROPERTIES
  StreamStops
  LossEndsSession
CHECK_DEADLOCK FALSE
