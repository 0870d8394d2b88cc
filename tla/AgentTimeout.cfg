SPECIFICATION FairSpec
CONSTANTS
  Sessions = {s1}
  NoSession = NoSession
  Pairs = {p1}
  NoPair = NoPair
CHECK_DEADLOCK FALSE
PROPERTY
  TimeoutOnlyUnconnected
