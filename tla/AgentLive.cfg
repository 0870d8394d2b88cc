SPECIFICATION FairSpec
CONSTANTS
  Sessions = {s1}
  NoSession = NoSession
  Pairs = {p1, p2}
  NoPair = NoPair
CHECK_DEADLOCK FALSE
PROPERTIES
  Settles
