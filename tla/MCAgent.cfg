SPECIFICATION Spec
CONSTANTS
  Sessions = {s1, s2}
  NoSession = NoSession
  Pairs = {p1, p2}
  NoPair = NoPair
SYMMETRY Symmetry
CONSTRAINT UntilCleared
CHECK_DEADLOCK FALSE
INVARIANTS
  AgentTypeOK
  NoOrphan
  Guarded
  AnsweredIsServed
  ActiveNotDismissed
PROPERTIES
  OneSessionAtATime
