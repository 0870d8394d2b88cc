SPECIFICATION FairSpec
CONSTANTS
  Candidates = {c1, c2, c3}
  Timers = {t1, t2, t3}
  NoTimer = NoTimer
INVARIANTS
  IceTypeOK
  NoStranded
  ExactlyOnce
  WireOrder
PROPERTIES
  QuietAfterStop
  AllSent
CHECK_DEADLOCK FALSE
