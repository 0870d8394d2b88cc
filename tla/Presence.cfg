SPECIFICATION Spec
CONSTANTS
  Viewers = {v1, v2}
  NoViewer = NoViewer
  Enders = {e1}
  Nothing = Nothing
INVARIANTS
  PresenceTypeOK
  AloneIsExact
  SessionAnnounced
CHECK_DEADLOCK FALSE
