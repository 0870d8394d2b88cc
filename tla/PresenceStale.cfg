SPECIFICATION Spec
CONSTANTS
  Viewers = {v1}
  NoViewer = NoViewer
  Enders = {e1}
  Nothing = Nothing
INVARIANT
  SettledIsExact
CHECK_DEADLOCK FALSE
