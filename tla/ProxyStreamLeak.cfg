SPECIFICATION Spec
CONSTANTS
  MaxAttempts = 2
  Callbacks = {h1, h2}
INVARIANT CloseTerminates
CHECK_DEADLOCK FALSE
