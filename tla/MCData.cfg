SPECIFICATION DataSpec
CONSTANTS
  Segments <- MCSegments
  MaxSegments = 3
  MinPayload = 2
  QueueSize = 2
  Buffers = {b1, b2, b3, b4}
  NoBuffer = NoBuffer
  SecondsHalf = 64
  DurationHalf = 16
  UnixToInternal = 5
  Year2024 = 10
  maxClockSkew = 3
  MaxLines = 4
  Clocks = {2, 9, 10, 20, 40}
SYMMETRY Symmetry
CONSTRAINTS
  SentAhead
  ClosedLate
INVARIANTS
  FramesExact
  DeliveredInOrder
  CodecsExact
  TimelyHandled
CHECK_DEADLOCK FALSE
