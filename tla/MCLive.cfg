SPECIFICATION LiveSpec
CONSTANTS
  Capacity = 2
  Overflow = overflow
  CaptureError = captureError
  Causes = {overflow, captureError}
  Levels = {0, 1, 3}
  Threshold = 2
  StableFrames = 2
  Heartbeat = 2
  MaxFrame = 5
  MaxTimeouts = 1
  Steps <- MCSteps
  Routes <- MCRoutes
  Seats = 6
  Cards = {"read", "misread", "unread"}
  Dealers = {"read", "unread"}
  MaxHand = 2
  MaxPresses <- MCPresses
CHECK_DEADLOCK FALSE
INVARIANTS
  ShownAdviceIsCurrent
  HistoryIsOfOneHand
  KeyframesTellTheScene
  StopIsOrderly
