SPECIFICATION Spec
CONSTANTS
  Capacity = 1
  Overflow = overflow
  CaptureError = captureError
  MaxFrame = 3
  Hands = {handA, handB}
  NoHand = noHand
  MaxPos = 1
  MaxAckAttempts = 2
SYMMETRY Symmetry
CHECK_DEADLOCK FALSE
INVARIANT
  DrainedStopLeavesNothing
