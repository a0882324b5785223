SPECIFICATION FairSpec
CONSTANTS
  Capacity = 1
  Overflow = overflow
  CaptureError = captureError
  MaxFrame = 3
  Hands = {handA}
  NoHand = noHand
  MaxPos = 0
  MaxAckAttempts = 2
CHECK_DEADLOCK FALSE
PROPERTIES
  EverythingIsConsumed
  ShutdownCompletes
