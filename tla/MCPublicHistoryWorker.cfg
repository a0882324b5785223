SPECIFICATION Spec
CONSTANTS
  Capacity = 2
  Overflow = overflow
  CaptureError = captureError
  MaxFrame = 4
  Hands = {handA, handB}
  NoHand = noHand
  MaxPos = 1
  MaxAckAttempts = 2
SYMMETRY Symmetry
CHECK_DEADLOCK FALSE
INVARIANTS
  AcknowledgedIsSettled
  ObservedGapsAreApplied
  VisibleBundleIsContiguous
  RevokedStaysRevoked
PROPERTY
  DecodedOnceInOrder
