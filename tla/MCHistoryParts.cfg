SPECIFICATION PartsSpec
CONSTANTS
  Capacity = 2
  Causes = {overflow, captureError}
  Overflow = overflow
  MaxFrame = 4
  MaxGaps = 3
  Hands = {handA, handB}
  NoHand = noHand
  MaxPos = 2
  DealerSeats = {1, 2, 3}
  Live = 2
  LastStreet = 1
  LastHand = 4
SYMMETRY Symmetry
INVARIANTS
  CoalescedLedgerExact
  ClosedHandNeverExposed
  ExposedIsNewestDecision
  RecoveryIsFresh
  IdentityIsOfOneHand
PROPERTY ImplementsFrameLedger
