SPECIFICATION Spec
CONSTANTS
  Players = 3
  SmallBlind = 1
  BigBlind = 2
  Stacks = {1, 3, 5}
  Antes = {0, 1}
CHECK_DEADLOCK FALSE
INVARIANTS
  RoundClosesMatched
  LegalActionsExact
  RecordedIsTrue
  RecordedIsCurrent
  NextFrameIsProved
