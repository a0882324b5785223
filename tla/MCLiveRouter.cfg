SPECIFICATION SpotSpec
CONSTANTS
  Players = 3
  SmallBlind = 2
  BigBlind = 4
  Stacks = {28}
  Antes = {0}
  Buckets = {20, 28}
  RaisePct = 100
  MaxLine = 8
  Classes = {"strong", "medium", "weak"}
  Whole = 64
  Starts <- MCStarts
  Heroes = {2}
  OffTree = 12
  MaxFrames = 3
  MaxStreet = 3
  SizeTolerancePct = 30
  MaxStackErrorPct = 25
  BetPct = 50
CHECK_DEADLOCK FALSE
INVARIANTS
  HandoffIsTheHand
  ResolvedLineIsPlayed
  SpotIsWhatHappened
  AdviceIsPlayable
