SPECIFICATION Spec
CONSTANTS
  Steps <- MCSteps
  Routes <- MCRoutes
  Seats = 2
  Cards = {"read"}
  Dealers = {"read"}
  MaxHand = 3
  MaxPresses <- MCPresses
CHECK_DEADLOCK FALSE
INVARIANT CardsAreOfTheirHand
