SPECIFICATION FairSpec
CONSTANTS
  Pids = {1, 2, 3}
  MaxRequests = 2
CHECK_DEADLOCK FALSE
INVARIANTS
  NothingOutlivesItsRequest
  OneTreeAtATime
PROPERTY
  EveryRequestEnds
