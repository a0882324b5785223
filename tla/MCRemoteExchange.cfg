SPECIFICATION ExchangeSpec
CONSTANTS
  Threads = {t1, t2}
  RequestIds = {id1, id2}
  Fingerprints <- MCDecisions
  Backends <- MCBackends
  Pinned <- MCTree
  CacheEntries = 1
  MaxSolves = 2
  MaxRestarts = 1
CHECK_DEADLOCK FALSE
INVARIANTS
  OneSolverAtATime
  InFlightIsRunning
  RetainedIsNotSolvedAgain
  AnswerIsForItsDecision
  AcceptedIsBound
PROPERTY
  EveryCallEnds
