SPECIFICATION OfflineSpec
CONSTANTS
  Routers = {r1}
  Benchmarks = {b1}
  MaxBinary = 2
  MaxSolves = 2
  Tools = {"oracle", "pokerbench"}
  Models <- MCModels
  Decisions = 2
  Completions <- MCCompletions
  MaxConsecutive = 1
  MaxRuns = 2
  MaxFaults = 1
CHECK_DEADLOCK FALSE
INVARIANTS
  StoredIsWhole
  StoredIsWhatItSays
  EveryDecisionHasOneRow
  OneVersionPerModel
  CompleteRunIsReproducible
