SPECIFICATION Spec
CONSTANTS
  Routers = {r1}
  Benchmarks = {b1}
  MaxBinary = 2
  MaxSolves = 2
CHECK_DEADLOCK FALSE
INVARIANT PinnedRowsAreTrusted
