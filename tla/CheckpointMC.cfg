SPECIFICATION Spec
CONSTANTS
  Maps <- MCMaps
  Needed <- MCNeeded
  Written <- MCWritten
  MaxWork = 2
INVARIANTS
  RestartIsExact
  RunsWithoutHoles
PROPERTIES
  RestartReturns
