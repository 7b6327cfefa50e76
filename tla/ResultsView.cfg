SPECIFICATION Spec
CONSTANTS
  FirstId = 9
  MaxRuns = 2
  resLimit = 2
  MaxStart = 2
  MaxOpens = 2
  MaxActs = 4
  MaxInFlight = 2
  MaxBehind = 1
INVARIANTS
  ArtifactsAsShown
  TickMeansOver
  RowsOfPage
  DrawnAsTold
CHECK_DEADLOCK FALSE
