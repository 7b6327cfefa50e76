\* Two tests with an artifact, or one with two, a user watching, one DeleteRun and one
\* end of the process.
CONSTANTS
  k1 = k1
  k2 = k2
  ErrorKey = ErrorKey
  NoKey = NoKey
  Keys <- TwoKeys
  MaxPuts = 2
  MaxWork = 3
  MaxReads = 3
  MaxDeletes = 1
  MaxCrashes = 1
SPECIFICATION FairSpec
INVARIANTS
  ArtifactAsListed
  Reachable
PROPERTIES
  NobodyWaitsForever
CHECK_DEADLOCK FALSE
