\* Forms of one and two parts of three bytes together, broken off anywhere.
CONSTANTS
  MaxHeaderSize = 4
  Headers <- ThreeHeaders
  MaxParts = 2
  MaxContent = 3
SPECIFICATION FairSpec
INVARIANTS
  StoredWhole
PROPERTIES
  EveryUploadEnds
CHECK_DEADLOCK FALSE
