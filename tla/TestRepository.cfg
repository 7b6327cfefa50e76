\* Both programs, with tests of their own and a common one: two uploads, one test run, two
\* ends of a program.
CONSTANTS
  Procs <- TwoProcs
  Web = "web"
  Names <- TwoNames
  Uploads <- SomeUploads
  NoName = "none"
  MaxInstalls = 2
  MaxTests = 1
  MaxCrashes = 2
SPECIFICATION FairSpec
INVARIANTS
  ListedHasLatest
  NoTornTest
  InstalledStaysListed
PROPERTIES
  EveryoneProceeds
CHECK_DEADLOCK FALSE
