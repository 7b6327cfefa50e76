\* Two machines with TEST_INIT, two runs, and two of: standalone tests beside them,
\* and VBoxManage commands that fail.
CONSTANTS
  m1 = m1
  m2 = m2
  t1 = t1
  t2 = t2
  NoMachine = NoMachine
  Machines <- TwoMachines
  Reverting <- TwoMachines
  Standalone <- OnlyM1
  Testers <- TwoTesters
  MaxRuns = 2
  MaxCalls = 2
  MaxUpsets = 2
SPECIFICATION FairSpec
INVARIANTS
  Isolation
  CleanBetweenRuns
  RestoredWhileOff
PROPERTIES
  EveryCleanUpEnds
CHECK_DEADLOCK FALSE
