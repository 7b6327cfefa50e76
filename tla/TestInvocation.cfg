\* Two callers, two runs, two plans of which one never returns, which web
\* threads rewrite and delete; one end of the process from outside (and any
\* number by the worker's own death).
CONSTANTS
  c1 = c1
  c2 = c2
  p1 = p1
  p2 = p2
  NoPlan = NoPlan
  Callers <- TwoCallers
  Plans <- TwoPlans
  HangingPlans <- Hanging
  MaxRuns = 2
  MaxCrashes = 1
SPECIFICATION FairSpec
INVARIANTS
  TypeOK
  CallOrder
  Accounted
  StatusNamesJob
  WholeSource
PROPERTIES
  StatusEndsWithRun
  ServiceSpec
  EveryRunServed
CHECK_DEADLOCK FALSE
