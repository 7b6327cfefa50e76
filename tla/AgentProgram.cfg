\* Two programs, two process ids that may be given out again; one program
\* leaves a child that holds its output open.
CONSTANTS
  a = a
  b = b
  NoProgram = NoProgram
  NoPid = NoPid
  Programs <- TwoPrograms
  Pids <- TwoPids
  Lingering <- OnlyB
SPECIFICATION FairSpec
INVARIANTS
  ResultIsOwn
PROPERTIES
  EveryExitReported
CHECK_DEADLOCK FALSE
