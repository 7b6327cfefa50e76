\* Can every run that is over be deleted, entirely?
CONSTANTS
  k1 = k1
  k2 = k2
  ErrorKey = ErrorKey
  NoKey = NoKey
  Keys <- OneKey
  MaxPuts = 1
  MaxWork = 2
  MaxReads = 0
  MaxDeletes = 1
  MaxCrashes = 0
SPECIFICATION Spec
INVARIANTS
  DeleteWorks
CHECK_DEADLOCK FALSE
