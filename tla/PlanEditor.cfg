SPECIFICATION Spec
CONSTANTS
  planA = planA
  planB = planB
  planC = planC
  undefined = undefined
  addnew = addnew
  Plans <- MCPlans
  Stored <- MCStored
  NoPlan = undefined
  AddNew = addnew
  NoText <- MCNoText
  MaxOpens = 2
  MaxActs = 5
  MaxCalls = 2
INVARIANTS SaveIntoOwn ShownIsCurrent TextKept
PROPERTIES EditorAppears
CHECK_DEADLOCK FALSE
