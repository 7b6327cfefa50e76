SPECIFICATION FilesSpec
CONSTANTS
  f = f
  g = g
  a = a
  b = b
  empty = empty
  none = none
  Ids <- MCIds
  NoFile = none
  Texts <- MCTexts
  Empty = empty
  Syntaxes = {"js", "css"}
  Shipped = "js"
  MaxUndo = 1
  MaxSteps = 4
SYMMETRY MCSymmetry
INVARIANTS TabsKeepText OwnHistory RedoFollowsUndo EditedTold
CHECK_DEADLOCK FALSE
