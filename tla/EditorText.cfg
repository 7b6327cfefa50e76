SPECIFICATION Spec
CONSTANTS
  Chars = {"n", "q", "a"}
  BaseStep = 6
  Opened <- MCOpened
  Needles <- MCNeedles
  Restored <- MCRestored
  PageLines = 1
  MaxEntry = 1
  MaxLen = 4
  MaxEdits = 2
INVARIANTS HighlightRight ChangeLocated ReplacedOnce
CHECK_DEADLOCK FALSE
