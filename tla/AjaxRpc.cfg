\* Two calls, one of which may never return, or return what cannot be written;
\* two streams and two ends of the process.
CONSTANTS
  x1 = x1
  x2 = x2
  NoCall = NoCall
  NoKey = NoKey
  Calls <- TwoCalls
  Hanging <- OnlySecond
  Unwritable <- OnlySecond
  MaxStreams = 2
  MaxDowns = 2
SPECIFICATION FairSpec
INVARIANTS
  AnswerIsOwn
PROPERTIES
  EveryCallAnswered
CHECK_DEADLOCK FALSE
