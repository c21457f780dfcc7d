SPECIFICATION Spec
CONSTANTS
  a = a
  b = b
  Null = Null
  Media = {a, b}
  Modes <- AllModes
  Others <- OtherLists
  MaxCount = 3
  MaxHistory = 4
  MaxSteps = 2
CHECK_DEADLOCK FALSE
INVARIANTS
  AnswerIsKept
