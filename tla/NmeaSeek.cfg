SPECIFICATION Spec
CONSTANTS
  Modes = {"RealTime"}
  Sequential = FALSE
  Intervals = {0, 1}
  Sentences <- Fixes
  MaxTape = 3
INVARIANTS
  NothingBuffered
