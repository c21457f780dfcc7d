SPECIFICATION Spec
CONSTANTS
  Modes = {"RealTime"}
  Sequential = TRUE
  Intervals = {0, 1}
  Sentences <- Fixes
  MaxTape = 2
PROPERTIES
  UpdatesNotOlder
