SPECIFICATION Spec
CONSTANTS
  Modes = {"RealTime", "Simulation"}
  Sequential = TRUE
  Intervals = {0, 1}
  Sentences <- Mixed
  MaxTape = 3
INVARIANTS
  TypeOK
  OnePerInterval
  SilenceIsReported
  NothingBuffered
  ReplayInOrder
PROPERTIES
  TimeoutWhenDue
  ReplayGoesOn
