SPECIFICATION Spec
CONSTANTS
  c1 = c1
  c2 = c2
  s = s
  Server = s
  Clients = {c1, c2}
  Publish <- Publishers
  Subscribe <- Audience
  Overtaken = {}
  Readers <- Reader
  Leavers = {}
  Mortal = {c1}
  Arriving = {}
  Values = {1}
  MaxPacks = 2
  MaxTodo = 1
CHECK_DEADLOCK FALSE
INVARIANTS
  HandleNotStuck
  StaleHandleIsWoken
PROPERTIES
  ChangeIsTold
  SyncMeansApplied
  SyncReturns
