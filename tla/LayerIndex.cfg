SPECIFICATION Spec
CONSTANTS
  c1 = c1
  c2 = c2
  s = s
  Server = s
  Clients = {c1, c2}
  Publish <- Publishers
  Subscribe <- CrossAudience
  Overtaken = {c1}
  Readers <- Reader
  Leavers <- CrossAudience
  Mortal = {c1}
  Arriving = {c2}
  Values = {1}
  MaxPacks = 1
  MaxTodo = 1
CHECK_DEADLOCK FALSE
INVARIANTS
  TypeOK
  IndexMatchesHandles
