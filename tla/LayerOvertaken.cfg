SPECIFICATION Spec
CONSTANTS
  c1 = c1
  c2 = c2
  s = s
  Server = s
  Clients = {c1, c2}
  Publish <- Publishers
  Subscribe <- Reader
  Overtaken = {c2}
  Readers = {}
  Leavers = {}
  Mortal = {}
  Arriving = {}
  Values = {1}
  MaxPacks = 1
  MaxTodo = 1
CHECK_DEADLOCK FALSE
INVARIANT HandleNotStuck
