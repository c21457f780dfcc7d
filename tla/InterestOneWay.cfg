SPECIFICATION Spec
CONSTANTS
  srv = srv
  c1 = c1
  c2 = c2
  Server <- srv
  Clients = {c1, c2}
  Owners <- OneClient
  PathOf <- OneWay
  Setters <- NoSetters
  Subscribers <- One
  Mortal = {}
  Values = {1}
  TableSize = 8
  UintRange = 16
CHECK_DEADLOCK FALSE
INVARIANTS
  TellsTruth
