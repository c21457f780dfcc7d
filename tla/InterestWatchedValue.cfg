SPECIFICATION Spec
CONSTANTS
  srv = srv
  c1 = c1
  c2 = c2
  Server <- srv
  Clients = {c1, c2}
  Owners <- Setting
  PathOf <- ValuePath
  Setters <- PartSets
  Subscribers <- OneOfValue
  Mortal = {}
  Values = {1}
  TableSize = 8
  UintRange = 16
CHECK_DEADLOCK FALSE
INVARIANTS
  TellsTruth
