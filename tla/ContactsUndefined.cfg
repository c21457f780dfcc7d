SPECIFICATION Spec
CONSTANTS
  e1 = e1
  e2 = e2
  Engines = {e1, e2}
  ContactTypes = {"Contact", "Group"}
  RelationshipTypes = {"HasMember"}
  FirstUris = {"own"}
  SecondUris = {"", "own", "other"}
  MaxId = 3
  MaxRelationships = 2
  MaxBatch = 2
SYMMETRY Symmetry
CHECK_DEADLOCK FALSE
INVARIANT AlwaysDefined
