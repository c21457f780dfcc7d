SPECIFICATION Spec
CONSTANTS
  Owners <- TwoOwners
  Publish <- LeafPublish
  Watch <- ObjectWatch
  Values = {1}
  TableSize = 6
VIEW Shape
INVARIANTS
  TypeOK
  FreeListSound
  LinksConsistent
PROPERTIES
  GrowthIsVisible
  SetIsStored
  ImplementsPublishedValues
