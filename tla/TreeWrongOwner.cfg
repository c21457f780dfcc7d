SPECIFICATION Spec
CONSTANTS
  Owners <- ThreeOwners
  Publish <- SharedPublish
  Watch <- ObjectWatch
  Values = {1}
  TableSize = 6
VIEW Shape
PROPERTY ImplementsPublishedValues
