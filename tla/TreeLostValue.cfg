SPECIFICATION Spec
CONSTANTS
  Owners <- TwoOwners
  Publish <- ObjectPublish
  Watch <- ObjectWatch
  Values = {1}
  TableSize = 6
VIEW Shape
PROPERTY SetIsStored
