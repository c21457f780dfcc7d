SPECIFICATION Spec
CONSTANTS
  Owners <- TwoOwners
  Publish <- LeafPublish
  Watch <- ObjectWatch
  Values = {1, 2}
  TableSize = 6
VIEW Shape
PROPERTY ChangeIsVisible
