SPECIFICATION Spec
CONSTANTS
  Owners <- TwoOwners
  Publish <- WatchedPublish
  Watch <- ObjectWatch
  Values = {1}
  TableSize = 6
VIEW Shape
PROPERTY ImplementsPublishedValues
