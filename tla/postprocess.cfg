\* Five anchor cells, two classes, groups of at most two results.
SPECIFICATION Spec
CONSTANTS
  NCells = 5
  CellValues <- SomeCells
  Zp <- ZeroPoints
  Scale <- Scales
  Unit = 765
  MaxResults = 2
  InputSize = 640
  ModelWidth = 640
  ModelHeight = 640
  ScreenSize = 480
  Raw = Raw
INVARIANTS TypeOK CollectExact Ranked SurvivorsApart LossExplained OneClassGreedy GroupFaithful InScreen
