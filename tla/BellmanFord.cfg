CONSTANTS
  VertexCount = 4
  EdgeCount = 1
  Costs = {1}
  CostUnit = 2
  ItersPerBatch = 3
  LaneCount = 2
  Algorithms = {"scattered", "newBest_one", "newBest_batch"}
SPECIFICATION Spec
INVARIANTS BestIsPriorIteration StopsWhenSolved
PROPERTY Terminates
\* doMain returns
CHECK_DEADLOCK FALSE
