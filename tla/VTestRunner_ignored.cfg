CONSTANTS
  Sizes <- TwoByTwo
  SharedLevels = {1, 2}
  MethodCount = 2
  IgnoredSets = {{1}}
  MaxThrows = 0
  Filters <- MethodFilters
  MaxFilters = 0
  Threads = 1
SPECIFICATION Spec
INVARIANTS SharedRulesOnce
\* the run of the class ends
CHECK_DEADLOCK FALSE
