CONSTANTS
  Sizes <- TwoByTwoByTwo
  SharedLevels = {1, 3}
  MethodCount = 2
  IgnoredSets <- NoneOrSecond
  MaxThrows = 1
  Filters <- MethodFilters
  MaxFilters = 1
  Threads = 2
SPECIFICATION FairSpec
INVARIANTS RunsAsNamed SharedRulesOnceIfAllRan NothingTornDownAround
PROPERTIES ImplementsSharedRules ClassFinishes
\* the run of the class ends
CHECK_DEADLOCK FALSE
