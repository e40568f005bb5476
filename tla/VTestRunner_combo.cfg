CONSTANTS
  Sizes <- OneOfTwo
  SharedLevels = {1}
  MethodCount = 2
  IgnoredSets = {{}}
  MaxThrows = 0
  Filters <- ComboFilters
  MaxFilters = 1
  Threads = 1
SPECIFICATION Spec
INVARIANTS RunsAsNamed
\* the run of the class ends
CHECK_DEADLOCK FALSE
