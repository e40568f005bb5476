CONSTANTS
  Capacity = 3
  Modulus = 9
  Iterations = 11
SPECIFICATION FairSpec
INVARIANTS TypeOK DeliveredInOrder NoSlotRace CachesAreConservative
PROPERTIES ImplementsFifo MainReturns
\* main returns when all threads are joined
CHECK_DEADLOCK FALSE
