CONSTANTS
  VLEN = 8
  SCRATCH_SIZE = 1536
  WORD <- WordSize
  HALF <- HalfSize
  XOR <- XorWords
  HashVal <- HashValues
  FusedAdd <- FusedValue
  FusedAdd512 <- FusedValue512
  Number <- Numerals
  Random <- Numbers
  Cases <- SomeCases
SPECIFICATION Spec
INVARIANTS
  
  OwnRegisters
  MemoryOrderIsFree
  EstimateIsLargest
\* the test ends
CHECK_DEADLOCK FALSE
