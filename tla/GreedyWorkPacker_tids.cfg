CONSTANTS
  VLEN = 2
  SCRATCH_SIZE = 64
  NumThreads = 5
  Conc = 5
  Number <- Numerals
  SlotLimits <- Slots
  Works <- LargeProgram
  ScratchSize <- LargeSize
SPECIFICATION Spec
INVARIANTS ImmediatesMatchRegisters
\* packing ends
CHECK_DEADLOCK FALSE
