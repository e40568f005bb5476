CONSTANTS
  VLEN = 2
  SCRATCH_SIZE = 64
  NumThreads = 3
  Conc = 2
  Number <- Numerals
  SlotLimits <- Slots
  Works <- Programs
  ScratchSize <- Size
SPECIFICATION FairSpec
INVARIANTS BookkeepingExact ReadsInProgramOrder OneWriterPerBundle NothingDropped
PROPERTIES PackingEnds
\* packing ends
CHECK_DEADLOCK FALSE
