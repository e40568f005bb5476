CONSTANTS
  NShards = 2
  ChunkSize = 3
  CommonChunkSize = 2
  CommonPercent = 30
  MunmapPercent = 100
  TailReserved = 2
  BufSize = 8
  Slack = 5
  FakeAdvance = FALSE
  Files <- FewFiles
  Faults = {"map", "clean"}
SPECIFICATION FairRunnerSpec
INVARIANTS NoLineTwice NoLineLost ReadsMappedBytes OneCleaner  
PROPERTIES CountsEachLineOnce NoCloseUnderAShard MainEnds
\* main returns or throws
CHECK_DEADLOCK FALSE
