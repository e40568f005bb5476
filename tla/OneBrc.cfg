CONSTANTS
  NShards = 2
  ChunkSize = 3
  CommonChunkSize = 2
  CommonPercent = 30
  MunmapPercent = 100
  TailReserved = 4
  BufSize = 8
  Slack = 5
  FakeAdvance = FALSE
  Files <- SomeFiles
  Faults = {"map", "clean"}
  Cities <- TwoCities
  Temps <- TwoTemps
  SlotsBits = 1
  NTables = 2
  MaxReadings = 6
  MaxTail = 6
  Texts <- SomeTexts
SPECIFICATION OneBrcSpec
INVARIANTS ReturnsStatsOfFile EveryLineHasASlot
\* main returns
CHECK_DEADLOCK FALSE
