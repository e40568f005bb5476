CONSTANTS
  Cities <- Male
  Temps <- TwoTemps
  SlotsBits = 14
  NTables = 2
  MaxReadings = 3
  MaxTail = 1
SPECIFICATION StatsSpec
INVARIANTS ResultIsExpected
CHECK_DEADLOCK FALSE
