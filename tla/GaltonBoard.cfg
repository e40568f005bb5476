CONSTANTS
  SlotsPerLevel = 2
  LevelValues = {2, 3}
  CountValues = {1, 4}
  SpeedValues = {1, 2}
  InputsPerFrame = 2
  MaxInputs = 5
SPECIFICATION FairSpec
INVARIANTS TypeOK PointsInOrder NoPointLost ShowsState TicksOnlyRunning
PROPERTIES ComesToRest
\* the inputs are bounded and the ticker stops
CHECK_DEADLOCK FALSE
