SPECIFICATION Spec
CONSTANTS
  Width = 7
  Height = 6
  Margin = 1
  SpawnMargin = 1
  W <- MCW
  H <- MCH
  Start <- MCStart
  Period = 4
  SpawnAt <- MCSpawnAt
  Half = 100
  MaxFrames = 36
INVARIANTS TypeOK ScreenInOrder SeriesInOrder
CHECK_DEADLOCK FALSE
