SPECIFICATION FairSpec
CONSTANTS
  N = 4
INVARIANTS TypeOK BuffersInTurn NoLostWakeup PacedNeverOverwrites
PROPERTIES NobodyWaitsForever
