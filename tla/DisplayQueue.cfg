SPECIFICATION FairSpec
CONSTANTS
  p1 = p1
  p2 = p2
  blank = blank
  N = 3
  Pictures <- MCPictures
  Blank <- blank
  Sizes <- MCSizes
INVARIANTS TypeOK SurfaceIsFree
PROPERTIES FifoSpec NobodyWaitsForever
CHECK_DEADLOCK FALSE
