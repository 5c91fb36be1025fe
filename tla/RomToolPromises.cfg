SPECIFICATION Spec
CONSTANTS
  Wrap = 256
  IntWrap = 32
  Header = 8
  MinHeader = 2
  TocSize = 3
  TocAlign = 2
  MaxEntries = 2
  PadAlign = 32
  Word = 2
  MinAlign = 2
  Kilo = 2
  MaxArgs = 7
  HeaderSizes = {1, 4, 8, 11, 20}
  FileSizes <- MCFileSizes
  Numbers <- MCNumbers
  Aligns <- MCAligns
INVARIANTS SomePromiseKept
CHECK_DEADLOCK FALSE
