SPECIFICATION DriversSpec
CONSTANTS
  HeapStart = 64
  HeapEnd = 224
  Word = 256
  Requests <- MCRequests
  Buttons = {"A", "B"}
  NotCached = NotCached
  BufferLen = 16
  PrefixLen = 8
  NumberLen = 8
  ViewerLen = 8
  Half = 128
  Texts <- MCTexts
  Values <- MCValues
  Bases <- MCBases
  Viewers <- MCViewers
  Width = 2
  Height = 2
  Colors <- MCColors
  Opaque <- MCOpaque
  Blend <- MCBlend
  Sprites <- MCSprites
  Xs <- MCXs
  Ys <- MCYs
INVARIANTS HeapTypeOK BlocksTileHeap RegionsSafe
  PadTypeOK ReadAssertHolds ReadingIsTrue
  ConsoleTypeOK MessagesArrive
  TypeOK
PROPERTIES MallocAnswers InputReachesGame PrintReturns CanvasSpec DrawReturns
