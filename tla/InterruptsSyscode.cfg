SPECIFICATION Spec
CONSTANTS
  s1 = s1
  s2 = s2
  w = w
  Syscodes <- MCSyscodes
  OtherWords <- MCOtherWords
  Causes <- MCCauses
  MaxNest = 1
INVARIANTS SyscodeFromUser
CHECK_DEADLOCK FALSE
