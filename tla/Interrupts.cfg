SPECIFICATION FairSpec
CONSTANTS
  s1 = s1
  s2 = s2
  w = w
  Syscodes <- MCOneSyscode
  OtherWords <- MCNoWords
  Causes <- MCSyscallOrMiss
  MaxNest = 2
INVARIANTS TypeOK CriticalSections HandlersReturn
PROPERTIES LockSpec Serviced
CHECK_DEADLOCK FALSE
