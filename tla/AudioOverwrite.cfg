SPECIFICATION Spec
CONSTANTS
  N = 4
INVARIANTS NeverFillWhilePlaying
