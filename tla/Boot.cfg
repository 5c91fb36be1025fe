SPECIFICATION Spec
CONSTANTS
  Banks = 3
  BankUnits = 8
  Skip = 1
  Reserved = 3
  Loader = 2
  ElfSteps = 3
  Roms <- MCRoms
  Flags = {65792}
  OldLines = {2, 5}
  PageUnits = 2
  UserPage = 1
INVARIANTS TypeOK LoaderSound KernelEntry MainEntry EnteredIffBootable
PROPERTIES Boots
