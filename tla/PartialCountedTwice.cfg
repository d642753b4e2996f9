SPECIFICATION Spec
CONSTANTS
  Lots = 2
  MaxEntries = 1
  MaxExits = 1
  MaxCrashes = 0
  MaxFaults = 0
INVARIANTS RealizedOnce
