SPECIFICATION FairSpec
CONSTANTS
  Lots = 2
  MaxEntries = 2
  MaxExits = 1
  MaxCrashes = 1
  MaxFaults = 1
INVARIANTS TypeOK ReservedFirst FailedIsAbsent StopsCovered RowIsCurrent
PROPERTY Noticed
