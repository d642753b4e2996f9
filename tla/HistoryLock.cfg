SPECIFICATION FairSpec
CONSTANTS
  Procs = {p1, p2}
  Bots = {b1, b2}
  Events = {e1}
  Tries = 2
  MaxCrashes = 1
  MaxFaults = 1
INVARIANTS OneWriter StaleNeedsCrash
PROPERTIES Atomic LockReleased
