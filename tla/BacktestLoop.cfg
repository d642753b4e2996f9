SPECIFICATION Spec
CONSTANTS
  Bars = 5
  Configs <- MCConfigs
INVARIANTS NoLookAhead OneAtATime HoldBounded
PROPERTIES SignalsTaken
CHECK_DEADLOCK FALSE
