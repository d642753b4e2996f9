SPECIFICATION FairSpec
CONSTANTS
  Symbols = {s1}
  MaxDay = 1
  MaxRetries = 2
  MaxOutages = 1
  MaxStops = 0
PROPERTIES
  RecoveryDecides
  FinalizationDecides
