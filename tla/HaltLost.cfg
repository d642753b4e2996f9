SPECIFICATION Spec
CONSTANTS
  Symbols = {s1}
  MaxDay = 1
  MaxRetries = 3
  MaxOutages = 1
  MaxStops = 1
PROPERTY HaltIsDurable
