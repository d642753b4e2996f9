SPECIFICATION Spec
CONSTANTS
  Open = 570
  Close = 961
  Universe = 2
  Frame = 2
  Window = 2
  MaxAge = 120
  Day <- Thursday
  Start = 950
  Last = 956
  MaxLag = 3
  MaxGaps = 2
  MaxTroubles = 1
CHECK_DEADLOCK FALSE
INVARIANTS
  TypeOK
  NoBarTwice
  WholeCandles
  DecisionFresh
