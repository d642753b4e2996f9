SPECIFICATION Spec
CONSTANTS
  Symbols = {s1}
  MaxDay = 2
  MaxRetries = 2
  MaxOutages = 1
  MaxStops = 1
CONSTRAINT FewFaults
INVARIANTS
  DurabilityFirst
  TradesSurviveCrash
  TradingHasPlans
PROPERTIES
  FollowsLifecycle
  FinalizedFlat
  PlansFollowMatch
  MismatchStopsEntries
