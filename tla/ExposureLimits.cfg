SPECIFICATION Spec
CONSTANTS
  spyCall = spyCall
  spyPut = spyPut
  qqqCall = qqqCall
  Contracts = {spyCall, spyPut, qqqCall}
  Underlying <- MCUnderlying
  Price <- MCPrice
  StopPrice <- MCStopPrice
  BasePrice = 1
  Cash = 12
  MaxTotal = 5
  MaxSymbol = 4
  MaxPositions = 2
  MaxQty = 2
  PlanCapital = 4
  MaxOrders = 3
INVARIANTS TypeOK WithinLimits AtMostTwice PositionsWithinLimit
