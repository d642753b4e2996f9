SPECIFICATION Spec
CONSTANTS
  Symbols = {spy, qqq}
  Strategies = {breakout, momentum}
  MaxConfidence = 2
  Contracts = {k1}
  Total = 8
  SymbolCap = 5
  MaxBots = 3
  MaxBotsPerSymbol = 2
  MaxDays = 2
  MaxPreparations = 2
  MaxRestarts = 1
INVARIANTS TypeOK BudgetKept BetterGetsMore
PROPERTIES RetiredIsFinal
CHECK_DEADLOCK FALSE
SYMMETRY Symmetry
