SPECIFICATION Spec
CONSTANTS
  Cached = TRUE
  Cpi = 384
  IdleSkip = 3
  PollInterval = 2
  MaxLen = 2
  CountMod = 4
  Budgets <- MCBudgets
  Values <- MCValues
  Horizon = 6
INVARIANTS TypeOK TimeConserved RunReturnsElapsed NeverAhead
PROPERTIES RaisedIfMet RunEnds
