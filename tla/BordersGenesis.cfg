SPECIFICATION Spec
CONSTANTS
  BlockTime = 2
  Spacings <- MCSpacings
  Genesis = 1
  MaxNow = 7
  MaxHeight = 6
INVARIANT PeriodSearched
