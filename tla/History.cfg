SPECIFICATION FairSpec
CONSTANTS
  c = c
  other = other
  n1 = n1
  Denoms <- MCDenoms
  Collection = c
  Tokens = {n1}
  Low = 1
  High = 4
  BlockTime <- MCBlockTime
  PeriodStart = 3
  PeriodEnd = 3
  PageSize = 2
  Contents <- MCContents
  MaxTxs = 3
INVARIANTS TypeOK NothingMissed NothingTwice
PROPERTY HistoryKnown
