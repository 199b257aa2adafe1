SPECIFICATION FairSpec
CONSTANTS
  BlockTime = 2
  Spacings <- MCSpacings
  Genesis = 1
  MaxNow = 7
  MaxHeight = 6
INVARIANTS TypeOK BordersEnclose OneRequestPerBorder
PROPERTY SearchEnds
