SPECIFICATION Spec
CONSTANTS
  n1 = n1
  n2 = n2
  n3 = n3
  n4 = n4
  alice = alice
  bob = bob
  d1 = d1
  d2 = d2
  None = None
  Nfts <- MCFourNfts
  People <- MCOnePerson
  Deposits = {d1}
  Hash <- MCOneHash
  Expiry <- MCLongLived
  FarmHash = 4
  FarmStart = 1
  Income = 90
  CudosFee = 10
  FeePerHash = 3
  CudosPart = 20
  Precision = 3
  Carry = 4
  Tolerance = 124
  MaxTime = 3
  MaxTransfers = 0
SYMMETRY MCAlike
INVARIANT NeverOverspent
