SPECIFICATION Spec
CONSTANTS
  n1 = n1
  n2 = n2
  n3 = n3
  n4 = n4
  alice = alice
  bob = bob
  d1 = d1
  d2 = d2
  None = None
  Nfts <- MCNfts
  People <- MCPeople
  Deposits = {d1, d2}
  Hash <- MCHash
  Expiry <- MCExpiry
  FarmHash = 4
  FarmStart = 1
  Income = 90
  CudosFee = 10
  FeePerHash = 3
  CudosPart = 20
  Precision = 3
  Carry = 4
  Tolerance = 124
  MaxTime = 4
  MaxTransfers = 2
SYMMETRY MCSymmetry
INVARIANTS TypeOK SecondsPaidOnce SharesFollowOwnership EveryDepositPayable
PROPERTY RewardForLiveSeconds
