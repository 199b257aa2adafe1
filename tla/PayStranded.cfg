SPECIFICATION Spec
CONSTANTS
  u1 = u1
  u2 = u2
  u3 = u3
  farm = farm
  o1 = o1
  o2 = o2
  b1 = b1
  b2 = b2
  b3 = b3
  None = None
  Utxos <- MCUtxos2
  TxOf <- MCTxOf
  Amount <- MCAmount
  Time <- MCTime
  FarmStart = 1
  Expiry = 9
  Shares <- MCSharesGood
  Direct <- MCDirect
  Owners <- MCOwners
  PayoutChoices <- MCPayout
  Threshold = 4
  Satoshi = 2
  Faults = {}
  MaxBumps = 0
  Spaced = FALSE
  Verified0 = TRUE
INVARIANT NoDepositStranded
