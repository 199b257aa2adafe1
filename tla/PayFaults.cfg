SPECIFICATION Spec
CONSTANTS
  u1 = u1
  u2 = u2
  u3 = u3
  farm = farm
  o1 = o1
  o2 = o2
  b1 = b1
  b2 = b2
  b3 = b3
  None = None
  Utxos <- MCUtxos3
  TxOf <- MCTxOf
  Amount <- MCAmount
  Time <- MCTimeApart
  FarmStart = 1
  Expiry = 3
  Shares <- MCSharesMerged
  Direct <- MCDirectMerged
  Owners <- MCOwners
  PayoutChoices <- MCPayoutChanged
  Threshold = 4
  Satoshi = 2
  Faults = {"compute", "filter", "reject", "lostReply", "update", "save", "crash"}
  MaxBumps = 2
  Spaced = FALSE
  Verified0 = TRUE
INVARIANTS TypeOK NoRewardLost NoUpdateWithoutRow OneRowPerTransaction HistoryOnlyOfProcessed PaidAgainOnlyIfLost Solvency BalanceSuffices PeriodsCoverTime PeriodsDisjoint
