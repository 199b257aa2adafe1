SPECIFICATION FairSpec
CHECK_DEADLOCK FALSE
CONSTANTS
  f1 = f1
  f2 = f2
  t1 = t1
  t2 = t2
  Wallets <- MCWallets
  Txs = {t1, t2}
  WalletOf <- MCWalletOf
  MaxErrors = 2
  LoadFailLimit = 2
  Faults = {"connect", "query", "load", "request", "unload", "mail", "node"}
INVARIANTS TypeOK MutualExclusion SpendsOwnWallet WalletsClosedWhenFree
PROPERTIES LockGranted Shutdown
