SPECIFICATION Spec
CONSTANTS
  alice = alice
  bob = bob
  carol = carol
  t1 = t1
  t2 = t2
  t3 = t3
  t4 = t4
  Wallets <- MCWallets
  Tokens = {t1, t3, t4}
  Value <- MCValue
  ExpirySeconds = 1
  MaxHops = 2
  TicksPerSecond = 1
  MaxTime = 2
  MaxBalance = 3
  MaxTxValue = 2
  MaxMessages = 1
  MaxHeartbeats = 0
  Amounts = {1}
  Losable = {alice}
INVARIANTS
  RecoveredWithinSafeBalance
