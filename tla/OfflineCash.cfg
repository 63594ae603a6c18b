SPECIFICATION Spec
CONSTANTS
  alice = alice
  bob = bob
  carol = carol
  t1 = t1
  t2 = t2
  t3 = t3
  t4 = t4
  Wallets <- MCWallets
  Tokens = {t1, t2, t3}
  Value <- MCValue
  ExpirySeconds = 0
  MaxHops = 2
  TicksPerSecond = 1
  MaxTime = 1
  MaxBalance = 3
  MaxTxValue = 2
  MaxMessages = 3
  MaxHeartbeats = 0
  Amounts = {1, 2, 3}
  Losable = {}
SYMMETRY Symmetry
INVARIANTS
  TypeOK
  BalanceCapped
  CountersAgree
  OneTaker
  OneChain
  MarkedIsStuck
PROPERTIES
  PaidIsAcceptable
\* The clock ends at MaxTime, and with it the bounded model.
CHECK_DEADLOCK FALSE
