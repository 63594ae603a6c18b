SPECIFICATION Spec
CONSTANTS
  alice = alice
  bob = bob
  carol = carol
  t1 = t1
  t2 = t2
  t3 = t3
  t4 = t4
  Wallets = {alice, bob}
  Tokens = {t1, t3}
  Value <- MCValue
  ExpirySeconds = 1
  MaxHops = 2
  TicksPerSecond = 2
  MaxTime = 4
  MaxBalance = 3
  MaxTxValue = 2
  MaxMessages = 2
  MaxHeartbeats = 1
  Amounts = {1}
  Losable = {alice}
SYMMETRY TokenSymmetry
INVARIANTS
  AliveTwoLifetimesAtMost
  PaidTwiceOnlyInTheLastSecond
PROPERTIES
  PaidIsAcceptable
