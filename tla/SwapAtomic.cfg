SPECIFICATION Spec
CONSTANTS
  alice = alice
  bob = bob
  carol = carol
  t1 = t1
  t2 = t2
  t3 = t3
  t4 = t4
  Issuer = Issuer
  Wallets = {alice, bob}
  Tokens = {t1, t2, t3, t4}
  Value <- MCValue
  TimeToLive = 0
  MaxHops = 2
  MaxBalance = 7
  MaxTx = 4
  Amounts = {1, 5}
  MaxParcels = 3
  MaxDeposited = 1
  MaxTime = 1
SYMMETRY Symmetry
INVARIANT SwapAtomic
\* The clock ends at MaxTime, and with it the bounded model.
CHECK_DEADLOCK FALSE
