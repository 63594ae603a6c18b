SPECIFICATION Spec
CONSTANTS
  alice = alice
  bob = bob
  carol = carol
  t1 = t1
  t2 = t2
  t3 = t3
  Issuer = Issuer
  Wallets = {alice, bob, carol}
  Tokens = {t1, t2, t3}
  TimeToLive = 0
  MaxHops = 1
  MaxBalance = 2
  MaxTx = 2
  MaxParcels = 3
  Amounts = {2}
  Splits = {1, 2}
  Restartable = {alice, Issuer}
  MaxTime = 1
SYMMETRY Symmetry
INVARIANTS
  TypeOK
  ReuseOnlyByRestart
  SpentHasLeft
  ChainsValidAndBounded
  BlacklistedHeldItLater
  BooksKeptUntilRestart
\* The clock ends at MaxTime, and with it the bounded model.
CHECK_DEADLOCK FALSE
