SPECIFICATION Spec
CONSTANTS
  w1 = w1
  w2 = w2
  w3 = w3
  t1 = t1
  t2 = t2
  s1 = s1
  s2 = s2
  Wallets <- MCWallets
  Tokens <- MCTokens
  Sessions <- MCSessions
  Value <- MCValue
  IssuedTo <- MCIssuedTo
  Expiry <- MCExpiry
  Signers <- MCWallets
  Prices = {1}
  Times = {1, 2}
  MaxHops = 1
  ChainBound = 2
INVARIANTS
  TypeOK
  UnsettledSingleHolder
  CustodyInv
  CustodyIsLinear
PROPERTIES
  NoReuseBeforeSettlement
  ImplementsFirstClaim
