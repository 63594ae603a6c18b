SPECIFICATION FairSpec
CONSTANTS
  w1 = w1
  w2 = w2
  w3 = w3
  t1 = t1
  t2 = t2
  t3 = t3
  t4 = t4
  t5 = t5
  Wallets <- MCWallets
  Tokens <- MCTokens
  Value <- MCValue
  IssuedTo <- MCIssuedTo
  Signers <- MCSigners
  Prices <- MCPrices
INVARIANTS
  TypeOK
  HeldByOne
  NeverLost
  PayerNeverOvercharged
PROPERTIES
  ImplementsAtomicPayment
  SessionEnds
