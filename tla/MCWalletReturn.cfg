CONSTANTS
  Thread = {p1}
  NoThread = NoThread
  a = a
  b = b
  c = c
  d = d
  x = x
  Tx = {a, b, d}
  NoTx = NoTx
  Foreign = {x}
  In <- MCIn
  Out <- MCOut
  NoAddr = NoAddr
  Value <- MCValue
  Postdated = {}
  LockHeight <- MCLockHeight
  Heights = {1}
  TX_UNCONFIRMED = 9
  Chain <- MCChain
  Derived <- MCDerived
  GapLimit <- MCGap
  Saved <- MCSaved
SPECIFICATION FairSpec
PROPERTY CallsReturn
