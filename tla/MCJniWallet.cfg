CONSTANTS
  Thread = {p1}
  NoThread = NoThread
  a = a
  b = b
  c = c
  x = x
  Tx = {a, b, c}
  NoTx = NoTx
  Foreign = {x}
  In <- MCIn
  Out <- MCOut
  NoAddr = NoAddr
  Value <- MCValue
  Postdated = {}
  LockHeight <- MCLockHeight
  Heights = {1, 2}
  TX_UNCONFIRMED = 9
  Chain <- MCChain
  Derived <- MCDerived
  GapLimit <- MCGap
  Saved = {}
  Undated = {}
  NoArray = NoArray
  Null = Null
  NoSweep = NoSweep
  MaxCount = 2
  SweepInputs <- MCSweepInputs
  MaxSweep = 2
  TxFee <- MCTxFee
  WORD = 1000
  BCASH_FORKHEIGHT = 2
  Requests <- MCRequests
  MAX_REQUEST = 5
SPECIFICATION JniSpec
INVARIANTS
  StatementAddsUp
  VerifiedCounts
  SweepPaysInputs
  ForkBalanceIsHistory
