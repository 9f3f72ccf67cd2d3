CONSTANTS
  BYTE = 16
  W16 = 2
  W32 = 3
  W64 = 4
  HASH = 4
  OP_PUSHDATA1 = 6
  OP_PUSHDATA2 = 7
  OP_PUSHDATA4 = 8
  OP_DUP = 9
  OP_EQUAL = 10
  OP_EQUALVERIFY = 11
  OP_HASH160 = 12
  OP_CHECKSIG = 13
  HASH160_LEN = 2
  PUBKEY_LEN = {3, 4}
  MAX_SCRIPT_LENGTH = 14
  PubkeyAddress <- MCPubkeyAddress
  ScriptAddress <- MCScriptAddress
  Hash160 <- MCHash160
  SIGHASH_ALL = 1
  SIGHASH_NONE = 2
  SIGHASH_SINGLE = 3
  SIGHASH_FORKID = 4
  SIGHASH_ANYONECANPAY = 8
  TX_INPUT_SIZE = 21
  TX_VERSION = 1
  TXIN_SEQUENCE = 4095
  Sha256d <- MCSha256d
  Key = {"k", "u"}
  PubKey <- MCPubKey
  KeySign <- MCKeySign
  ForkIds = {0, 4}
  Prevouts <- MCPrevouts
  Payments <- MCPayments
  Amounts = {1}
  MaxInputs = 2
  MaxOutputs = 2
SPECIFICATION Spec
CHECK_DEADLOCK FALSE
INVARIANTS
  SignaturesVerify
  DigestsMatch
  RoundTrip
  TruncationRefused
  SizeRight
