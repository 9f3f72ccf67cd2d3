CONSTANTS
  BYTE = 32
  W16 = 2
  W32 = 3
  W64 = 4
  HASH = 4
  TAG = 3
  Key = {"k", "l", "u"}
  Fields <- MCFields
  MaxFields = 3
  MaxAdded = 1
  MaxHops = 2
  Created <- MCCreated
  Letters <- MCLetters
  TxParse <- MCTxParse
  IsPubKey <- MCIsPubKey
  Sha256 <- MCSha256
  Sha1 <- MCSha1
  X509_SHA256 <- MCX509
  X509_SHA1 <- MCSha1Name
  PubKey <- MCPubKey
  PointMul <- MCPointMul
  KeySign <- MCKeySign
  KeyVerify <- MCKeyVerify
  Derive <- MCDerive
  AEADEncrypt <- MCEncrypt
  AEADDecrypt <- MCDecrypt
SPECIFICATION Spec
CHECK_DEADLOCK FALSE
INVARIANTS
  
  
  DigestAsSigned
  BothSidesDecrypt
