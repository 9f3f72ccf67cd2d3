SPECIFICATION Spec
CONSTANTS
  BYTE = 16
  W16 = 2
  W32 = 3
  W64 = 4
  HASH = 4
  P = 32719
  N = 32371
  CURVE_B = 6
  G <- MCPubG
  WINDOW_A = 4
  WINDOW_G = 4
  SCALAR_BITS = 15
  DIGITS = 4
  DIGIT_BITS = 4
  NUMS_X = 7
  HIGH = 8
  LONG_FORM = 128
  Hmac <- MCHmac
  RADIX = 13
  ENCODE_RATIO <- MCEncodeRatio
  DECODE_RATIO <- MCDecodeRatio
  CHECK = 1
  Sha256d <- MCSha256d
  Sha256 <- MCSha256
  Hash160 <- MCHash160
  Rmd160 <- MCRmd160
  HASH160 = 3
  HEX = 4
  MINI_LENGTHS = {4}
  CHAR_S = 10
  QUESTION_MARK = 40
  PRIVKEY = 12
  PUBKEY_ADDRESS = 0
  QTUM_ADDRESS = 5
  BTC = 0
  ETH = 60
  EOS = 194
  QTUM = 230
  EOS_CHECK = 1
  HmacSha512 <- MCHmacSha512
  SEED_KEY <- MCSeedKey
  FINGERPRINT = 1
  Scrypt <- MCScrypt
  AesEncrypt <- MCAesEncrypt
  AesDecrypt <- MCAesDecrypt
  FLAG_LEN = 2
  ADDRESS_HASH = 1
  NOEC_PREFIX = 1
  EC_PREFIX = 2
  WORD_BITS = 7
  GROUP = 5
  MAX_WORDS = 6
  PhraseHash <- MCSha256
  Pbkdf2 <- MCPbkdf2
  MNEMONIC <- MCMnemonic
  ENTROPIES <- MCEntropies
  TYPED <- MCTyped
  COINS = {0, 60, 194, 230}
  CHANGES = {0, 1}
  INDEXES = {5}
  PASSPHRASES <- MCPassphrases
  SEEDBS <- MCSeedbs
  ENTROPY_WORDS <- MCEntropyWords
  MINI_KEYS <- MCMiniKeys
  DIGESTS <- MCDigests
  JUNK <- MCJunk
INVARIANTS
  DerivedKeysAgree
  KeyKept
  SignaturesHold
  PhraseIsEncoding
CHECK_DEADLOCK FALSE
