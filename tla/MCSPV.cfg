CONSTANTS
  BYTE = 16
  W16 = 2
  W32 = 3
  W64 = 4
  HASH = 4
  BLOOM_MAX_FILTER_LENGTH = 3
  BLOOM_MAX_HASH_FUNCS = 3
  BitsPerElement <- MCBitsPerElement
  Murmur3 <- MCMurmur3
  MAX_SIZE = 4
  MAX_TARGET = 127
  TARGET_TIMESPAN = 64
  BLOCK_DIFFICULTY_INTERVAL = 2
  BLOCK_MAX_TIME_DRIFT = 200
  BLOCK_UNKNOWN_HEIGHT = 4095
  Sha256d <- MCSha256d
  Element <- MCElement
  Rates = {2, 5}
  Counts = {1, 4}
  Tweaks = {0, 9}
  Blocks <- MCBlocks
  Steps = {1, 40, 310}
  WrongTargets = {1151, 896}
  Nonces = {0, 1, 2, 3, 4, 5, 6, 7}
  FirstTarget = 1052
  FirstTime = 20
  Now = 400
  MaxHeaders = 5
SPECIFICATION Spec
CHECK_DEADLOCK FALSE
INVARIANTS
  FoundAll
  ProvenInBlock
  WorkIsReal
  TargetAsDefined
