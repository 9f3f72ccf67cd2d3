SPECIFICATION ArithmeticSpec
CONSTANTS
  P = 43
  N = 31
  CURVE_B = 7
  G <- MCG
  WINDOW_A = 4
  WINDOW_G = 4
  SCALAR_BITS = 5
  DIGITS = 3
  DIGIT_BITS = 2
  NUMS_X = 12
  Operand = {1, 6, 11}
  Scalar = {0, 14, 30}
  Denominator = {3}
  MAX_BLINDS = 1
  LIMBS = 4
  LIMB = 6
  TOP = 4
  C0 = 3
  C1 = 1
  UINT32 = 10
  UINT64 = 18
  STORAGE = 11
  MAX_MAGNITUDE = 8
  WORDS = 4
  WORD_BITS = 3
  NC <- MCNC
  FeOperand = {0, 1, 3141592, 4194236}
  ScalarOperand = {1, 2007, 3333, 4014, 4016}
  Factor = {2, 7}
  Shift = {1, 2}
  MAX_STEPS = 5
INVARIANTS
  RightMultiple
  FieldExact
  ScalarExact
CHECK_DEADLOCK FALSE
