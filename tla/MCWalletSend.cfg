CONSTANTS
  UtxoLists <- MCUtxoLists
  FeeRates = {2, 5}
  Requests <- MCRequests
  TX_FEE_PER_KB = 1
  MIN_FEE_PER_KB = 2
  TX_MIN_OUTPUT_AMOUNT = 4
  TX_OUTPUT_SIZE = 1
  TX_INPUT_SIZE = 2
  TX_MAX_SIZE = 10
  KB = 4
  ROUND = 3
  HEADER = 2
SPECIFICATION Spec
INVARIANTS
  WellBuilt
  MaxSendable
PROPERTY
  MadeToFit
