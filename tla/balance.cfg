CONSTANTS
  COUNT_PC_UNIT = 3
  QUEUE_SIZE = 3
  MEM_SIZE = 12
  Inputs <- BalanceNetworks
SPECIFICATION Spec
INVARIANT Balanced
PROPERTY InputsStable
