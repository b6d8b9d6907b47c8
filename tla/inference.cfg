CONSTANTS
  COUNT_PC_UNIT = 2
  QUEUE_SIZE = 2
  MEM_SIZE = 3
  Inputs <- SmallNetworks
SPECIFICATION Spec
INVARIANT TypeOK
PROPERTY ImplementsFeedForward
