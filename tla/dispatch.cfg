CONSTANTS
  COUNT_PC_UNIT = 3
  QUEUE_SIZE = 2
  MEM_SIZE = 1
  Sizes = {0, 1, 2, 4, 11}
SPECIFICATION Spec
PROPERTY ImplementsTaskPool
