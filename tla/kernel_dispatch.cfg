CONSTANTS
  COUNT_PC_UNIT = 2
  QUEUE_SIZE = 2
  MEM_SIZE = 1
  Sizes = {0,2,8}
  Nobody = Nobody
  NoEvent = NoEvent
SPECIFICATION Spec
PROPERTY EdgeByEdge
PROPERTY ClockRuns
