CONSTANTS
  COUNT_PC_UNIT = 2
  QUEUE_SIZE = 1
  MEM_SIZE = 9
  Inputs <- WideNetworks
SPECIFICATION Spec
INVARIANT NoNeuronLost
INVARIANT EveryNeuronAccounted
INVARIANT NoPrematureEnd
INVARIANT EveryNeuronCounted
PROPERTY Terminates
PROPERTY ImplementsDispatch
