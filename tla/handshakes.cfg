CONSTANTS
  COUNT_PC_UNIT = 2
  QUEUE_SIZE = 2
  MEM_SIZE = 3
  Inputs <- SmallNetworks
SPECIFICATION Spec
INVARIANT PulsesHeard
INVARIANT CopyAligned
INVARIANT ChangesExclusive
INVARIANT ReadsSettled
INVARIANT BusOneDriver
INVARIANT StartFindsAllLoaded
INVARIANT MemoryInBounds
INVARIANT WeightAddressInRange
PROPERTY ResultsNotObeyed
