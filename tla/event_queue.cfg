CONSTANTS
  Times = {1, 2, 3, 4}
  SIZE = 8
  sz = 1
SPECIFICATION Spec
INVARIANT InAllocation
PROPERTY ImplementsPriorityQueue
