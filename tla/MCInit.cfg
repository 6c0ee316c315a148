CONSTANTS
  Programs <- MCInitPrograms
  NumRegs = 2
  Blocked = {}
  Bias = 0
SPECIFICATION Spec
INVARIANTS
  NoAssertionFailure
  RegisterNoOverlap
  DataflowCorrect
  StackMapsExact
  SiblingsPartitionLifetime
  LocationSummariesAllocated
PROPERTIES
  AllocationRefined
