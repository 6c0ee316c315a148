CONSTANTS
  Programs <- MCPrograms
  NumRegs = 2
  Blocked = {}
  Bias = 0
SPECIFICATION Spec
INVARIANTS
  TypeOK
  NoAssertionFailure
  RegisterNoOverlap
  DataflowCorrect
  StackMapsExact
  SiblingsPartitionLifetime
  LocationSummariesAllocated
PROPERTIES
  AllocationRefined
  CursorMonotone
