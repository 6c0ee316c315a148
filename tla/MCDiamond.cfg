CONSTANTS
  Programs <- MCDiamondPrograms
  NumRegs = 2
  Blocked = {}
  Bias = 0
SPECIFICATION Spec
INVARIANTS
  NoAssertionFailure
  DataflowCorrect
  StackMapsExact
  SiblingsPartitionLifetime
  RegisterFingersOwnIntervals
PROPERTIES
  AllocationRefined
