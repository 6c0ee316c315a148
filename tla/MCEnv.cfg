CONSTANTS
  Programs <- MCEnvPrograms
  NumRegs = 2
  Blocked = {}
  Bias = 0
SPECIFICATION Spec
INVARIANTS
  NoAssertionFailure
  RegisterNoOverlap
  DataflowCorrect
  StackMapsExact
  LocationSummariesAllocated
PROPERTIES
  AllocationRefined
