CONSTANTS
  Programs <- MCPhiPrograms
  NumRegs = 2
  Blocked = {}
  Bias = 0
SPECIFICATION Spec
INVARIANTS
  DataflowCorrect
  LocationSummariesAllocated
  StackMapsExact
