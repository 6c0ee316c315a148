CONSTANTS
  Programs <- MCConstStackPrograms
  NumRegs = 2
  Blocked = {}
  Bias = 0
SPECIFICATION Spec
INVARIANT StackMapsExact
