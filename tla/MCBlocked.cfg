CONSTANTS
  Programs <- MCPrograms
  NumRegs = 3
  Blocked = {1}
  Bias = 1
SPECIFICATION Spec
INVARIANTS
  BlockedRegistersReserved
  DataflowCorrect
