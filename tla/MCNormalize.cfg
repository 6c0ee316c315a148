CONSTANTS
  Programs <- MCNormalizePrograms
  NumRegs = 3
  Blocked = {}
  Bias = 0
SPECIFICATION Spec
INVARIANTS
  TieFollowsLiveness
  DataflowCorrect
  LocationSummariesAllocated
