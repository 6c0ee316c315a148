CONSTANTS
  Programs <- MCStackPrograms
  NumRegs = 2
  Blocked = {}
  Bias = 0
SPECIFICATION Spec
INVARIANT RequiresStackHonoured
