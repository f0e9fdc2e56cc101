SPECIFICATION Spec
CONSTANTS
  Writers = {w1, w2, w3}
  MaxSkew = 1
  MaxCalls = 4
  MaxTicks = 2
SYMMETRY Symmetry
INVARIANTS SerialChainValid NoDanglingLink
CHECK_DEADLOCK FALSE
