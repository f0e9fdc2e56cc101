SPECIFICATION Spec
CONSTANTS
  Writers = {w1, w2}
  MaxSkew = 0
  MaxCalls = 3
  MaxTicks = 1
SYMMETRY Symmetry
INVARIANTS AlwaysValid
CHECK_DEADLOCK FALSE
