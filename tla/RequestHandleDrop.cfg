CONSTANTS
  Workers = {w1, w2, w3}
  CanAbort = TRUE
SPECIFICATION Spec
SYMMETRY ThreadSymmetry
INVARIANT DropDrains
