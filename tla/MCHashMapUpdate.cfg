CONSTANTS
  Keys = {k1, k2}
  MaxObjects = 7
SPECIFICATION Spec
INVARIANT NothingLost
SYMMETRY KeySymmetry
CHECK_DEADLOCK FALSE
