CONSTANTS
  Comms = {n1, n2, n3}
  MaxTracked = 2
  BurstWindow = 2
  BurstThreshold = 3
  CountCap = 7
  MaxTime = 6
  MaxExits = 7
SPECIFICATION Spec
SYMMETRY Symmetry
CHECK_DEADLOCK FALSE
INVARIANTS
  TypeOK
  BurstsAreReal
  DenseBurstsReported
