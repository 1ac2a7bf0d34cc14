CONSTANTS
  Pids = {p1, p2}
  NoPid = NoPid
  target = target
  other = other
  Progs = {target}
  NoProg = NoProg
  Configs = {c1}
  NameOf <- MCNameOf
  RingCap = 6
  ShortLivedSeconds = 0
  MaxTracked = 2
  BurstWindow = 1
  CountCap = 1
  MaxClock = 0
  MaxRestarts = 0
  MultiThreaded = {p1}
SPECIFICATION Spec
SYMMETRY Symmetry
CHECK_DEADLOCK FALSE
PROPERTY ThreadedStaysTracked
