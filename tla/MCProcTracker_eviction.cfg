CONSTANTS
  Pids = {p1, p2, p3}
  NoPid = NoPid
  target = target
  other = other
  Progs = {target}
  NoProg = NoProg
  Configs = {c1}
  NameOf <- MCNameOf
  RingCap = 1
  ShortLivedSeconds = 0
  MaxTracked = 2
  BurstWindow = 1
  CountCap = 1
  MaxClock = 1
  MaxRestarts = 0
  MultiThreaded = {}
SPECIFICATION Spec
SYMMETRY Symmetry
CHECK_DEADLOCK FALSE
CONSTRAINT FewAnomalies
INVARIANTS
  TypeOK
  UniquePids
  NoGhostEntries
PROPERTY LiveStaysTracked
