CONSTANTS
  Pids = {p1, p2, p3}
  NoPid = NoPid
  shell = shell
  flag = flag
  Words = {shell, flag}
  Blank = Blank
  ArgLists <- MCArgLists
  MaxArgs = 2
  MaxText = 1
  Rules <- MCRules
  CacheCap = 1
  RingCap = 1
SPECIFICATION Spec
SYMMETRY Symmetry
CHECK_DEADLOCK FALSE
INVARIANTS
  TypeOK
  OwnArguments
  OnlySpoiledEntriesStay
PROPERTY AnomaliesAreOfTheCall
