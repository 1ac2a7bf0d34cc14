CONSTANTS
  NumberOf <- MCNumberOf
  IntMax = 3
  LongMax = 15
  Directories <- MCDirectories
SPECIFICATION Spec
CHECK_DEADLOCK FALSE
INVARIANTS
  TypeOK
  ConfigsAreAsWritten
  PeriodsArePositive
