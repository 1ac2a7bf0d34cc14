CONSTANTS
  NumConfigs = 1
  Period <- MCPeriod
  Attempts = 2
  RestartWait = 1
  Slack = 1
  MaxCommands = 3
  MaxRestarts = 1
SPECIFICATION Spec
CHECK_DEADLOCK FALSE
INVARIANT TypeOK
PROPERTIES
  QuietToggleResetsPeriod
  OutageEnds
  ShutdownCompletes
  ImplementsSwitches
