CONSTANTS
  NumConfigs = 2
  Period <- MCPeriod
  Attempts = 1
  RestartWait = 1
  Slack = 1
  MaxCommands = 1
  MaxRestarts = 0
SPECIFICATION Spec
CHECK_DEADLOCK FALSE
PROPERTIES
  OutageEnds
  NoConfigStarved
