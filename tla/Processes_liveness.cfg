SPECIFICATION Spec
CONSTANTS
  MaxPid = 2
  MaxPriority = 2
PROPERTIES
  ReadyRuns ExitedFreed
