SPECIFICATION Spec
CONSTANTS
  MaxPid = 2
  MaxPriority = 1
  MaxSems = 1
  MaxValue = 1
  MaxSleep = 2
  Names = {""}
PROPERTIES
  SleepEnds
