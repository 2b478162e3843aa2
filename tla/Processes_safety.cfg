SPECIFICATION Spec
CONSTANTS
  MaxPid = 3
  MaxPriority = 1
INVARIANTS
  OneWaitPlace StackInUse
PROPERTIES
  DoomedNeverRuns OnlyCtrlCExitsHeld WakesWhenAwaitedExits
VIEW LiveView
