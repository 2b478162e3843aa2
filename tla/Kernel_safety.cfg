SPECIFICATION Spec
CONSTANTS
  MaxPid = 2
  MaxPriority = 1
  MaxSems = 2
  MaxValue = 1
  MaxSleep = 1
  Names = {"", "a"}
INVARIANTS
  DevicesSound
PROPERTIES
  OneTokenPerPost NoOvertaking HangsByCtrlCOnly ImplementsProcesses
VIEW LiveView
