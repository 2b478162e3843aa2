SPECIFICATION Spec
CONSTANTS
  MaxPid = 3
  MaxPriority = 2
INVARIANTS
  Circle PrevInStep StackStays SearchFinds
PROPERTIES
  ImplementsSchedule LoopEnds
