\* Two pairs of processes with two rounds; a heap of 14 words for requests of
\* up to 7 in all; three processes, a byte of three values and two commands;
\* two programs that ask for three sounds.
CONSTANTS
  Pairs = 2
  Rounds = 2
  Expected = 0
  HeapWords = 14
  MaxRequest = 7
  MaxBlocks = 3
  MaxMemory = 7
  MaxPid = 3
  Bytes = 3
  MaxProcesses = 3
  MaxCommands = 2
  Clients = {1, 2}
  MaxSounds = 3
CHECK_DEADLOCK FALSE
SPECIFICATION Spec
INVARIANTS
  SumKept BlocksKept BeliefsHold OnlyWindows
PROPERTIES
  SoundsPlayed
