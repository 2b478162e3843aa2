\* Three processes and a ring of two bytes; up to four keys that nobody has read.
CONSTANTS
  Proc = {p1, p2, p3}
  Byte = {0, 1}
  BufferSize = 2
  MaxLen = 3
  MaxUnread = 4
SPECIFICATION Spec
INVARIANTS
  TokensSound
PROPERTIES
  ShortReadEmpties
  ImplementsChannel
  DestroyedIsLeft
CHECK_DEADLOCK FALSE
