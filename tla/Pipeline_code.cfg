\* At most one key, a ring of two bytes.
CONSTANTS
  Text <- MCText
  MaxTyped = 1
  BufferSize = 2
  Argument <- MCArgument
CHECK_DEADLOCK FALSE
SPECIFICATION Spec
INVARIANT
  ReturnsCodeOfSecond
