\* At most two keys, a ring of two bytes.
CONSTANTS
  Text <- MCText
  MaxTyped = 2
  BufferSize = 2
  Argument <- MCArgument
CHECK_DEADLOCK FALSE
SPECIFICATION Spec
INVARIANT
  OutputComposed
PROPERTY
  PipelineEnds
