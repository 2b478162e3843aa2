\* Arrays of up to 4 elements, a history of 3 over 4 names, 8-bit numbers,
\* one or two modules of up to 4 words; the list of free blocks on 24 words
\* with requests of up to 6, the buddies on 16 words with up to 14.
CONSTANTS
  Element = {e1, e2}
  InitialCapacity = {0, 3}
  MaxGiven = 2
  MaxLength = 4
  Width = 8
  Name = {a, b, c, d}
  Size = 3
  BufferSize = 2
  KernelAt = 1
  MaxFile = 4
  HeapWords = 24
  MaxRequest = 6
  Top = 4
  MaxBuddyRequest = 14
CHECK_DEADLOCK FALSE
SPECIFICATION Spec
INVARIANTS
  NumbersReadBack ModulesLoaded HeapSound
PROPERTIES
  ImplementsVector ImplementsRecent ImplementsAllocator
