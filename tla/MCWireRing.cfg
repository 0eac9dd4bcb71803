SPECIFICATION RingSpec
CONSTANTS
  Capacity = 4
  Byte = {0, 1}
  Frames <- MCFrames
INVARIANT ViewIsStable
PROPERTY IsByteQueue
