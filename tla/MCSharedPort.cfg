SPECIFICATION Spec
CONSTANTS
  LastInstance = 3
  MaxCalls = 2
CHECK_DEADLOCK FALSE
INVARIANTS Inv
PROPERTIES QuietPortIsOwn
