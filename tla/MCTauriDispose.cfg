CONSTANTS
  Calls = {c1, c2}
  Options = {"auto"}
  MaxPending = 2
  MaxSafeId = 3
SPECIFICATION Spec
CHECK_DEADLOCK FALSE
PROPERTIES DisposeTellsDisposed
