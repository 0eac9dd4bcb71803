CONSTANTS
  Calls = {c1, c2, c3}
  Options = {"json", "scheme", "port", "auto"}
  MaxPending = 2
  MaxSafeId = 3
SPECIFICATION FairSpec
CHECK_DEADLOCK FALSE
INVARIANTS Inv NoSilentFallback
PROPERTIES ImplementsApi EveryCallAnswered
