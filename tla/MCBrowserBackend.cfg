CONSTANTS
  Calls = {c1, c2, c3}
  MaxPending = 2
  MaxSafeId = 3
  MaxFaults = 1
  BrokenPayloads = {"wrongShape"}
SPECIFICATION FairSpec
CHECK_DEADLOCK FALSE
INVARIANTS Inv RSInv OkMeansExecuted FailureHasReason
PROPERTIES ImplementsApi EveryCallAnswered
