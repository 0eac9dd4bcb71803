CONSTANTS
  MaxRequests = 4
  MaxErrors = 1
SPECIFICATION FairWorkerSpec
CHECK_DEADLOCK FALSE
INVARIANTS WorkerInv RepliesInOrder
PROPERTIES ImplementsContract EveryRequestAnswered
