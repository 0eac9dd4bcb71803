CONSTANT MaxInstances = 3
SPECIFICATION FairSpec
CHECK_DEADLOCK FALSE
INVARIANTS Inv NoInstanceForgotten
PROPERTIES StaleChangesNothing EveryWaitEnds
