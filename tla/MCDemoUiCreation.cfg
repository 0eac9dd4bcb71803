CONSTANT MaxInstances = 3
SPECIFICATION Spec
CHECK_DEADLOCK FALSE
INVARIANT OneCreationAtATime
