SPECIFICATION Spec
CONSTANTS
  LastInstance = 2
  MaxCalls = 2
CHECK_DEADLOCK FALSE
PROPERTIES OldReplyChangesNothing
