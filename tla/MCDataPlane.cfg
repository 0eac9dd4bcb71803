SPECIFICATION Spec
CONSTANTS
  Base = 4
  Magic = 9
  MaxValues = 2
  MaxPayload = 24
  MaxVersionLen = 3
  CoreAbi = 1
  CoreVersion <- MCCoreVersion
  Inputs <- MCInputs
  Foreign <- MCForeign
  FirstId = 15
  MaxCalls = 2
  MaxLength = 56
  MaxDamage = 1
INVARIANTS AnswersAreRight PlanesAgree DecodersAgree ValidationsAgree
CHECK_DEADLOCK FALSE
