SPECIFICATION Spec
CONSTANTS
  MAX_INPUT = 2
  MAX_ATTEMPTS = 2
  Letters = {"n"}
  Upper <- MCUpper
  VALID_USER <- MCUser
  VALID_PASS <- MCPass
  Bytes <- MCBytes
  QueueLen = 1
PROPERTIES EveryKeyIsRead
CHECK_DEADLOCK FALSE
