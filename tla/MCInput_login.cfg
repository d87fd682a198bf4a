SPECIFICATION Spec
CONSTANTS
  MAX_INPUT = 3
  MAX_ATTEMPTS = 2
  Letters = {"n"}
  Upper <- MCUpper
  VALID_USER <- MCUser
  VALID_PASS <- MCPass
  Bytes <- MCBytes
  QueueLen = 1
INVARIANTS TypeOK CompareEnds ThreeStrikes ReaderIsAsking KeyboardReady
PROPERTIES KeysAreRead ComparesEnteredLine
CHECK_DEADLOCK FALSE
