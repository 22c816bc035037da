SPECIFICATION Spec
CONSTANTS
  StreamIds = {"a"}
  MaxRequests = 5
PROPERTIES
  EveryDuplicateRefused
CHECK_DEADLOCK FALSE
