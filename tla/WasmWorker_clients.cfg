SPECIFICATION FairSpec
CONSTANTS
  StreamIds = {"a", "b"}
  MaxRequests = 5
INVARIANTS
  HandlesOwned
  CloseEndsSessions
PROPERTIES
  DuplicatesRefused
  EveryRequestAnswered
CHECK_DEADLOCK FALSE
