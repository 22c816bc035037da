SPECIFICATION Spec
CONSTANTS
  Documents <- EmptyBaskets
  TokenBytes = 3
  ReparseDeferral = FALSE
  ChunkSizes = {1, 7, 60}
  MaxQueuedEvents = 2
  MaxDepth = 5
  MaxTotalInputBytes = 0
  QueuedInputChunkSize = 6
  ExpectedVersion = "Any"
  Strict = FALSE
  PreserveUnknownExtensions = TRUE
  RequireAtLeastOneModel = FALSE
INVARIANTS
  ValidNeverFails
