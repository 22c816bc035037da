SPECIFICATION Spec
CONSTANTS
  Documents <- OnlyPlain23
  TokenBytes = 3
  ReparseDeferral = TRUE
  ChunkSizes = {1, 7, 60}
  MaxQueuedEvents = 1
  MaxDepth = 5
  MaxTotalInputBytes = 0
  QueuedInputChunkSize = 6
  ExpectedVersion = "Any"
  Strict = FALSE
  PreserveUnknownExtensions = TRUE
  RequireAtLeastOneModel = FALSE
INVARIANTS
  ValidNeverFails
