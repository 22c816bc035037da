SPECIFICATION Spec
CONSTANTS
  Documents <- ChunkedDocuments
  TokenBytes = 3
  ReparseDeferral = FALSE
  ChunkSizes = {1, 12, 60}
  MaxQueuedEvents = 2
  MaxDepth = 6
  MaxTotalInputBytes = 0
  QueuedInputChunkSize = 9
  ExpectedVersion = "Any"
  Strict = FALSE
  PreserveUnknownExtensions = TRUE
  RequireAtLeastOneModel = FALSE
INVARIANTS
  DeliveredInOrder
  ReadsDocument
  SuspendedHasEvents
  QueueBound
  ValidNeverFails
  NothingPassesSilently
PROPERTIES
  ReportsAreKept
  NeedInputMeansDrained
