SPECIFICATION FairSpec
CONSTANTS
  Documents <- FaultyDocuments
  TokenBytes = 3
  ReparseDeferral = TRUE
  ChunkSizes = {0, 1, 11}
  MaxQueuedEvents = 1
  MaxDepth = 5
  MaxTotalInputBytes = 72
  QueuedInputChunkSize = 10
  ExpectedVersion = "Any"
  Strict = TRUE
  PreserveUnknownExtensions = FALSE
  RequireAtLeastOneModel = TRUE
INVARIANTS
  ReadsDocument
  DialectAgreement
PROPERTIES
  ImplementsEventStream
  Terminates
