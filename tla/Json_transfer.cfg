SPECIFICATION Spec
CONSTANTS
  Events <- MCEvents
  EventJson <- MCEventJson
  LineEvent <- MCLineEvent
  SizeOf <- MCSize
  Findable <- MCFindable
  Files <- MCFiles
  MaxEvents = 5
  MaxLineBytes = 3
  ChunkSizes = {1, 3}
INVARIANTS
  OutputIsWritten
  ReadsLines
  ReadsBack
PROPERTIES
  ReadsOwnOutput
  ImplementsEventStream
