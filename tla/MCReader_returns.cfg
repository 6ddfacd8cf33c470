\* Under fairness of the running call: readChunk returns.
SPECIFICATION FairSpec
CONSTANTS
  Streams <- MCReturnStreams
  ChunkSizes <- MCChunks
  MaxPayload = 65535
  BufferSizeInit = 6
  HandlerVerdicts = {TRUE, FALSE}
PROPERTIES
  CallsReturn
CHECK_DEADLOCK FALSE
