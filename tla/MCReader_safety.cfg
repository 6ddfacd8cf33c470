\* Every cut of every log, handlers that may throw, exceptions that escape:
\* safety, and the refinement of LogParser.
SPECIFICATION Spec
CONSTANTS
  Streams <- MCAnyStreams
  ChunkSizes <- MCChunks
  MaxPayload = 65535
  BufferSizeInit = 6
  HandlerVerdicts = {TRUE, FALSE}
INVARIANTS
  TypeOK
  BufferIsContiguous
  BufferFits
  RecoveryAppends
  CallbackOrder
  DeliveredInOrder
  FatalIsFinal
  DeliveredAtOnce
PROPERTIES
  ImplementsLogParser
  StepsDescend
CHECK_DEADLOCK FALSE
