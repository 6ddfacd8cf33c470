\* The comment on the partial buffer in reader.hpp, after a recovery.
SPECIFICATION Spec
CONSTANTS
  Streams <- MCRecoveryStreams
  ChunkSizes <- MCChunks
  MaxPayload = 65535
  BufferSizeInit = 20
  HandlerVerdicts = {TRUE}
INVARIANTS
  AtMostOneMessage
CHECK_DEADLOCK FALSE
