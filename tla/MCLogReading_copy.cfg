\* Every cut of every log, read into a Writer and into each DataContainer.
SPECIFICATION Reading
CONSTANTS
  Streams <- MCLogs
  ChunkSizes <- MCChunks
  MaxPayload = 65535
  BufferSizeInit = 6
  HandlerVerdicts = {TRUE, FALSE}
  NewHandlers <- MCNewHandlers
INVARIANTS
  ChunkingInvisible
  NothingMissed
  CopyIsStable
  CopyReadsAlike
  PartsStayTogether
  OnlyHeaderKept
CHECK_DEADLOCK FALSE
