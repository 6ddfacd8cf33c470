\* Every method, in any order, from a CreateInstance or file constructor.
SPECIFICATION Spec
CONSTANTS
  A = A
  B = B
  wide = wide
  long = long
  endless = endless
  bad = bad
  anonymous = anonymous
  Structs = {A, long, endless, bad, anonymous}
  Refused = {bad}
  Nameless = {anonymous}
  LongFormats = {long, endless}
  LongNames = {endless}
  LongInfos <- MCLongInfos
  MaxPayload = 5
  SizeOf <- MCSizeOf
  MessageSize <- MCMessageSize
  MaxFileSize = 8
  IdCount = 16
  Keys = {"", "k", "l"}
  Values = {"k"}
  Texts = {"", "ulg", "test"}
  Names <- AnyNames
  Constructors = {"CreateInstance", "file", "callback"}
  Api <- AnyCall
  MaxCalls = 5
INVARIANTS
  LayersAgree
  WriterHasOpenFile
  IdsAreSubscribed
  FilesAreReadable
CHECK_DEADLOCK FALSE
