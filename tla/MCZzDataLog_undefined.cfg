\* A rotation that fails, and any call after it.
SPECIFICATION Spec
CONSTANTS
  A = A
  B = B
  wide = wide
  long = long
  endless = endless
  bad = bad
  anonymous = anonymous
  Structs = {A, B}
  Refused = {}
  Nameless = {}
  LongFormats = {}
  LongNames = {}
  LongInfos <- MCLongInfos
  MaxPayload = 5
  SizeOf <- MCSizeOf
  MessageSize <- MCMessageSize
  MaxFileSize = 8
  IdCount = 16
  Keys = {"", "k"}
  Values = {"k"}
  Texts = {"", "ulg", "test"}
  Names <- AnyNames
  Constructors = {"CreateInstance"}
  Api <- Managed
  MaxCalls = 6
INVARIANTS
  NothingUndefined
CHECK_DEADLOCK FALSE
