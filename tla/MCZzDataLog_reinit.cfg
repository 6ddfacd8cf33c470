\* An Init that was refused, a second one, and a rotation.
SPECIFICATION Spec
CONSTANTS
  A = A
  B = B
  wide = wide
  long = long
  endless = endless
  bad = bad
  anonymous = anonymous
  Structs = {A, B, anonymous}
  Refused = {}
  Nameless = {anonymous}
  LongFormats = {}
  LongNames = {}
  LongInfos <- MCLongInfos
  MaxPayload = 5
  SizeOf <- MCSizeOf
  MessageSize <- MCMessageSize
  MaxFileSize = 8
  IdCount = 16
  Keys = {"", "k"}
  Values = {"k"}
  Texts = {"", "ulg", "test"}
  Names <- Versioned
  Constructors = {"CreateInstance"}
  Api <- Managed
  MaxCalls = 7
INVARIANTS
  DataIsAttributed
CHECK_DEADLOCK FALSE
