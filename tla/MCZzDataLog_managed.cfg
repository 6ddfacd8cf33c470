\* The Init and Write interface, rotating once and again.
SPECIFICATION Spec
CONSTANTS
  A = A
  B = B
  wide = wide
  long = long
  endless = endless
  bad = bad
  anonymous = anonymous
  Structs = {A, B, wide, long}
  Refused = {}
  Nameless = {}
  LongFormats = {long}
  LongNames = {}
  LongInfos <- MCLongInfos
  MaxPayload = 5
  SizeOf <- MCSizeOf
  MessageSize <- MCMessageSize
  MaxFileSize = 8
  IdCount = 16
  Keys = {"", "k"}
  Values = {"k"}
  Texts = {"", "ulg", "test"}
  Names <- Versioned
  Constructors = {"CreateInstance"}
  Api <- Managed
  MaxCalls = 6
INVARIANTS
  TypeOK
  DataIsAttributed
  DataIsLoggedOnce
  RoomIsLeft
  FileSizeIsBounded
PROPERTIES
  RotationKeepsIds
  WriteIsDefined
CHECK_DEADLOCK FALSE
