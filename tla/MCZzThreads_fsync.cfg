\* main flushes while another thread's Write rotates the file.
SPECIFICATION FairManaged
CONSTANTS
  A = A
  B = B
  wide = wide
  t1 = t1
  t2 = t2
  main = main
  Structs = {A, B, wide}
  Refused = {}
  Nameless = {}
  LongFormats = {}
  LongNames = {}
  LongInfos = {}
  MaxPayload = 5
  SizeOf <- MCSizeOf
  MessageSize <- MCMessageSize
  MaxFileSize = 8
  IdCount = 16
  Keys = {"", "k"}
  Values = {"k"}
  Texts = {"", "ulg", "test"}
  Names <- MCNames
  Constructors = {"CreateInstance"}
  Api = {"Write"}
  MaxCalls = 8
  Threads = {t1, t2, main}
  Program <- MCProgram
  TypeOf <- MCTypeOf
  Calls <- MCCalls
  AllStructs <- MCAllStructs
  FlushEvery = 2
  Free = free
INVARIANT
  FilesInUseAreOpen
CHECK_DEADLOCK FALSE
