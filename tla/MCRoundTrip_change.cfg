\* Parameter changes, written and read.
SPECIFICATION Spec
CONSTANTS
  FormatsGiven <- MCFormatsGiven
  Keys <- MCKeys
  Values <- MCValues
  MultiIds = {1}
  Texts <- MCTexts
  Contents = {10, 20}
  MaxPayload = 60
  MaxCalls = 3
  StorageConfigs = {"Header", "FullLog"}
INVARIANTS
  ChangesReadBack
CHECK_DEADLOCK FALSE
