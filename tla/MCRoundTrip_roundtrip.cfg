\* SimpleWriter's logs, read with either storage configuration.
SPECIFICATION Spec
CONSTANTS
  FormatsGiven <- MCFormatsGiven
  Keys <- MCKeys
  Values <- MCValues
  MultiIds = {1}
  Texts <- MCTexts
  Contents = {10, 20}
  MaxPayload = 60
  MaxCalls = 5
  StorageConfigs = {"Header", "FullLog"}
INVARIANTS
  TypeOK
  NoErrors
  ReadsBack
  ValuesReadBack
CHECK_DEADLOCK FALSE
