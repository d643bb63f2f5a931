SPECIFICATION Spec
CONSTANTS
  WordSize = 7
  HandleSize = 2  KeyLength = 1  HashLength = 2  ExportKeyLength = 1
  RequestLength = 1  ResponseLength = 2  RecordLength = 1
  Ke1Length = 1  Ke2Length = 2  Ke3Length = 1
  MaxSecureKey = 2  MaxAccountId = 1
  Sizes = {0, 1, 2, 3}
INVARIANTS OverlapIsExact InputsIntact OutputsComplete WritesInBounds
CHECK_DEADLOCK FALSE
