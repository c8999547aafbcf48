CONSTANTS
  Names <- MCNames
  Parts <- MCParts
  Key <- MCKey
  Fs <- MCFs
  BadNames = {".."}
  Blocked = {"link"}
  Wanted = {"sig"}
  Headers <- MCHeaders
  Contents = {"x", "y"}
  Ratios = {0, 1050}
  MaxFiles = 2
  MaxFileBytes = 1024
  MaxTotalBytes = 1200
  MaxPathLength = 512
SPECIFICATION Spec
INVARIANTS
  HandedBounded
  WrittenWasChecked
  NamesApart
  CollectedIsWritten
  KeptIsUnpacked
