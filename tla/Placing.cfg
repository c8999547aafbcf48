CONSTANTS
  Call = {"a", "b"}
  Replaces = TRUE
  MaxFaults = 3
  MaxForeign = 1
  Caller = {c1, c2}
  Levels = 2
  UnpackFaults = 2
SPECIFICATION PlacingSpec
INVARIANTS
  OldHeld
  NextReaderFinds
  NothingUnnamed
PROPERTIES
  OthersParentsKept
  ImplementsPublication
