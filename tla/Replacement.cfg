CONSTANTS
  d = d
  f = f
  g = g
  extra = extra
  root = root
  N = 3
  Root = root
  Slots <- MCSlots
  Up <- MCUp
  IsDir <- MCIsDir
  SlotOf <- TreeSlotOf
  HasNotes = TRUE
  MaxFaults = 3
  MaxForeign = 1
SPECIFICATION FairSpec
INVARIANTS TypeOK OriginalsHeld LeftoversNamed Undone Whole
PROPERTIES ForeignFilesKept Ends ImplementsAtomicMerge
