CONSTANTS
  d = d
  f = f
  g = g
  extra = extra
  root = root
  N = 3
  Root = root
  Slots <- MCSlots
  Up <- MCUp
  IsDir <- MCIsDir
  SlotOf <- TreeSlotOf
  HasNotes = TRUE
  MaxFaults = 1
  MaxForeign = 0
SPECIFICATION Spec
INVARIANTS AsItWasOrBackupTold
