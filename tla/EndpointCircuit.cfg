CONSTANTS
  Worker = {w1, w2}
  Threshold = 2
  Cooldown = 2
  Attempts = 2
  MaxBreaks = 1
  MaxFlips = 2
SPECIFICATION FairSpec
INVARIANTS
  Presumption
  BudgetIsTheEndpoints
PROPERTIES
  ProbesApart
  Recovers
