CONSTANTS
  Worker = {w1, w2}
  Threshold = 2
  Cooldown = 1
  Attempts = 2
  MaxBreaks = 1
  MaxFlips = 1
SPECIFICATION FairSpec
PROPERTY Provisional
