CONSTANTS
  Worker = {w1, w2}
  Questions = 2
  Sessions = 2
  Claim = {a, b}
  None = None
  MaxFaults = 1
SPECIFICATION Spec
INVARIANT NoSplice
