CONSTANTS
  s1 = s1
  s2 = s2
  s3 = s3
  None = None
  Torn = Torn
  Procs = {"p"}
  Settings = {s1}
  Extractor <- Alone
  Modes = {"graded"}
  NQ = 2
  Arms <- TwoArms
  Order <- Pinned
  Bodies = {"b"}
  Texts <- Varying
  MaxKills = 1
SPECIFICATION Spec
INVARIANT ResumeAccepted
