CONSTANTS
  s1 = s1
  s2 = s2
  s3 = s3
  None = None
  Torn = Torn
  Procs = {"p"}
  Settings = {s1, s2, s3}
  Extractor <- ThreeExperiments
  Modes = {"graded", "extract"}
  NQ = 2
  Arms <- TwoArms
  Order <- Pinned
  Bodies = {"b", "c"}
  Texts <- Varying
  MaxKills = 2
SPECIFICATION FairSpec
INVARIANTS
  OneExperiment
  RefusedKeepsRows
PROPERTIES ImplementsBlindBatch Completes
