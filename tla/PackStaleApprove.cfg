SPECIFICATION Spec
CONSTANTS
  c1 = c1
  c2 = c2
  Packs = {p1}
  RulePacks = {p1}
  Contents = {c1, c2}
  BlocksOnly <- MCBlocksOnly
  KernelThreads = {k1}
  ApiThread = api
  DevMode = TRUE
  None = None
  Unreadable = Unreadable
  Tampered = Tampered
PROPERTY ApproveRecordsCurrentTree
