SPECIFICATION FairSpec
CONSTANTS
  Block = {1, 2}
  Val = {x}
  Proc = {p1, p2}
  None = None
  NBUF = 2
  DiskErrors = TRUE
  HOLDS = 2
  MAXPIN = 1
PROPERTIES
  IdeServes
  LockComesFree
