SPECIFICATION LinksSpec
CONSTANTS
  Proc = {p1, p2}
  InitProc = p1
  None = None
  NINODES = 4
  NINODE = 3
  MaxCalls = 4
  Program = "c"
  Calls <- MCCalls
INVARIANTS
  RefsCounted
  HeldIsAllocated
  CacheIsCurrent
  LinksCounted
  FsAsserts
CHECK_DEADLOCK FALSE
