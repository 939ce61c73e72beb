SPECIFICATION Spec
CONSTANTS
  Proc = {1, 2, 3}
  InitProc = 1
  NPAGES = 13
  PGSIZE = 2
  NPTENTRIES = 2
  NPDENTRIES = 4
  INTSIZE = 2
  Images <- MCImages
  ArgSizes = {2, 3}
  Addrs = {0, 3, 23}
  Lens <- MCLens
  Amounts <- MCAmounts
  MaxCalls = 4
INVARIANTS
  PagesOwnedOnce
  UserMapped
  TableInUse
CHECK_DEADLOCK FALSE
