SPECIFICATION LinksSpec
CONSTANTS
  Proc = {p1, p2}
  InitProc = p1
  None = None
  NINODES = 3
  NINODE = 3
  MaxCalls = 3
  Program = "cat"
  Calls <- MCLinkUnlink
INVARIANT NoDeadlock
CHECK_DEADLOCK FALSE
