SPECIFICATION Spec
CONSTANTS
  NPROC = 2
  CPU = {c0, c1}
  BOOT = c0
  NoCPU = NoCPU
  MAXPID = 4
  Syscalls = {"fork", "exit", "wait", "kill", "sleep", "settickets"}
  KillArgs = {0, 2, 3}
  TicketArgs <- MCTicketArgs
  MAXSLEEP = 2
INVARIANTS
  StackInUse
  RunsOnOneCPU
  SchedAsserts
  TickNotMissed
  PinfoConsistent
PROPERTIES
  TicketsInherited
