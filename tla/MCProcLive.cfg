SPECIFICATION FairSpec
CONSTANTS
  NPROC = 3
  CPU = {c0}
  BOOT = c0
  NoCPU = NoCPU
  MAXPID = 3
  Syscalls = {"fork", "exit", "wait"}
  KillArgs = {0, 2, 3}
  TicketArgs <- MCTicketArgs
  MAXSLEEP = 1
INVARIANTS
  WaitNotMissed
  NoOrphans
PROPERTIES
  NoStarvation
  OrphansReaped
