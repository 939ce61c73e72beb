SPECIFICATION Spec
CONSTANTS
  Block = {b1, b2, b3}
  Proc = {p1, p2, p3}
  Absent = Absent
  MAXOPBLOCKS = 5
  LOGSIZE = 10
  SIZE = 10
  OPBLOCKS = 3
  MAXOPS = 3
SYMMETRY Symm
INVARIANTS
  ReservationHolds
  CommitAlone
  BeginNotMissed
PROPERTIES
  ImplementsTxDisk
