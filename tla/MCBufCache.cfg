SPECIFICATION Spec
CONSTANTS
  Block = {1, 2, 3}
  Val = {x, y}
  Proc = {p1, p2}
  None = None
  NBUF = 2
  DiskErrors = FALSE
  HOLDS = 1
  MAXPIN = 1
SYMMETRY Symm
INVARIANTS
  OneBufferPerBlock
  TargetIsWanted
  PanicMeansFull
PROPERTIES
  ImplementsStore
