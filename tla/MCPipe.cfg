SPECIFICATION Spec
CONSTANTS
  Reader = {r1}
  Writer = {w1, w2}
  Free = Free
  Byte = {x, y}
  PIPESIZE = 2
  WRAP = 6
  MAXN = 3
SYMMETRY Symm
INVARIANTS
  ReaderNotMissed
  WriterNotMissed
PROPERTIES
  ImplementsFifo
