SPECIFICATION Spec
CONSTANTS
  Proc = {p1, p2}
  Handle = {h1, h2}
  Inode = {1, 2}
  None = None
  BSIZE = 2
  NDIRECT = 1
  NBLOCKS = 5
  Chunk = 2
  Byte = {1, 2}
  Sizes = {1, 3}
  MaxOps = 5
  Image <- MCImage
INVARIANT BlocksOwnedOnce
PROPERTY ImplementsBytes
CHECK_DEADLOCK FALSE
