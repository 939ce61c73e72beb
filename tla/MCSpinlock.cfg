SPECIFICATION Spec
CONSTANTS
  CPU = {c0, c1}
  Thread = {t1, t2, t3}
  Lock = {ptable, kmem, dev}
  PTABLE = ptable
  KMEM = kmem
  NoCPU = NoCPU
  NoLock = NoLock
SYMMETRY Symm
INVARIANTS
  MutualExclusion
  NoPanic
  NoIntrInside
  IntrRestored
