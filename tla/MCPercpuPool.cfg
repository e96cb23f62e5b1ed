\* A non-robust pool of 4 items on 1 CPU, used by 2 threads: free-list shapes.
CONSTANTS
  t1 = t1
  t2 = t2
  Threads <- MCThreads
  ItemLen = 1024
  PercpuLen = 4096
  MaxNrCpus = 1
  Robust = FALSE
  BitsPerLong = 64
  IntBits = 32
  Null = Null
  AppData = AppData
  PageLen = 4096
  n0 = n0
  n1 = n1
  Nodes = {n0}
  NodeOf <- MCNodeOf
  NumaThreads = {}
SPECIFICATION Spec
SYMMETRY MCSymmetry
INVARIANT TypeOK
INVARIANT FreeListSound
INVARIANT EveryItemOnce
PROPERTY AllocatorRefinement
