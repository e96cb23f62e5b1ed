\* A non-robust pool of 2 items on 2 CPUs, used by 2 threads: per-CPU copies.
CONSTANTS
  t1 = t1
  t2 = t2
  Threads <- MCThreads
  ItemLen = 2048
  PercpuLen = 4096
  MaxNrCpus = 2
  Robust = FALSE
  BitsPerLong = 64
  IntBits = 32
  Null = Null
  AppData = AppData
  PageLen = 4096
  n0 = n0
  n1 = n1
  Nodes = {n0, n1}
  NodeOf <- MCNodeOf
  NumaThreads <- MCThreads
SPECIFICATION Spec
SYMMETRY MCSymmetry
PROPERTY ZmallocReturnsZeroed
