\* A robust pool of 2 items on 1 CPU, used by 2 correct client threads.
CONSTANTS
  t1 = t1
  t2 = t2
  Threads <- MCThreads
  ItemLen = 2048
  PercpuLen = 4096
  MaxNrCpus = 1
  Robust = TRUE
  BitsPerLong = 64
  IntBits = 32
  Null = Null
  AppData = AppData
  PageLen = 4096
  n0 = n0
  n1 = n1
  Nodes = {n0}
  NodeOf <- MCNodeOf
  NumaThreads = {}
SPECIFICATION Spec
SYMMETRY MCSymmetry
INVARIANT NoSpuriousAbort
