\* Caller-supplied mapping backend whose munmap may fail.
CONSTANTS
  c1 = c1
  c2 = c2
  Clients <- MCClients
  PoolIndexBits = 2
  PoolIndexShift = 5
  PageLen = 16
  PtrSize = 4
  ItemLenArgs = {1, 16, 32}
  PercpuLenArgs = {0, 16, 48}
  MaxNrCpusArgs <- MCMaxNrCpusArgs
  FlagArgs <- MCFlagArgs
  MaxHandles = 2
  CustomBackend = TRUE
  Null = Null
  Base = Base
SPECIFICATION Spec
SYMMETRY MCSymmetry
INVARIANT PoolOwnership
