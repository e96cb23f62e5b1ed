\* Default backend; an item_len whose order is BITS_PER_LONG, and a CPU
\* count whose mapping length wraps size_t.
CONSTANTS
  c1 = c1
  c2 = c2
  Clients <- MCClients
  PoolIndexBits = 2
  PoolIndexShift = 5
  PageLen = 16
  PtrSize = 4
  ItemLenArgs = {1, 16, 100}
  PercpuLenArgs = {0, 16, 48}
  MaxNrCpusArgs = {1, 9}
  FlagArgs <- MCFlagArgs
  MaxHandles = 2
  CustomBackend = FALSE
  Null = Null
  Base = Base
SPECIFICATION Spec
SYMMETRY MCSymmetry
INVARIANT PoolGeometry
