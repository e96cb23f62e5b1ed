\* Default mapping backend; clients destroy only the pools they own.
CONSTANTS
  c1 = c1
  c2 = c2
  Clients <- MCClients
  PoolIndexBits = 2
  PoolIndexShift = 5
  PageLen = 16
  PtrSize = 4
  ItemLenArgs = {1, 16, 32}
  PercpuLenArgs = {0, 16, 48}
  MaxNrCpusArgs <- MCMaxNrCpusArgs
  FlagArgs <- MCFlagArgs
  MaxHandles = 2
  CustomBackend = FALSE
  Null = Null
  Base = Base
SPECIFICATION Spec
SYMMETRY MCSymmetry
INVARIANT TypeOK
INVARIANT PoolOwnership
INVARIANT HandlesDecode
INVARIANT PoolGeometry
