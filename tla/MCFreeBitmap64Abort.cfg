\* 64-bit build: unsigned long is 64 bits wide, int is 32 bits wide.
CONSTANTS
  BitsPerLong = 64
  IntBits = 32
  NrItems <- MCNrItems
  Items <- MCItems
  Null = Null
SPECIFICATION Spec
INVARIANT NoSpuriousAbort
CHECK_DEADLOCK FALSE
