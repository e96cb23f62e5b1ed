\* 32-bit build: unsigned long and int are both 32 bits wide.
CONSTANTS
  BitsPerLong = 32
  IntBits = 32
  NrItems <- MCNrItems
  Items <- MCItems
  Null = Null
SPECIFICATION Spec
INVARIANT TypeOK
INVARIANT NoSpuriousAbort
INVARIANT BitmapTracksUse
INVARIANT LeakDetected
\* A destroyed pool, or a process stopped by assert(), takes no more steps.
CHECK_DEADLOCK FALSE
