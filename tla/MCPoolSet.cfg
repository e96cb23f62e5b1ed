CONSTANTS
  t1 = t1
  t2 = t2
  a = a
  b = b
  c = c
  Null = Null
  Threads <- MCThreads
  Pools <- MCPools
  PoolOrder <- MCPoolOrder
  PoolItems <- MCPoolItems
  MinEntry = 2
  NrEntries = 5
  Lens = {0, 5, 16}
  MaxHeld = 2
SPECIFICATION Spec
INVARIANT TypeOK
PROPERTY NullMeansNoneFits
PROPERTY SetMallocReturns
