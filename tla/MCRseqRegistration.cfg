\* Three users of rseq on one thread; the kernel environment is chosen by Init.
CONSTANTS
  u1 = u1
  u2 = u2
  u3 = u3
  Users <- MCUsers
  RefcountBits = 3
SPECIFICATION Spec
SYMMETRY MCSymmetry
INVARIANT TypeOK
INVARIANT HoldersAreRegistered
INVARIANT RefcountCountsHolders
INVARIANT FailedMeansUnregistered
