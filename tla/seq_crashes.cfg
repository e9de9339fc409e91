CONSTANTS
  Procs = {p1, p2, p3}
  MaxNumber = 2
  MaxCrashes = 2
  MaxRushes = 0
SPECIFICATION FairSpec
INVARIANT TypeOK
INVARIANT MutualExclusion
INVARIANT NoNumberTwice
PROPERTY Implements
PROPERTY LockComesBack
