CONSTANTS
  Procs = {p1, p2}
  MaxNumber = 3
  MaxCrashes = 0
  MaxRushes = 1
SPECIFICATION FairSpec
INVARIANT NoNumberTwice
