CONSTANTS
  a1 = a1
  b1 = b1
  c2 = c2
  d3 = d3
  Messages = {a1, c2, d3}
  FragmentsOf <- Sizes
  AckAfter = 2
  FrameRetries = 1
  FullRetries = 1
  SeqLimit = 5
  ReadBufs <- ListenerBufs
  SocketBuf = 4
  MaxWrites = 3
  Faults <- NoFaults
SPECIFICATION FairSpec
INVARIANT TypeOK
INVARIANT SocketSuffices
PROPERTY Implements
PROPERTY WritesComplete
