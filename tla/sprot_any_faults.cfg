CONSTANTS
  a1 = a1
  b1 = b1
  c2 = c2
  d3 = d3
  Messages = {a1, c2}
  FragmentsOf <- Sizes
  AckAfter = 2
  FrameRetries = 1
  FullRetries = 1
  SeqLimit = 7
  ReadBufs <- LargeBuf
  SocketBuf = 4
  MaxWrites = 2
  Faults <- AnyTwo
SPECIFICATION FairSpec
INVARIANT SeqClass
INVARIANT WellFramed
PROPERTY WritesComplete
