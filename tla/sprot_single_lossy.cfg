CONSTANTS
  a1 = a1
  b1 = b1
  c2 = c2
  d3 = d3
  Messages = {a1, b1}
  FragmentsOf <- Sizes
  AckAfter = 2
  FrameRetries = 1
  FullRetries = 1
  SeqLimit = 65536
  ReadBufs <- LargeBuf
  SocketBuf = 4
  MaxWrites = 3
  Faults <- Lossy
SPECIFICATION FairSpec
INVARIANT InOrderAtMostOnce
INVARIANT OneLossOneMessage
