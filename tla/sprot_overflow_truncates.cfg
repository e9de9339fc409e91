CONSTANTS
  a1 = a1
  b1 = b1
  c2 = c2
  d3 = d3
  Messages = {d3}
  FragmentsOf <- Sizes
  AckAfter = 4
  FrameRetries = 1
  FullRetries = 1
  SeqLimit = 65536
  ReadBufs <- ListenerBufs
  SocketBuf = 4
  MaxWrites = 1
  Faults <- NoFaults
SPECIFICATION FairSpec
INVARIANT DeliveredWhole
