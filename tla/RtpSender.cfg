SPECIFICATION FairSpec
CONSTANTS
  a = a
  Clients <- OneClient
  MaxQueue = 2  SockBuf = 3  Parts = 2
  MaxPayload = 1420  FrameSizes <- MCSizes  NalHeaders <- MCHeaders
INVARIANTS TypeOK WholeMessages ReplyHasInterest 
PROPERTIES FramesWhole Flushed
