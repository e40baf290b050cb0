SPECIFICATION FairSpec
CONSTANTS
  MaxRead = 10  InitialSize = 10  MaxBuffer = 10  MaxMessage = 4
  Methods <- MCMethods  MaxRequests = 2  MaxLacks = 1  MaxRtcp = 1  Pipelining = TRUE
  Tracks = 1
INVARIANTS InBuffer ServerInStep ServerClosesForCause InOrder PusherWaits
PROPERTIES OwnReply Recording
CHECK_DEADLOCK FALSE
